------------------------ MODULE MeasurementEventMapper ------------------------
(***************************************************************************)
(* What MeasurementUdp.handle makes of a payload: MeasurementEventMapper    *)
(* splits it with String.split, trims the pieces and parses the value; what *)
(* it rejects becomes a malformed event.                                    *)
(*                                                                          *)
(* A payload is a sequence of tokens: the two separators, a blank, and      *)
(* words, which stand for the longest runs of other characters; two words   *)
(* are therefore never neighbours. The state machine edits a well-formed    *)
(* payload token by token, so that every payload within MaxEdits edits of   *)
(* it is met.                                                               *)
(***************************************************************************)
EXTENDS Integers, Sequences, FiniteSets, SequencesExt

CONSTANTS
    Words,          \* "sensor_id" and "value" among them
    IntOf,          \* the words Integer.parseInt accepts, with their value
    WellFormed,     \* the payload the edits start from
    MaxEdits        \* bound on the edits

Semicolon == ";"
Equals == "="
Blank == " "

Punctuation == {Semicolon, Equals, Blank}

ASSUME WordsAssumption ==
    /\ {"sensor_id", "value"} \subseteq Words
    /\ Punctuation \cap Words = {}

ASSUME IntOfAssumption ==
    /\ DOMAIN IntOf \subseteq Words
    /\ \A w \in DOMAIN IntOf : IntOf[w] \in (-2147483647 - 1) .. 2147483647

Tokens == Words \cup Punctuation

Tokenized(s) ==
    /\ s \in Seq(Tokens)
    /\ \A i \in 2 .. Len(s) : {s[i - 1], s[i]} \cap Punctuation # {}

ASSUME WellFormedAssumption == Tokenized(WellFormed) /\ MaxEdits \in Nat

VARIABLES payload, edits

vars == <<payload, edits>>

-----------------------------------------------------------------------------
(* java.lang.String.                                                       *)

\* The members of S in ascending order are Nth(S, 0), Nth(S, 1) and so on.
Nth(S, k) == CHOOSE i \in S : Cardinality({j \in S : j < i}) = k

\* Where s is cut: before it, at its separators, and after it.
Cuts(s, separator) == {0, Len(s) + 1} \cup {i \in DOMAIN s : s[i] = separator}

\* The pieces between the cuts, empty ones included.
Pieces(s, separator) ==
    LET cuts == Cuts(s, separator)
    IN  [k \in 1 .. Cardinality(cuts) - 1 |->
            SubSeq(s, Nth(cuts, k - 1) + 1, Nth(cuts, k) - 1)]

\* The pieces without the empty ones at the end; the only one is kept, though.
Remaining(pieces) ==
    LET filled == {k \in DOMAIN pieces : pieces[k] # <<>>}
    IN  IF Len(pieces) = 1 THEN pieces ELSE SubSeq(pieces, 1, Max(filled \cup {0}))

\* split(regex).
Split(s, separator) == Remaining(Pieces(s, separator))

Trim(s) ==
    LET filled == {i \in DOMAIN s : s[i] # Blank}
    IN  IF filled = {} THEN <<>> ELSE SubSeq(s, Min(filled), Max(filled))

\* Integer.parseInt throws for anything but one word that is an int.
ParseableInt(s) == Len(s) = 1 /\ s[1] \in DOMAIN IntOf

-----------------------------------------------------------------------------
(* The mapper.                                                             *)

\* Mutant: both length checks ask for two pieces at least.
ParametersLoosely(s) ==
    LET parts == Split(s, Semicolon)
        entries == [k \in DOMAIN parts |-> Split(parts[k], Equals)]
        named == {k \in DOMAIN parts : Len(parts) >= 2 /\ Len(entries[k]) >= 2}
    IN  [key \in {Trim(entries[k][1]) : k \in named} |->
            Trim(entries[Max({k \in named : Trim(entries[k][1]) = key})][2])]

\* getParametersMap: no entry unless there are two parts; a part that is not
\* key=value is skipped; a key's later entry replaces the earlier.
Parameters(s) ==
    LET parts == Split(s, Semicolon)
        entries == [k \in DOMAIN parts |-> Split(parts[k], Equals)]
        named == {k \in DOMAIN parts : Len(parts) = 2 /\ Len(entries[k]) = 2}
    IN  [key \in {Trim(entries[k][1]) : k \in named} |->
            Trim(entries[Max({k \in named : Trim(entries[k][1]) = key})][2])]

\* from: a missing parameter is a null that the builder rejects, which is
\* rethrown as IllegalArgumentException; NumberFormatException is one too.
Rejected(s) ==
    LET parameters == Parameters(s) IN
    \/ ~({<<"sensor_id">>, <<"value">>} \subseteq DOMAIN parameters)
    \/ ~ParseableInt(parameters[<<"value">>])

\* from, for a payload it does not reject.
EventOf(s) ==
    LET parameters == Parameters(s) IN
    [sensorId |-> parameters[<<"sensor_id">>], value |-> IntOf[parameters[<<"value">>][1]]]

\* handle: the measurement event, or the malformed event with the payload as
\* it came. The type is the adapter's and the id the message's, in both.
Handle(s) == IF Rejected(s) THEN [payload |-> s] ELSE EventOf(s)

-----------------------------------------------------------------------------
Init == payload = WellFormed /\ edits = 0

Splice(i, middle, j) == SubSeq(payload, 1, i) \o middle \o SubSeq(payload, j, Len(payload))

Edit(edited) ==
    /\ edits < MaxEdits
    /\ edits' = edits + 1
    /\ payload' = edited
    /\ Tokenized(payload')

Insert(i, t) == Edit(Splice(i, <<t>>, i + 1))

Delete(i) == Edit(Splice(i - 1, <<>>, i + 1))

Replace(i, t) == Edit(Splice(i - 1, <<t>>, i + 1))

\* The next datagram starts from the well-formed payload again.
NextPayload ==
    /\ edits = MaxEdits
    /\ edits' = 0
    /\ payload' = WellFormed

Next ==
    \/ \E i \in 0 .. Len(payload), t \in Tokens : Insert(i, t)
    \/ \E i \in DOMAIN payload : Delete(i)
    \/ \E i \in DOMAIN payload, t \in Tokens : Replace(i, t)
    \/ NextPayload

Spec == Init /\ [][Next]_vars

-----------------------------------------------------------------------------
(***************************************************************************)
(* The language of the mapper, written down without splitting anything:    *)
(* two assignments, of sensor_id and of value in any order, separated by   *)
(* one semicolon; blanks around keys and values; equal signs after a value *)
(* and semicolons after the second assignment do no harm. A value has to   *)
(* be there, but the sensor's may be nothing but blanks.                   *)
(***************************************************************************)
Only(s, tokens) == \A i \in DOMAIN s : s[i] \in tokens

Free(s, token) == \A i \in DOMAIN s : s[i] # token

\* s is text with blanks around it.
Padded(s, text) ==
    \E i \in 0 .. Len(s) : \E j \in i .. Len(s) :
        /\ SubSeq(s, i + 1, j) = text
        /\ Only(SubSeq(s, 1, i), {Blank})
        /\ Only(SubSeq(s, j + 1, Len(s)), {Blank})
        /\ text # <<>> => text[1] # Blank /\ Last(text) # Blank

Assigns(s, key, value) ==
    \E i \in DOMAIN s : \E j \in i + 1 .. Len(s) :
        /\ s[i] = Equals
        /\ Padded(SubSeq(s, 1, i - 1), <<key>>)
        /\ Padded(SubSeq(s, i + 1, j), value)
        /\ Free(SubSeq(s, i + 1, j), Equals)
        /\ Only(SubSeq(s, j + 1, Len(s)), {Equals})

Reads(s, sensor, word) ==
    \E i \in DOMAIN s : \E j \in i + 1 .. Len(s) :
        LET left == SubSeq(s, 1, i - 1)
            right == SubSeq(s, i + 1, j)
        IN  /\ s[i] = Semicolon
            /\ Free(left, Semicolon) /\ Free(right, Semicolon)
            /\ Only(SubSeq(s, j + 1, Len(s)), {Semicolon})
            /\ \/ Assigns(left, "sensor_id", sensor) /\ Assigns(right, "value", <<word>>)
               \/ Assigns(right, "sensor_id", sensor) /\ Assigns(left, "value", <<word>>)

Subtexts(s) == {SubSeq(s, i + 1, j) : i \in 0 .. Len(s), j \in 0 .. Len(s)}

(***************************************************************************)
(* MeasurementEventMapper.from accepts this language and nothing else, and *)
(* reads a payload in one way: whatever separators, blanks and repetitions *)
(* split, trim and the map are given, a reading has the sensor and the     *)
(* value of the payload, and the rest is malformed.                        *)
(***************************************************************************)
ReadsItsLanguage ==
    {Handle(payload)} =
        LET readings == {r \in Subtexts(payload) \X DOMAIN IntOf : Reads(payload, r[1], r[2])}
        IN  IF readings = {} THEN {[payload |-> payload]}
            ELSE {[sensorId |-> r[1], value |-> IntOf[r[2]]] : r \in readings}
=============================================================================
