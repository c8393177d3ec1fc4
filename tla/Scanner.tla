------------------------------ MODULE Scanner ------------------------------
(***************************************************************************)
(* Texts and the Scanner of rssip-utils.  A text is a sequence of tokens:  *)
(* the delimiters of a grammar, and words, which stand for runs of         *)
(* characters that delimit nothing.  A run in which the code may stop, as  *)
(* it does behind digits and behind the prefixes IN, IP4 and IP6 of a      *)
(* connection, is written as several words: 3gpp-tt is "3", "gpp-tt", and  *)
(* INET "IN", "ET".  So a number is a word of digits alone, no other word  *)
(* begins with a digit, and no two numbers follow each other.  A value in  *)
(* a message is such a sequence too; an optional value is a sequence of at *)
(* most one value.  A reader starts at a position and returns where it     *)
(* stopped and what it read.                                               *)
(***************************************************************************)
EXTENDS Naturals, SequencesExt

CONSTANTS
    Ip4, Ip6,       \* values that are addresses
    Numbers,        \* words that are numbers
    Bits            \* per number, the bits it needs

NL == "NL"
SP == "SP"         \* a space

\* The value is one word of the set.
OneOf(value, words) == Len(value) = 1 /\ value[1] \in words

Opt(before, value) == IF value = <<>> THEN <<>> ELSE before \o value[1]

Read(at, val) == [ok |-> TRUE, at |-> at, val |-> val]
Error == [ok |-> FALSE, at |-> 0, val |-> <<>>]

\* The `?' of Rust.
Then(r, Next(_)) == IF r.ok THEN Next(r) ELSE Error

At(t, at) == IF at <= Len(t) THEN t[at] ELSE "end"

\* All up to the first of the stops, or the end.
ScanUntil(t, at, stops) ==
    LET ends == {k \in at..Len(t) : t[k] \in stops}
        end == IF ends = {} THEN Len(t) + 1 ELSE CHOOSE k \in ends : \A j \in ends : k <= j
    IN Read(end, SubSeq(t, at, end - 1))

\* The first position that has another token.
Skip(t, at, token) ==
    LET ends == {k \in at..(Len(t) + 1) : At(t, k) # token}
    IN CHOOSE k \in ends : \A j \in ends : k <= j

SkipWs(t, at) == Skip(t, at, SP)
SkipNewline(t, at) == Skip(t, at, NL)

MustRead(t, at, token) == IF At(t, at) = token THEN Read(at + 1, <<>>) ELSE Error

Fitting(bits) == {n \in Numbers : Bits[n] <= bits}

\* scan_u16, scan_u32, scan_u64, and scan_i64 with 63 bits: the digits that
\* come first, whatever follows them.  A sign is no digit.
ScanNumber(t, at, bits) ==
    IF At(t, at) \in Fitting(bits) THEN Read(at + 1, <<t[at]>>) ELSE Error
=============================================================================
