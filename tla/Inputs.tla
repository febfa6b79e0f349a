------------------------------- MODULE Inputs -------------------------------
(***************************************************************************)
(* Every text over an alphabet, of each kind that the byte-level           *)
(* algorithms of the validator are given.                                  *)
(***************************************************************************)
EXTENDS Integers, Sequences

CONSTANTS Alphabet,   \* the bytes used for each kind of input
          Longest     \* the longest text of each kind

Kinds == {"base64", "identity", "list", "scope", "url", "key"}

\* A policy's texts are C strings.
ASSUME InputAssumption ==
    /\ Alphabet \in [Kinds -> SUBSET (0 .. 255)]
    /\ Longest \in [Kinds -> Nat]
    /\ Alphabet["key"] \subseteq 1 .. 255

VARIABLES kind, scheme, text
vars == <<kind, scheme, text>>

Init ==
    /\ kind \in Kinds
    /\ scheme \in IF kind = "url" THEN {"https", "http", ""} ELSE {""}
    /\ text = <<>>

Extend ==
    /\ Len(text) < Longest[kind]
    /\ \E c \in Alphabet[kind] : text' = Append(text, c)
    /\ UNCHANGED <<kind, scheme>>

Next == Extend

Spec == Init /\ [][Next]_vars
=============================================================================
