---------------------------- MODULE MCChannelStore ----------------------------
(***************************************************************************)
(* The text order of ChannelStore against a reference: numerals spelled    *)
(* digit by digit and compared as sequences, for every pair of amounts.    *)
(* TLC evaluates the assumption at the start of every run that uses it.    *)
(***************************************************************************)
EXTENDS ChannelStore

Digits(n) == CHOOSE len \in 1 .. MaxDigits :
               n \in (IF len = 1 THEN 0 ELSE 10 ^ (len - 1)) .. 10 ^ len - 1

Numeral(n) == [i \in 1 .. Digits(n) |-> (n \div 10 ^ (Digits(n) - i)) % 10]

\* The usual lexicographic order: the first difference decides, and a
\* proper prefix comes first.
Lexicographic(s, t) ==
  \/ \E i \in DOMAIN s \cap DOMAIN t :
       /\ \A j \in 1 .. i - 1 : s[j] = t[j]
       /\ s[i] < t[i]
  \/ Len(s) <= Len(t) /\ SubSeq(t, 1, Len(s)) = s

(* The arithmetic definition is the order SQLite gives two TEXT amounts.    *)
ASSUME TextLeqIsLexicographic ==
  \A left, right \in 0 .. 130 :
    TextLeq(left, right) <=> Lexicographic(Numeral(left), Numeral(right))
=============================================================================
