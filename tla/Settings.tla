------------------------------ MODULE Settings ------------------------------
(***************************************************************************)
(* A configuration message, "SET <key> <value>", and what get_setting      *)
(* (daemon/util.c) makes of it.  get_setting copies the payload into a     *)
(* buffer of its length, without a terminator: strtok goes on into what    *)
(* the heap held there, the rest of an earlier message say.                *)
(* A payload is a sequence of symbols: words, spaces, zeros, digits.       *)
(***************************************************************************)
EXTENDS Integers, Sequences, FiniteSets

Space  == " "
NUL    == "NUL"
Digits == <<"0", "1", "2", "3", "4", "5", "6", "7", "8", "9">>

(* The buffer, and what free left behind it when it was an earlier one's.   *)
(* A zero follows in the end.                                               *)
Memory(payload, earlier) ==
  payload \o SubSeq(earlier, Len(payload) + 1, Len(earlier))

(* What is left in a buffer that was freed: free keeps its links at the     *)
(* head of it, over the first word and the space at least.                  *)
Freed(buffer) ==
  [i \in 1 .. Len(buffer) |-> IF i <= 2 THEN "link" ELSE buffer[i]]

Before(s, symbol) ==
  SubSeq(s, 1, Cardinality({i \in 1 .. Len(s) :
                              \A j \in 1 .. i : s[j] # symbol}))

(* strtok(): the nth word of a text, none if there are fewer.               *)
Words(text, n) ==
  LET starts == {i \in 1 .. Len(text) :
                   text[i] # Space /\ (i > 1 => text[i - 1] = Space)}
  IN  {Before(SubSeq(text, i, Len(text)), Space) :
         i \in {k \in starts : Cardinality({j \in starts : j <= k}) = n}}

(* The key and the value, none if a word is missing.                        *)
get_setting(payload, earlier) ==
  LET text == Before(Memory(payload, earlier), NUL)
  IN  {[key |-> key, value |-> value] :
         key \in Words(text, 2), value \in Words(text, 3)}

atoi(word) ==
  LET isDigit(i) == \E d \in 0 .. 9 : Digits[d + 1] = word[i]
      digit(i)   == CHOOSE d \in 0 .. 9 : Digits[d + 1] = word[i]
      length     == Cardinality({i \in 1 .. Len(word) :
                                   \A j \in 1 .. i : isDigit(j)})
      number[n \in 0 .. length] ==
        IF n = 0 THEN 0 ELSE 10 * number[n - 1] + digit(n)
  IN  number[length]
=============================================================================
