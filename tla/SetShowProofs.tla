--------------------------- MODULE SetShowProofs ---------------------------
(***************************************************************************)
(* The key parser of pmc_dump.cpp takes a line token by token and keeps    *)
(* what it took in its keys; LineIsRight, LineNumber and LineText read the *)
(* line as a whole. LinesAreUnderstood shows that the two agree, for lines *)
(* of any length and content: KeyInv says of each round of the loop that   *)
(* the keys hold what the front of the line says, and that this front is   *)
(* right.                                                                  *)
(*                                                                         *)
(* The second part shows that what the build functions make of the keys    *)
(* has the members that the TLV function of its id moves, each with its    *)
(* octets (Made), so that a typed structure goes through the codec like    *)
(* one of an application.                                                  *)
(***************************************************************************)
EXTENDS SetShow, RoundTripProofs

-----------------------------------------------------------------------------
(* What the front of a line says *)

(* The values of a key among the first p tokens. *)
ValuesTo(id, line, k, p) == { i \in ValuesOf(id, line, k) : i <= p }

(* The number and the text of a key with the values at the places S. *)
NumberAt(id, line, k, S) ==
  LET key == KeysOf(id)[k]
      numbers == { i \in S : NumOf(key, line[i]) # NotNumber }
  IN  IF numbers = {} THEN key.def ELSE NumOf(key, line[LastOf(numbers)])
TextAt(line, S) == IF S = {} THEN << >> ELSE line[LastOf(S)].text

(* parse_quote() is called where token i of the line stands. *)
MayBeText(id, line, i) ==
  \E k \in DOMAIN KeysOf(id) :
    /\ KeysOf(id)[k].can_str
    /\ OneKey(KeysOf(id)) \/ i \in ValuesOf(id, line, k)

(* The first p tokens have nothing wrong. *)
RightTo(id, line, p) ==
  /\ \A i \in 1 .. p : line[i].t = "open" => ~MayBeText(id, line, i)
  /\ ~OneKey(KeysOf(id)) =>
       \A i \in 1 .. p : i % 2 = 1 => line[i].w \in DOMAIN KeysOf(id)
  /\ \A k \in DOMAIN KeysOf(id) :
       \A i \in ValuesTo(id, line, k, p) : ~Wrong(KeysOf(id)[k], line[i])

(* The largest of a set of numbers, when one above all of them is added. *)
LEMMA LastAdded ==
  ASSUME NEW S \in SUBSET Nat, NEW m \in Nat, \A i \in S : i < m
  PROVE  LastOf(S \cup {m}) = m
<1>1. \A j \in S \cup {m} : j <= m
  OBVIOUS
<1>2. \A i \in S \cup {m} : (\A j \in S \cup {m} : j <= i) => i = m
  OBVIOUS
<1> QED
  BY <1>1, <1>2 DEF LastOf

(* R has a larger element m more than S. *)
Added(S, m, R) == S \in SUBSET Nat /\ m \in Nat /\ (\A i \in S : i < m) /\ R = S \cup {m}

(* Another value of a key replaces its text, and its number if it is one. *)
LEMMA ValueAdded ==
  ASSUME NEW id, NEW line, NEW k, NEW S, NEW m, NEW R, Added(S, m, R)
  PROVE  /\ NumberAt(id, line, k, R) =
              IF NumOf(KeysOf(id)[k], line[m]) = NotNumber THEN NumberAt(id, line, k, S)
              ELSE NumOf(KeysOf(id)[k], line[m])
         /\ TextAt(line, R) = line[m].text
<1> USE DEF Added
<1> DEFINE key == KeysOf(id)[k]
           isNum(i) == NumOf(key, line[i]) # NotNumber
           numbers == { i \in S : isNum(i) }
           more == { i \in S \cup {m} : isNum(i) }
<1>1. CASE NumOf(key, line[m]) = NotNumber
  <2>1. more = numbers
    BY <1>1
  <2> QED
    BY <1>1, <2>1, LastAdded DEF NumberAt, TextAt
<1>2. CASE NumOf(key, line[m]) # NotNumber
  <2>1. more = numbers \cup {m}
    BY <1>2
  <2>2. LastOf(more) = m
    <3>1. numbers \in SUBSET Nat /\ \A i \in numbers : i < m
      OBVIOUS
    <3> QED
      BY <2>1, <3>1, LastAdded
  <2> QED
    BY <1>2, <2>1, <2>2, LastAdded DEF NumberAt, TextAt
<1> QED
  BY <1>1, <1>2

(* With no memory behind the line that is quoted, the tokenizers see the tokens. *)
LEMMA TokenOf ==
  ASSUME NEW tokens, NEW c
  PROVE  /\ tokens = << >> => Token(tokens, "plain", c).out = "none"
         /\ tokens # << >> =>
              IF c /\ Head(tokens).t = "open" THEN Token(tokens, "plain", c).out = "error"
              ELSE /\ Token(tokens, "plain", c).out = "token"
                   /\ Token(tokens, "plain", c).tkn = Head(tokens)
                   /\ Token(tokens, "plain", c).rest = Tail(tokens)
BY DEF Token

(* LineIsRight, with the places that are counted from the front. *)
LEMMA RightLine ==
  ASSUME NEW id, NEW line, Len(line) \in Nat
  PROVE  LineIsRight(id, line) <=>
           /\ RightTo(id, line, Len(line))
           /\ \A k \in DOMAIN KeysOf(id) : KeysOf(id)[k].req => ValuesOf(id, line, k) # {}
<1>1. \A k : ValuesTo(id, line, k, Len(line)) = ValuesOf(id, line, k)
  BY DEF ValuesTo, ValuesOf
<1>2. OpenQuote(id, line) <=>
        \E i \in 1 .. Len(line) : line[i].t = "open" /\ MayBeText(id, line, i)
  BY DEF OpenQuote, MayBeText
<1> QED
  BY <1>1, <1>2 DEF LineIsRight, RightTo

-----------------------------------------------------------------------------
(* One round of the loop *)

(* The rest of a line behind its first p tokens. *)
LEMMA RestOf ==
  ASSUME NEW T, NEW s \in Seq(T), NEW p \in 0 .. Len(s)
  PROVE  /\ p = Len(s) => SubSeq(s, p + 1, Len(s)) = << >>
         /\ p < Len(s) => /\ SubSeq(s, p + 1, Len(s)) # << >>
                          /\ Head(SubSeq(s, p + 1, Len(s))) = s[p + 1]
                          /\ Tail(SubSeq(s, p + 1, Len(s))) = SubSeq(s, p + 2, Len(s))
<1>1. SubSeq(s, p + 1, Len(s)) \in Seq(T) /\ Len(SubSeq(s, p + 1, Len(s))) = Len(s) - p
  BY SubSeqProperties
<1>2. CASE p < Len(s)
  <2> DEFINE m == p + 1
  <2>1. m \in 1 .. Len(s) /\ Len(s) \in m .. Len(s) /\ m + 1 = p + 2
    BY <1>2
  <2> HIDE DEF m
  <2>2. Head(SubSeq(s, m, Len(s))) = s[m] /\ Tail(SubSeq(s, m, Len(s))) = SubSeq(s, m + 1, Len(s))
    BY <2>1, HeadTailOfSubSeq
  <2>3. Tail(SubSeq(s, m, Len(s))) = SubSeq(s, p + 2, Len(s))
    BY <2>1, <2>2
  <2>4. SubSeq(s, p + 1, Len(s)) # << >>
    <3> DEFINE r == SubSeq(s, p + 1, Len(s))
    <3>1. r \in Seq(T) /\ Len(r) = Len(s) - p
      BY <1>1
    <3> HIDE DEF r
    <3>2. r # << >>
      BY <1>2, <3>1
    <3> QED
      BY <3>2 DEF r
  <2> QED
    BY <1>2, <2>2, <2>3, <2>4 DEF m
<1> QED
  BY <1>1, <1>2

(* The keys hold what the first p tokens say, which are right, and the others are left. *)
TokensOf(line) == { line[i] : i \in DOMAIN line }
KeysHold(p) ==
  LET keys == KeysOf(kid) IN
  /\ typed \in Seq(TokensOf(typed))
  /\ left = SubSeq(typed, p + 1, Len(typed))
  /\ p % 2 = 0 \/ (p = Len(typed) /\ OneKey(keys))
  /\ num = [k \in DOMAIN keys |-> NumberAt(kid, typed, k, ValuesTo(kid, typed, k, p))]
  /\ str_val = [k \in DOMAIN keys |-> TextAt(typed, ValuesTo(kid, typed, k, p))]
  /\ req = [k \in DOMAIN keys |->
              IF ValuesTo(kid, typed, k, p) = {} THEN keys[k].req ELSE FALSE]
  /\ RightTo(kid, typed, p)

KeyInv ==
  /\ kpc = "keys" /\ behind = "plain" => \E p \in 0 .. Len(typed) : KeysHold(p)
  /\ KeysMatchLine

(* A round takes the key at and its value, the tokens behind the first p up to q. *)
TakesTo(id, line, p, q, at) ==
  /\ Len(line) \in Nat /\ p \in Nat /\ q \in 1 .. Len(line) /\ p % 2 = 0
  /\ q = p + 2 \/ (q = p + 1 /\ q = Len(line) /\ OneKey(KeysOf(id)))
  /\ at \in DOMAIN KeysOf(id)
  /\ OneKey(KeysOf(id)) \/ line[p + 1].w = at

(* Such a round adds q to the values of that key only. *)
LEMMA OneMoreValue ==
  ASSUME NEW id, NEW line, NEW p, NEW q, NEW at, TakesTo(id, line, p, q, at)
  PROVE  /\ ValuesTo(id, line, at, p) \in SUBSET Nat
         /\ \A i \in ValuesTo(id, line, at, p) : i < q
         /\ ValuesTo(id, line, at, q) = ValuesTo(id, line, at, p) \cup {q}
         /\ \A k \in DOMAIN KeysOf(id) \ {at} :
              ValuesTo(id, line, k, q) = ValuesTo(id, line, k, p)
<1> USE DEF TakesTo
<1>1. \A k \in DOMAIN KeysOf(id) : \A i \in 1 .. Len(line) :
        i \in ValuesOf(id, line, k) <=>
          IF OneKey(KeysOf(id)) THEN i % 2 = 0 \/ i = Len(line)
          ELSE i % 2 = 0 /\ line[i - 1].w = k
  BY DEF ValuesOf
<1>2. \A k : ValuesOf(id, line, k) \subseteq 1 .. Len(line)
  BY DEF ValuesOf
<1>3. CASE q = p + 2
  <2>1. q % 2 = 0 /\ (p + 1) % 2 = 1 /\ p + 1 # Len(line) /\ p + 1 \in 1 .. Len(line)
    BY <1>3
  <2>2. q \in ValuesOf(id, line, at) /\ p + 1 \notin ValuesOf(id, line, at)
    BY <1>1, <1>3, <2>1
  <2>3. \A k \in DOMAIN KeysOf(id) \ {at} :
          q \notin ValuesOf(id, line, k) /\ p + 1 \notin ValuesOf(id, line, k)
    <3>1. CASE OneKey(KeysOf(id))
      BY <3>1 DEF OneKey
    <3>2. CASE ~OneKey(KeysOf(id))
      BY <1>1, <1>3, <2>1, <3>2
    <3> QED
      BY <3>1, <3>2
  <2> QED
    BY <1>2, <1>3, <2>2, <2>3 DEF ValuesTo
<1>4. CASE q = p + 1 /\ q = Len(line) /\ OneKey(KeysOf(id))
  <2>1. q \in ValuesOf(id, line, at) /\ DOMAIN KeysOf(id) = {at}
    BY <1>1, <1>4 DEF OneKey
  <2> QED
    BY <1>2, <1>4, <2>1 DEF ValuesTo
<1> QED
  BY <1>3, <1>4

(* What the longer front of the line says of that key. *)
LEMMA ValueTaken ==
  ASSUME NEW id, NEW line, NEW p, NEW q, NEW at, TakesTo(id, line, p, q, at)
  PROVE  /\ NumberAt(id, line, at, ValuesTo(id, line, at, q)) =
              IF NumOf(KeysOf(id)[at], line[q]) = NotNumber
              THEN NumberAt(id, line, at, ValuesTo(id, line, at, p))
              ELSE NumOf(KeysOf(id)[at], line[q])
         /\ TextAt(line, ValuesTo(id, line, at, q)) = line[q].text
<1> DEFINE S == ValuesTo(id, line, at, p)
           R == ValuesTo(id, line, at, q)
<1>1. S \in SUBSET Nat /\ (\A i \in S : i < q) /\ R = S \cup {q}
  BY OneMoreValue
<1>2. Added(S, q, R)
  BY <1>1 DEF Added, TakesTo
<1> HIDE DEF S, R
<1>3. NumberAt(id, line, at, R) =
        IF NumOf(KeysOf(id)[at], line[q]) = NotNumber THEN NumberAt(id, line, at, S)
        ELSE NumOf(KeysOf(id)[at], line[q])
  BY <1>2, ValueAdded
<1>4. TextAt(line, R) = line[q].text
  BY <1>2, ValueAdded
<1> QED
  BY <1>3, <1>4 DEF S, R

(* What a round of the loop finds, in front of the first token that is left. *)
LEMMA Finds ==
  ASSUME NEW p \in 0 .. Len(typed), KeysHold(p), behind = "plain"
  PROVE  LET keys == KeysOf(kid)
             n == Len(typed)
             text == OneKey(keys) /\ keys[TheKey].can_str /\ typed[p + 1].t = "open"
         IN  /\ n \in Nat /\ DOMAIN req = DOMAIN keys /\ (singleKey <=> OneKey(keys))
             /\ OneKey(keys) => DOMAIN keys = {TheKey}
             /\ p = n => First.out = "none"
             /\ p < n /\ text => First.out = "error"
             /\ p < n /\ ~text => /\ First.out = "token" /\ First.tkn = typed[p + 1]
                                  /\ First.rest = SubSeq(typed, p + 2, n)
             /\ p < n => p % 2 = 0
<1> DEFINE keys == KeysOf(kid)
           n == Len(typed)
<1>1. n \in Nat /\ DOMAIN req = DOMAIN keys
  BY DEF KeysHold
<1>2. (singleKey <=> OneKey(keys)) /\ (OneKey(keys) => DOMAIN keys = {TheKey})
  BY <1>1 DEF singleKey, OneKey, TheKey
<1>3. /\ p = n => left = << >>
      /\ p < n => /\ left # << >> /\ Head(left) = typed[p + 1]
                  /\ Tail(left) = SubSeq(typed, p + 2, n)
  BY RestOf DEF KeysHold
<1> DEFINE c == OneKey(keys) /\ keys[TheKey].can_str
<1>4. First = Token(left, "plain", c)
  BY <1>2 DEF First
<1>5. p < n => p % 2 = 0
  BY <1>1 DEF KeysHold
<1>6. p = n => First.out = "none"
  BY <1>3, <1>4, TokenOf
<1>7. CASE p < n
  <2> HIDE DEF c
  <2>1. IF c /\ typed[p + 1].t = "open" THEN First.out = "error"
        ELSE /\ First.out = "token" /\ First.tkn = typed[p + 1]
             /\ First.rest = SubSeq(typed, p + 2, n)
    BY <1>3, <1>4, <1>7, TokenOf
  <2> QED
    BY <1>1, <1>2, <1>5, <1>7, <2>1 DEF c
<1> QED
  BY <1>1, <1>2, <1>5, <1>6, <1>7

(* With a right key and a right value the front of the line stays right. *)
LEMMA RightOn ==
  ASSUME NEW id, NEW line, NEW p, NEW q, NEW at, TakesTo(id, line, p, q, at),
         RightTo(id, line, p), ~Wrong(KeysOf(id)[at], line[q]),
         ~(KeysOf(id)[at].can_str /\ line[q].t = "open"),
         OneKey(KeysOf(id)) => ~(KeysOf(id)[at].can_str /\ line[p + 1].t = "open")
  PROVE  RightTo(id, line, q)
<1> DEFINE keys == KeysOf(id)
<1>1. /\ ValuesTo(id, line, at, q) = ValuesTo(id, line, at, p) \cup {q}
      /\ \A k \in DOMAIN keys \ {at} : ValuesTo(id, line, k, q) = ValuesTo(id, line, k, p)
  BY OneMoreValue
<1> USE DEF TakesTo
<1>2. \A k \in DOMAIN keys : \A i \in ValuesTo(id, line, k, q) : ~Wrong(keys[k], line[i])
  BY <1>1 DEF RightTo
<1>3. \A i \in 1 .. q : i \in 1 .. p \/ i = p + 1 \/ i = q
  OBVIOUS
<1>4. ~OneKey(keys) => \A i \in 1 .. q : i % 2 = 1 => line[i].w \in DOMAIN keys
  BY <1>3 DEF RightTo
<1>5. line[q].t = "open" => ~MayBeText(id, line, q)
  <2>1. CASE OneKey(keys)
    BY <2>1 DEF MayBeText, OneKey
  <2>2. CASE ~OneKey(keys)
    <3>1. \A k \in DOMAIN keys \ {at} : q \notin ValuesOf(id, line, k)
      BY <1>1 DEF ValuesTo
    <3> QED
      BY <2>2, <3>1 DEF MayBeText
  <2> QED
    BY <2>1, <2>2
<1>6. line[p + 1].t = "open" => ~MayBeText(id, line, p + 1)
  <2>1. CASE OneKey(keys)
    BY <2>1 DEF MayBeText, OneKey
  <2>2. CASE ~OneKey(keys)
    <3>1. \A k \in DOMAIN keys : p + 1 \notin ValuesOf(id, line, k)
      BY <2>2 DEF ValuesOf
    <3> QED
      BY <2>2, <3>1 DEF MayBeText
  <2> QED
    BY <2>1, <2>2
<1>7. \A i \in 1 .. q : line[i].t = "open" => ~MayBeText(id, line, i)
  BY <1>3, <1>5, <1>6 DEF RightTo
<1> QED
  BY <1>2, <1>4, <1>7 DEF RightTo

(* The key that the round finds, and what it finds behind it. *)
LEMMA FindsValue ==
  ASSUME NEW p \in 0 .. Len(typed), KeysHold(p), behind = "plain",
         First.out = "token", IsKey
  PROVE  LET keys == KeysOf(kid)
             n == Len(typed)
             text == keys[KeyAt].can_str /\ typed[p + 2].t = "open"
         IN  /\ p < n /\ KeyAt \in DOMAIN keys /\ key0 = keys[KeyAt]
             /\ OneKey(keys) \/ typed[p + 1].w = KeyAt
             /\ OneKey(keys) => ~(keys[KeyAt].can_str /\ typed[p + 1].t = "open")
             /\ p + 1 = n => Second.out = "none"
             /\ p + 1 < n /\ text => Second.out = "error"
             /\ p + 1 < n /\ ~text => /\ Second.out = "token" /\ Second.tkn = typed[p + 2]
                                      /\ Second.rest = SubSeq(typed, p + 3, n)
<1> DEFINE keys == KeysOf(kid)
           n == Len(typed)
<1>1. /\ n \in Nat /\ DOMAIN req = DOMAIN keys /\ (singleKey <=> OneKey(keys))
      /\ OneKey(keys) => DOMAIN keys = {TheKey}
      /\ p < n /\ First.tkn = typed[p + 1] /\ First.rest = SubSeq(typed, p + 2, n)
      /\ ~(OneKey(keys) /\ keys[TheKey].can_str /\ typed[p + 1].t = "open")
  <2> DEFINE text == OneKey(keys) /\ keys[TheKey].can_str /\ typed[p + 1].t = "open"
             rest == SubSeq(typed, p + 2, n)
  <2>1. /\ n \in Nat /\ DOMAIN req = DOMAIN keys /\ (singleKey <=> OneKey(keys))
        /\ OneKey(keys) => DOMAIN keys = {TheKey}
        /\ p = n => First.out = "none"
        /\ p < n /\ text => First.out = "error"
        /\ p < n /\ ~text => First.tkn = typed[p + 1] /\ First.rest = rest
    BY Finds
  <2> HIDE DEF rest, text
  <2>2. p < n /\ ~text
    BY <2>1
  <2> QED
    BY <2>1, <2>2 DEF rest, text
<1>2. /\ KeyAt \in DOMAIN keys /\ key0 = keys[KeyAt]
      /\ OneKey(keys) \/ typed[p + 1].w = KeyAt
      /\ OneKey(keys) => KeyAt = TheKey
  BY <1>1 DEF KeyAt, IsKey, key0
<1>3. Second = Token(First.rest, "plain", keys[KeyAt].can_str)
  BY <1>2 DEF Second
<1>4. /\ p + 1 = n => First.rest = << >>
      /\ p + 1 < n => /\ First.rest # << >> /\ Head(First.rest) = typed[p + 2]
                      /\ Tail(First.rest) = SubSeq(typed, p + 3, n)
  <2> DEFINE m == p + 1
  <2>0. typed \in Seq(TokensOf(typed))
    BY DEF KeysHold
  <2>1. m \in 0 .. n /\ m + 1 = p + 2 /\ m + 2 = p + 3
    <3> HIDE DEF n
    <3> QED
      BY <1>1
  <2> HIDE DEF m
  <2>2. /\ m = n => SubSeq(typed, m + 1, n) = << >>
        /\ m < n => /\ SubSeq(typed, m + 1, n) # << >>
                    /\ Head(SubSeq(typed, m + 1, n)) = typed[m + 1]
                    /\ Tail(SubSeq(typed, m + 1, n)) = SubSeq(typed, m + 2, n)
    BY <2>0, <2>1, RestOf
  <2> QED
    BY <1>1, <2>1, <2>2 DEF m
<1>5. p + 1 = n => Second.out = "none"
  BY <1>3, <1>4, TokenOf
<1>6. p + 1 < n =>
        IF keys[KeyAt].can_str /\ typed[p + 2].t = "open" THEN Second.out = "error"
        ELSE /\ Second.out = "token" /\ Second.tkn = typed[p + 2]
             /\ Second.rest = SubSeq(typed, p + 3, n)
  BY <1>3, <1>4, TokenOf
<1> QED
  BY <1>1, <1>2, <1>5, <1>6

-----------------------------------------------------------------------------
(* The steps of the parser *)

(* A key that takes its value holds what the longer front of the line says. *)
LEMMA AssignHolds ==
  ASSUME NEW p, KeysHold(p), NEW q, TakesTo(kid, typed, p, q, KeyAt),
         key0 = KeysOf(kid)[KeyAt], RightTo(kid, typed, q),
         Assign(typed[q]), left' = SubSeq(typed, q + 1, Len(typed)), UNCHANGED <<kid, typed>>
  PROVE  KeysHold(q)'
<1> DEFINE keys == KeysOf(kid)
           at == KeyAt
           V(k) == ValuesTo(kid, typed, k, p)
           W(k) == ValuesTo(kid, typed, k, q)
<1>1. typed \in Seq(TokensOf(typed)) /\ Len(typed) \in Nat /\ p \in Nat /\ q \in Nat
  BY DEF KeysHold, TakesTo
<1>2. /\ V(at) \in SUBSET Nat /\ \A i \in V(at) : i < q
      /\ W(at) = V(at) \cup {q}
      /\ \A k \in DOMAIN keys \ {at} : W(k) = V(k)
  BY OneMoreValue
<1>3. /\ NumberAt(kid, typed, at, W(at)) =
           IF NumOf(keys[at], typed[q]) = NotNumber THEN NumberAt(kid, typed, at, V(at))
           ELSE NumOf(keys[at], typed[q])
      /\ TextAt(typed, W(at)) = typed[q].text
  BY ValueTaken
<1>4. W(at) # {}
  BY <1>2
<1>5. /\ num = [k \in DOMAIN keys |-> NumberAt(kid, typed, k, V(k))]
      /\ str_val = [k \in DOMAIN keys |-> TextAt(typed, V(k))]
      /\ req = [k \in DOMAIN keys |-> IF V(k) = {} THEN keys[k].req ELSE FALSE]
  BY DEF KeysHold
<1>6. /\ num' = [num EXCEPT ![at] = IF NumOf(keys[at], typed[q]) = NotNumber THEN num[at]
                                     ELSE NumOf(keys[at], typed[q])]
      /\ str_val' = [str_val EXCEPT ![at] = typed[q].text]
      /\ req' = [req EXCEPT ![at] = FALSE]
  BY DEF Assign
<1> HIDE DEF V, W, at, keys
<1>7. num' = [k \in DOMAIN keys |-> NumberAt(kid, typed, k, W(k))]
  BY <1>2, <1>3, <1>5, <1>6
<1>8. str_val' = [k \in DOMAIN keys |-> TextAt(typed, W(k))]
  BY <1>2, <1>3, <1>5, <1>6
<1>9. req' = [k \in DOMAIN keys |-> IF W(k) = {} THEN keys[k].req ELSE FALSE]
  BY <1>2, <1>4, <1>5, <1>6
<1>10. q % 2 = 0 \/ (q = Len(typed) /\ OneKey(keys))
  BY DEF keys, TakesTo
<1> QED
  BY <1>1, <1>7, <1>8, <1>9, <1>10 DEF KeysHold, keys, W

(* A key and its value. *)
LEMMA KeyAndValueKeeps == KeyInv /\ KeyAndValue => KeyInv'
<1> SUFFICES ASSUME KeyInv, KeyAndValue, behind' = "plain"
             PROVE  KeyInv'
  BY DEF KeyInv, KeysMatchLine, KeyAndValue
<1>1. behind = "plain" /\ kpc = "keys" /\ kpc' = "keys" /\ First.out # "behind"
  BY DEF KeyAndValue
<1>2. PICK p \in 0 .. Len(typed) : KeysHold(p)
  BY <1>1 DEF KeyInv
<1>3. First.out = "token" /\ IsKey
  BY <1>1 DEF KeyAndValue, HasFirst
<1> DEFINE keys == KeysOf(kid)
           n == Len(typed)
           q == p + 2
<1>4. /\ p < n /\ KeyAt \in DOMAIN keys /\ key0 = keys[KeyAt]
      /\ OneKey(keys) \/ typed[p + 1].w = KeyAt
      /\ OneKey(keys) => ~(keys[KeyAt].can_str /\ typed[p + 1].t = "open")
      /\ n \in Nat /\ p % 2 = 0
  BY <1>1, <1>2, <1>3, Finds, FindsValue
<1>5. /\ p + 1 < n /\ ~(keys[KeyAt].can_str /\ typed[p + 2].t = "open")
      /\ Second.tkn = typed[p + 2] /\ Second.rest = SubSeq(typed, p + 3, n)
  <2> DEFINE rest == SubSeq(typed, p + 3, n)
             text == keys[KeyAt].can_str /\ typed[p + 2].t = "open"
  <2>1. /\ p + 1 = n => Second.out = "none"
        /\ p + 1 < n /\ text => Second.out = "error"
        /\ p + 1 < n /\ ~text => Second.tkn = typed[p + 2] /\ Second.rest = rest
    BY <1>1, <1>2, <1>3, FindsValue
  <2> HIDE DEF rest, text
  <2>2. Second.out # "none" /\ Second.out # "error"
    BY DEF KeyAndValue, HasSecond
  <2>3. p + 1 < n /\ ~text
    BY <1>4, <2>1, <2>2
  <2> QED
    BY <2>1, <2>3 DEF rest, text
<1>6. q \in 1 .. n /\ p \in Nat /\ q + 1 = p + 3 /\ q = p + 2
  BY <1>4, <1>5
<1>7. ~Wrong(keys[KeyAt], typed[q])
  BY <1>4, <1>5 DEF KeyAndValue
<1>8. TakesTo(kid, typed, p, q, KeyAt)
  BY <1>4, <1>6 DEF TakesTo
<1>9. RightTo(kid, typed, q)
  <2>1. RightTo(kid, typed, p)
    BY <1>2 DEF KeysHold
  <2> QED
    BY <1>4, <1>5, <1>7, <1>8, <2>1, RightOn
<1>10. left' = SubSeq(typed, q + 1, n) /\ Assign(typed[q]) /\ UNCHANGED <<kid, typed>>
  BY <1>5, <1>6 DEF KeyAndValue
<1>11. KeysHold(q)'
  BY <1>2, <1>4, <1>8, <1>9, <1>10, AssignHolds
<1> QED
  BY <1>1, <1>6, <1>10, <1>11 DEF KeyInv, KeysMatchLine

(* The last token as the value of the only key. *)
LEMMA ValueAloneKeeps == KeyInv /\ ValueAlone => KeyInv'
<1> SUFFICES ASSUME KeyInv, ValueAlone, behind' = "plain"
             PROVE  KeyInv'
  BY DEF KeyInv, KeysMatchLine, ValueAlone
<1>1. behind = "plain" /\ kpc = "keys" /\ kpc' = "keys"
  BY DEF ValueAlone
<1>2. PICK p \in 0 .. Len(typed) : KeysHold(p)
  BY <1>1 DEF KeyInv
<1> DEFINE keys == KeysOf(kid)
           n == Len(typed)
           q == p + 1
<1>3. First.out = "token" /\ IsKey /\ OneKey(keys)
  <2>1. OneKey(keys) /\ n \in Nat
    BY <1>1, <1>2, Finds DEF ValueAlone
  <2>2. First.out = "none" \/ First.out = "error" \/ First.out = "token"
    BY <1>1, <1>2, Finds
  <2> QED
    BY <2>1, <2>2 DEF ValueAlone, HasFirst, IsKey
<1>4. /\ p < n /\ KeyAt \in DOMAIN keys /\ key0 = keys[KeyAt]
      /\ ~(keys[KeyAt].can_str /\ typed[p + 1].t = "open")
      /\ n \in Nat /\ p % 2 = 0 /\ First.tkn = typed[p + 1]
  <2>1. /\ p < n /\ KeyAt \in DOMAIN keys /\ key0 = keys[KeyAt]
        /\ ~(keys[KeyAt].can_str /\ typed[p + 1].t = "open")
    BY <1>1, <1>2, <1>3, FindsValue
  <2>2. /\ n \in Nat /\ p % 2 = 0
        /\ First.out = "token" => First.tkn = typed[p + 1]
    BY <1>1, <1>2, <2>1, Finds
  <2> QED
    BY <1>3, <2>1, <2>2
<1>5. p + 1 = n
  <2>1. p + 1 < n => Second.out = "error" \/ Second.out = "token"
    BY <1>1, <1>2, <1>3, FindsValue
  <2> QED
    BY <1>4, <2>1 DEF ValueAlone
<1>6. TakesTo(kid, typed, p, q, KeyAt)
  BY <1>3, <1>4, <1>5 DEF TakesTo
<1>7. RightTo(kid, typed, q)
  <2>1. RightTo(kid, typed, p)
    BY <1>2 DEF KeysHold
  <2>2. ~Wrong(keys[KeyAt], typed[q])
    BY <1>4 DEF ValueAlone
  <2> QED
    BY <1>4, <1>6, <2>1, <2>2, RightOn
<1>8. left' = SubSeq(typed, q + 1, n) /\ Assign(typed[q]) /\ UNCHANGED <<kid, typed>>
  <2>1. q = n /\ q \in 0 .. n /\ typed \in Seq(TokensOf(typed))
    BY <1>2, <1>4, <1>5 DEF KeysHold
  <2>2. SubSeq(typed, q + 1, n) = << >>
    <3> HIDE DEF q
    <3> QED
      BY <2>1, RestOf
  <2> QED
    BY <1>4, <2>2 DEF ValueAlone
<1>9. KeysHold(q)'
  BY <1>2, <1>4, <1>6, <1>7, <1>8, AssignHolds
<1>10. q \in 0 .. Len(typed)' /\ behind' = "plain"
  BY <1>4, <1>5, <1>8
<1> QED
  BY <1>1, <1>9, <1>10 DEF KeyInv, KeysMatchLine

(* Lines that are refused are wrong. *)
LEMMA ParseErrorKeeps == KeyInv /\ ParseError => KeyInv'
<1> SUFFICES ASSUME KeyInv, ParseError, behind' = "plain"
             PROVE  ~LineIsRight(kid, typed)
  BY DEF KeyInv, KeysMatchLine, ParseError, Null
<1>1. behind = "plain" /\ kpc = "keys"
  BY DEF ParseError, Null
<1>2. PICK p \in 0 .. Len(typed) : KeysHold(p)
  BY <1>1 DEF KeyInv
<1> DEFINE keys == KeysOf(kid)
           n == Len(typed)
           text == OneKey(keys) /\ keys[TheKey].can_str /\ typed[p + 1].t = "open"
<1>3. /\ n \in Nat /\ DOMAIN req = DOMAIN keys /\ (singleKey <=> OneKey(keys))
      /\ OneKey(keys) => DOMAIN keys = {TheKey}
      /\ p = n => First.out = "none"
      /\ p < n /\ text => First.out = "error"
      /\ p < n /\ ~text => First.out = "token" /\ First.tkn = typed[p + 1]
      /\ p < n => p % 2 = 0
  BY <1>1, <1>2, Finds
<1>4. CASE First.out = "error"
  <2>1. p < n /\ text
    <3> HIDE DEF text
    <3> QED
      BY <1>3, <1>4
  <2>2. p + 1 \in 1 .. n /\ TheKey \in DOMAIN keys
    BY <1>3, <2>1
  <2>3. OpenQuote(kid, typed)
    BY <2>1, <2>2 DEF OpenQuote
  <2> QED
    BY <2>3 DEF LineIsRight
<1>5. CASE HasFirst /\ ~IsKey
  <2>1. p < n /\ First.tkn = typed[p + 1]
    <3> HIDE DEF text
    <3> QED
      BY <1>3, <1>5 DEF HasFirst
  <2>2. p + 1 \in 1 .. n /\ (p + 1) % 2 = 1 /\ ~OneKey(keys) /\ typed[p + 1].w \notin DOMAIN keys
    BY <1>3, <1>5, <2>1 DEF IsKey
  <2> QED
    BY <2>2 DEF LineIsRight
<1>6. CASE HasFirst /\ IsKey /\ First.out # "error"
  <2> DEFINE more == keys[KeyAt].can_str /\ typed[p + 2].t = "open"
  <2>1. First.out = "token" /\ First.tkn = typed[p + 1]
    <3> HIDE DEF text
    <3> QED
      BY <1>3, <1>6 DEF HasFirst
  <2>2. /\ p < n /\ KeyAt \in DOMAIN keys /\ key0 = keys[KeyAt]
        /\ OneKey(keys) \/ typed[p + 1].w = KeyAt
        /\ p + 1 = n => Second.out = "none"
        /\ p + 1 < n /\ more => Second.out = "error"
        /\ p + 1 < n /\ ~more => Second.out = "token" /\ Second.tkn = typed[p + 2]
    BY <1>1, <1>2, <1>6, <2>1, FindsValue
  <2>3. \A i \in 1 .. n : i % 2 = 0 /\ i = p + 2 => i \in ValuesOf(kid, typed, KeyAt)
    BY <1>3, <2>2 DEF ValuesOf
  <2>4. CASE Second.out = "error"
    <3>1. p + 1 < n /\ more
      <4> HIDE DEF more
      <4> QED
        BY <1>3, <2>2, <2>4
    <3>2. p + 2 \in 1 .. n /\ (p + 2) % 2 = 0
      BY <1>3, <2>2, <3>1
    <3>3. OpenQuote(kid, typed)
      BY <2>2, <2>3, <3>1, <3>2 DEF OpenQuote
    <3> QED
      BY <3>3 DEF LineIsRight
  <2>5. CASE HasSecond /\ Wrong(key0, Second.tkn)
    <3>1. p + 1 < n /\ Second.tkn = typed[p + 2]
      <4> HIDE DEF more
      <4> QED
        BY <1>3, <2>2, <2>5 DEF HasSecond
    <3>2. p + 2 \in 1 .. n /\ (p + 2) % 2 = 0
      BY <1>3, <2>2, <3>1
    <3>3. p + 2 \in ValuesOf(kid, typed, KeyAt)
      BY <2>3, <3>2
    <3> QED
      BY <2>2, <2>5, <3>1, <3>3 DEF LineIsRight
  <2>6. CASE Second.out = "none" /\ singleKey /\ Wrong(key0, First.tkn)
    <3>1. p + 1 = n
      <4> HIDE DEF more
      <4> QED
        BY <1>3, <2>2, <2>6
    <3>2. p + 1 \in ValuesOf(kid, typed, KeyAt)
      BY <1>3, <2>2, <2>6, <3>1 DEF ValuesOf
    <3> QED
      BY <2>1, <2>2, <2>6, <3>2 DEF LineIsRight
  <2> QED
    BY <1>6, <2>4, <2>5, <2>6 DEF ParseError
<1> QED
  BY <1>4, <1>5, <1>6 DEF ParseError

(* At the end of the line all its values are taken. *)
LEMMA AllTaken ==
  ASSUME NEW p \in 0 .. Len(typed), KeysHold(p), behind = "plain", NoMoreTokens
  PROVE  /\ Len(typed) \in Nat
         /\ \A k \in DOMAIN KeysOf(kid) : ValuesTo(kid, typed, k, p) = ValuesOf(kid, typed, k)
         /\ RightTo(kid, typed, Len(typed))
<1> DEFINE keys == KeysOf(kid)
           n == Len(typed)
           text == OneKey(keys) /\ keys[TheKey].can_str /\ typed[p + 1].t = "open"
<1>1. /\ n \in Nat /\ DOMAIN req = DOMAIN keys /\ (singleKey <=> OneKey(keys))
      /\ p = n => First.out = "none"
      /\ p < n /\ text => First.out = "error"
      /\ p < n /\ ~text => First.out = "token" /\ First.tkn = typed[p + 1]
      /\ p < n => p % 2 = 0
  BY Finds
<1>2. RightTo(kid, typed, p)
  BY DEF KeysHold
<1>3. CASE p = n
  BY <1>1, <1>2, <1>3 DEF ValuesTo, ValuesOf
<1>4. CASE p < n
  <2>1. /\ First.out = "token" /\ First.tkn = typed[p + 1] /\ IsKey /\ ~OneKey(keys)
        /\ Second.out = "none"
    <3> HIDE DEF text
    <3> QED
      BY <1>1, <1>4 DEF NoMoreTokens, HasFirst
  <2>2. p + 1 = n
    <3>1. p + 1 < n => Second.out = "error" \/ Second.out = "token"
      BY <2>1, FindsValue
    <3> QED
      BY <1>1, <1>4, <2>1, <3>1
  <2>3. typed[n].w \in DOMAIN keys /\ p % 2 = 0
    BY <1>1, <1>4, <2>1, <2>2 DEF IsKey
  <2>4. \A k \in DOMAIN keys : n \notin ValuesOf(kid, typed, k)
    BY <1>1, <2>1, <2>2, <2>3 DEF ValuesOf
  <2>5. \A k : ValuesOf(kid, typed, k) \subseteq 1 .. n
    BY DEF ValuesOf
  <2>6. \A k \in DOMAIN keys : /\ ValuesTo(kid, typed, k, p) = ValuesOf(kid, typed, k)
                               /\ ValuesTo(kid, typed, k, n) = ValuesOf(kid, typed, k)
    BY <1>1, <2>2, <2>4, <2>5 DEF ValuesTo
  <2>7. \A i \in 1 .. n : i \in 1 .. p \/ i = n
    BY <1>1, <2>2
  <2>8. ~MayBeText(kid, typed, n)
    BY <2>1, <2>4 DEF MayBeText
  <2>9. RightTo(kid, typed, n)
    BY <1>2, <2>3, <2>6, <2>7, <2>8 DEF RightTo
  <2> QED
    BY <1>1, <2>6, <2>9
<1> QED
  BY <1>1, <1>3, <1>4

(* At the end of the line it is taken exactly if no required key is missing. *)
LEMMA NoMoreTokensKeeps == KeyInv /\ NoMoreTokens => KeyInv'
<1> SUFFICES ASSUME KeyInv, NoMoreTokens, behind' = "plain"
             PROVE  KeysMatchLine'
  BY DEF KeyInv, KeysMatchLine, NoMoreTokens, Null
<1>1. /\ behind = "plain" /\ kpc = "keys" /\ kpc' = "done"
      /\ UNCHANGED <<kid, num, str_val, req, typed>>
      /\ ok' = ~\E k \in DOMAIN req : req[k]
  BY DEF NoMoreTokens, Null
<1>2. PICK p \in 0 .. Len(typed) : KeysHold(p)
  BY <1>1 DEF KeyInv
<1> DEFINE keys == KeysOf(kid)
<1>3. /\ Len(typed) \in Nat /\ RightTo(kid, typed, Len(typed))
      /\ \A k \in DOMAIN keys : ValuesTo(kid, typed, k, p) = ValuesOf(kid, typed, k)
  BY <1>1, <1>2, AllTaken
<1>4. /\ num = [k \in DOMAIN keys |-> NumberAt(kid, typed, k, ValuesTo(kid, typed, k, p))]
      /\ str_val = [k \in DOMAIN keys |-> TextAt(typed, ValuesTo(kid, typed, k, p))]
      /\ req = [k \in DOMAIN keys |->
                  IF ValuesTo(kid, typed, k, p) = {} THEN keys[k].req ELSE FALSE]
  BY <1>2 DEF KeysHold
<1>5. ok' <=> \A k \in DOMAIN keys : keys[k].req => ValuesOf(kid, typed, k) # {}
  BY <1>1, <1>3, <1>4
<1>6. ok' <=> LineIsRight(kid, typed)
  BY <1>3, <1>5, RightLine
<1>7. \A k \in DOMAIN num : /\ num[k] = LineNumber(kid, typed, k)
                            /\ str_val[k] = LineText(kid, typed, k)
  <2> SUFFICES ASSUME NEW k \in DOMAIN keys
               PROVE  /\ NumberAt(kid, typed, k, ValuesOf(kid, typed, k)) = LineNumber(kid, typed, k)
                      /\ TextAt(typed, ValuesOf(kid, typed, k)) = LineText(kid, typed, k)
    BY <1>3, <1>4
  <2> QED
    BY DEF NumberAt, TextAt, LineNumber, LineText
<1> QED
  BY <1>1, <1>6, <1>7 DEF KeysMatchLine

(* A new line, of which nothing is taken yet. *)
LEMMA CallDataHolds ==
  ASSUME NEW id, NEW line, line \in Seq(TokensOf(line)), NEW b, CallData(id, line, b)
  PROVE  KeyInv'
<1> DEFINE keys == KeysOf(id)
<1>1. CASE id \notin KeyIds
  BY <1>1 DEF CallData, KeyInv, KeysMatchLine
<1>2. CASE id \in KeyIds
  <2>1. \A k : ValuesTo(id, line, k, 0) = {}
    BY DEF ValuesTo, ValuesOf
  <2>2. /\ kpc' = "keys" /\ kid' = id /\ typed' = line /\ left' = line
        /\ num' = [k \in DOMAIN keys |-> keys[k].def]
        /\ str_val' = [k \in DOMAIN keys |-> << >>]
        /\ req' = [k \in DOMAIN keys |-> keys[k].req]
    BY <1>2 DEF CallData
  <2>3. RightTo(id, line, 0)
    BY <2>1 DEF RightTo
  <2>4. SubSeq(line, 1, Len(line)) = line
    OBVIOUS
  <2>5. \A k : NumberAt(id, line, k, {}) = keys[k].def /\ TextAt(line, {}) = << >>
    BY DEF NumberAt, TextAt
  <2> HIDE DEF keys
  <2>6. KeysHold(0)'
    <3>1. num' = [k \in DOMAIN keys |-> NumberAt(id, line, k, ValuesTo(id, line, k, 0))]
      BY <2>1, <2>2, <2>5
    <3>2. str_val' = [k \in DOMAIN keys |-> TextAt(line, ValuesTo(id, line, k, 0))]
      BY <2>1, <2>2, <2>5
    <3>3. req' = [k \in DOMAIN keys |->
                    IF ValuesTo(id, line, k, 0) = {} THEN keys[k].req ELSE FALSE]
      BY <2>1, <2>2
    <3>4. left' = SubSeq(line, 0 + 1, Len(line)) /\ 0 % 2 = 0
      BY <2>2, <2>4
    <3> QED
      BY <2>2, <2>3, <3>1, <3>2, <3>3, <3>4 DEF KeysHold, keys
  <2>7. 0 \in 0 .. Len(typed)'
    BY <2>2
  <2> QED
    BY <2>2, <2>6, <2>7 DEF KeyInv, KeysMatchLine
<1> QED
  BY <1>1, <1>2

(* All steps of the parser. *)
LEMMA KeyNextKeeps == KeyInv /\ KeyNext => KeyInv'
<1> SUFFICES ASSUME KeyInv, KeyNext
             PROVE  KeyInv'
  OBVIOUS
<1>1. CASE \E l \in TypedLines, b \in Behind : CallData(l.id, l.tokens, b)
  <2>1. PICK l \in TypedLines, b \in Behind : CallData(l.id, l.tokens, b)
    BY <1>1
  <2>2. l.tokens \in Seq(TokensOf(l.tokens))
    BY LinesAssumption DEF TokensOf
  <2> QED
    BY <2>1, <2>2, CallDataHolds
<1> QED
  BY <1>1, ParseErrorKeeps, KeyAndValueKeeps, ValueAloneKeeps, NoMoreTokensKeeps DEF KeyNext

(***************************************************************************)
(* Whatever users type after the ids that have keys, parseKeysFunc() takes *)
(* exactly the lines whose keys and values are right, and each key has the *)
(* last value of the line, or its default.                                 *)
(***************************************************************************)
THEOREM LinesAreUnderstood == SetShowSpec => []KeysMatchLine
<1>1. SetShowInit => KeyInv
  BY DEF SetShowInit, KeyInit, KeyInv, KeysMatchLine
<1>2. KeyInv /\ [SetShowNext]_setVars => KeyInv'
  <2> SUFFICES ASSUME KeyInv, [SetShowNext]_setVars
               PROVE  KeyInv'
    OBVIOUS
  <2>1. CASE UNCHANGED keyVars
    BY <2>1 DEF keyVars, KeyInv, KeysHold, KeysMatchLine
  <2>2. CASE ReadLine
    BY <2>2, KeyNextKeeps DEF ReadLine
  <2>3. CASE NextOne
    BY <2>3 DEF NextOne, KeyInv, KeysMatchLine
  <2> QED
    BY <2>1, <2>2, <2>3 DEF SetShowNext, SendTyped, CodecStep, WriteJson, setVars
<1> QED
  BY <1>1, <1>2, PTL DEF SetShowSpec, KeyInv

-----------------------------------------------------------------------------
(* What a key holds *)

(* Numbers of one octet. *)
Small == {Int64(v) : v \in 0 .. 255}

(* They are numbers of eight octets, the first of which is the number. *)
LEMMA SmallNumbers ==
  ASSUME NEW v \in 0 .. 255
  PROVE  IsInt64(Int64(v)) /\ Int64(v)[1] = v
<1>1. v % 256 = v /\ v \div 256 = 0 /\ v \div 65536 = 0 /\ v \div 16777216 = 0 /\ 0 % 256 = 0
  OBVIOUS
<1>2. Int64(v) = <<v, 0, 0, 0, 0, 0, 0, 0>>
  BY <1>1 DEF Int64
<1>3. <<v, 0, 0, 0, 0, 0, 0, 0>> \in Seq(0 .. 255)
  OBVIOUS
<1> QED BY <1>2, <1>3 DEF IsInt64

(* A key whose default is such a number. *)
IsKeyRec(key) == "def" \in DOMAIN key /\ key.def \in Small

(* The ways in which keys are set up. *)
LEMMA KeyRules ==
  /\ \A v \in 0 .. 255 : \A max : IsKeyRec(KeyWith(Int64(v), max))
  /\ \A max : IsKeyRec(NumKey(max))
  /\ IsKeyRec(FlagKey) /\ IsKeyRec(TextKey)
  /\ \A h : IsKeyRec(HandleKey(h))
  /\ \A key : IsKeyRec(key) =>
       IsKeyRec(Req(key)) /\ IsKeyRec(Hex(key)) /\ \A x : IsKeyRec([key EXCEPT !.min = x])
<1>1. \A v \in 0 .. 255 : \A max : IsKeyRec(KeyWith(Int64(v), max))
  BY DEF IsKeyRec, KeyWith, Small
<1>2. \A max : IsKeyRec(NumKey(max))
  BY <1>1 DEF NumKey
<1>3. ASSUME NEW key, IsKeyRec(key)
      PROVE  /\ IsKeyRec([key EXCEPT !.req = TRUE]) /\ IsKeyRec([key EXCEPT !.base = 16])
             /\ IsKeyRec([key EXCEPT !.flag = TRUE]) /\ IsKeyRec([key EXCEPT !.can_str = TRUE])
             /\ \A x : IsKeyRec([key EXCEPT !.min = x]) /\ IsKeyRec([key EXCEPT !.handle = x])
  BY <1>3 DEF IsKeyRec
<1> QED BY <1>1, <1>2, <1>3 DEF FlagKey, TextKey, HandleKey, Req, Hex

(* All keys of an id. *)
AreKeys(keys) == DOMAIN keys # {} /\ \A k \in DOMAIN keys : IsKeyRec(keys[k])

(* Every key of the build functions is one. *)
LEMMA AllKeys == \A id \in KeyIds : AreKeys(KeysOf(id))
<1>1. \A id \in DOMAIN ClockKeys : AreKeys(ClockKeys[id])
  <2> DEFINE T == ClockKeys
  <2>1. /\ AreKeys(T.USER_DESCRIPTION)
        /\ AreKeys(T.INITIALIZE)
        /\ AreKeys(T.PRIORITY1)
        /\ AreKeys(T.PRIORITY2)
        /\ AreKeys(T.DOMAIN_)
        /\ AreKeys(T.SLAVE_ONLY)
    BY KeyRules DEF ClockKeys, AreKeys
  <2>2. /\ AreKeys(T.LOG_ANNOUNCE_INTERVAL)
        /\ AreKeys(T.ANNOUNCE_RECEIPT_TIMEOUT)
        /\ AreKeys(T.LOG_SYNC_INTERVAL)
        /\ AreKeys(T.VERSION_NUMBER)
        /\ AreKeys(T.TIME)
        /\ AreKeys(T.CLOCK_ACCURACY)
    BY KeyRules DEF ClockKeys, AreKeys
  <2>3. /\ AreKeys(T.UTC_PROPERTIES)
        /\ AreKeys(T.TRACEABILITY_PROPERTIES)
        /\ AreKeys(T.TIMESCALE_PROPERTIES)
        /\ AreKeys(T.UNICAST_NEGOTIATION_ENABLE)
        /\ AreKeys(T.PATH_TRACE_ENABLE)
    BY KeyRules DEF ClockKeys, AreKeys
  <2>4. DOMAIN T = {"USER_DESCRIPTION", "INITIALIZE", "PRIORITY1", "PRIORITY2", "DOMAIN_",
                    "SLAVE_ONLY", "LOG_ANNOUNCE_INTERVAL", "ANNOUNCE_RECEIPT_TIMEOUT",
                    "LOG_SYNC_INTERVAL", "VERSION_NUMBER", "TIME", "CLOCK_ACCURACY",
                    "UTC_PROPERTIES", "TRACEABILITY_PROPERTIES", "TIMESCALE_PROPERTIES",
                    "UNICAST_NEGOTIATION_ENABLE", "PATH_TRACE_ENABLE"}
    BY DEF ClockKeys
  <2> HIDE DEF T
  <2>5. \A id \in DOMAIN T : AreKeys(T[id])
    BY <2>1, <2>2, <2>3, <2>4
  <2> QED BY <2>5 DEF T
<1>2. \A id \in DOMAIN PortKeys : AreKeys(PortKeys[id])
  <2> DEFINE T == PortKeys
  <2>1. /\ AreKeys(T.ACCEPTABLE_MASTER_TABLE_ENABLED)
        /\ AreKeys(T.ALTERNATE_MASTER)
        /\ AreKeys(T.ALTERNATE_TIME_OFFSET_ENABLE)
        /\ AreKeys(T.ALTERNATE_TIME_OFFSET_NAME)
        /\ AreKeys(T.ALTERNATE_TIME_OFFSET_PROPERTIES)
        /\ AreKeys(T.LOG_MIN_PDELAY_REQ_INTERVAL)
    BY KeyRules DEF PortKeys, AreKeys
  <2>2. /\ AreKeys(T.PRIMARY_DOMAIN)
        /\ AreKeys(T.DELAY_MECHANISM)
        /\ AreKeys(T.EXTERNAL_PORT_CONFIGURATION_ENABLED)
        /\ AreKeys(T.MASTER_ONLY)
        /\ AreKeys(T.HOLDOVER_UPGRADE_ENABLE)
        /\ AreKeys(T.EXT_PORT_CONFIG_PORT_DATA_SET)
    BY KeyRules DEF PortKeys, AreKeys
  <2>3. DOMAIN T = {"ACCEPTABLE_MASTER_TABLE_ENABLED", "ALTERNATE_MASTER",
                    "ALTERNATE_TIME_OFFSET_ENABLE", "ALTERNATE_TIME_OFFSET_NAME",
                    "ALTERNATE_TIME_OFFSET_PROPERTIES", "LOG_MIN_PDELAY_REQ_INTERVAL",
                    "PRIMARY_DOMAIN", "DELAY_MECHANISM",
                    "EXTERNAL_PORT_CONFIGURATION_ENABLED", "MASTER_ONLY",
                    "HOLDOVER_UPGRADE_ENABLE", "EXT_PORT_CONFIG_PORT_DATA_SET"}
    BY DEF PortKeys
  <2> HIDE DEF T
  <2>4. \A id \in DOMAIN T : AreKeys(T[id])
    BY <2>1, <2>2, <2>3
  <2> QED BY <2>4 DEF T
<1>3. \A id \in DOMAIN LinuxptpKeys : AreKeys(LinuxptpKeys[id])
  BY KeyRules DEF LinuxptpKeys, AreKeys
<1> QED BY <1>1, <1>2, <1>3 DEF KeyIds, KeysOf

(* What a key takes from a token is a number or none. *)
LEMMA NumOfType ==
  ASSUME NEW key, NEW tkn, IsToken(tkn)
  PROVE  NumOf(key, tkn) = NotNumber \/ IsInt64(NumOf(key, tkn))
<1>1. \A v \in 0 .. 255 : IsInt64(Int64(v))
  BY SmallNumbers
<1>2. \A w \in DOMAIN PortStates : PortStates[w] \in 0 .. 255
  BY DEF PortStates
<1>3. \A w \in DOMAIN TimeSources : TimeSources[w] \in 0 .. 255
  BY DEF TimeSources
<1>4. \A h : ByHandle(h, tkn) = NotNumber \/ IsInt64(ByHandle(h, tkn))
  BY <1>1, <1>2, <1>3 DEF ByHandle, ByName, IsToken
<1>5. ByNumber(key, tkn) = NotNumber \/ IsInt64(ByNumber(key, tkn))
  BY DEF ByNumber, Reading, IsToken
<1>6. ByFlag(key, tkn) = NotNumber \/ IsInt64(ByFlag(key, tkn))
  <2>1. IsInt64(Int64(0)) /\ IsInt64(Int64(1))
    BY <1>1
  <2> QED BY <2>1 DEF ByFlag, Reading, IsToken
<1> QED BY <1>4, <1>5, <1>6 DEF NumOf

(* A number up to 15 has one digit of four bits. *)
LEMMA UpToFifteen ==
  ASSUME NEW n, IsInt64(n), NEW min, InRange(n, min, Int64(15))
  PROVE  n[1] \in 0 .. 15
<1>1. \A i \in 1 .. 8 : n[i] \in 0 .. 255
  BY ElementOfSeq DEF IsInt64
<1>2. Int64(15) = <<15, 0, 0, 0, 0, 0, 0, 0>>
  <2>1. 15 % 256 = 15 /\ 15 \div 256 = 0 /\ 15 \div 65536 = 0 /\ 15 \div 16777216 = 0 /\ 0 % 256 = 0
    OBVIOUS
  <2> QED BY <2>1 DEF Int64
<1>3. n[8] < 128 /\ Leq(n, Int64(15))
  BY DEF InRange
<1>4. CASE n = Int64(15)
  BY <1>2, <1>4
<1>5. CASE \E i \in 1 .. 8 : n[i] < Int64(15)[i]
  <2>1. PICK i \in 1 .. 8 : n[i] < Int64(15)[i]
    BY <1>5
  <2>2. n[i] \in 0 .. 255
    BY <1>1, <2>1
  <2>3. CASE i = 1
    <3>1. n[1] < 15
      BY ONLY <1>2, <2>1, <2>3
    <3> QED BY ONLY <2>2, <2>3, <3>1
  <2>4. CASE i \in 2 .. 8
    <3>1. <<15, 0, 0, 0, 0, 0, 0, 0>>[i] = 0
      BY <2>4
    <3>2. n[i] < 0
      BY ONLY <1>2, <2>1, <3>1
    <3> QED BY ONLY <2>2, <3>2
  <2> QED BY <2>1, <2>3, <2>4
<1>6. ~(n[8] > 127)
  BY <1>1, <1>3
<1> QED BY <1>3, <1>4, <1>5, <1>6 DEF Leq

(* The two digits of the version. *)
LEMMA VersionDigits ==
  ASSUME NEW k \in DOMAIN KeysOf("VERSION_NUMBER")
  PROVE  LET key == KeysOf("VERSION_NUMBER")[k] IN
         /\ key.def[1] \in 0 .. 15
         /\ \A tkn : IsToken(tkn) /\ NumOf(key, tkn) # NotNumber => NumOf(key, tkn)[1] \in 0 .. 15
<1> DEFINE key == KeysOf("VERSION_NUMBER")[k]
<1>1. /\ "VERSION_NUMBER" \in DOMAIN ClockKeys
      /\ ClockKeys["VERSION_NUMBER"] =
           [versionNumber |-> [KeyWith(Int64(2), Int64(15)) EXCEPT !.min = Int64(1)],
            minor |-> NumKey(Int64(15))]
  BY DEF ClockKeys
<1>2. KeysOf("VERSION_NUMBER") = ClockKeys["VERSION_NUMBER"]
  BY <1>1 DEF KeysOf
<1>3. /\ key.handle = "none" /\ key.flag = FALSE /\ key.max = Int64(15)
      /\ key.def = Int64(2) \/ key.def = Int64(0)
  BY <1>1, <1>2 DEF KeyWith, NumKey
<1>4. Int64(2)[1] = 2 /\ Int64(0)[1] = 0
  BY SmallNumbers
<1>5. key.def[1] \in 0 .. 15
  BY <1>3, <1>4
<1>6. ASSUME NEW tkn, IsToken(tkn), NumOf(key, tkn) # NotNumber
      PROVE  NumOf(key, tkn)[1] \in 0 .. 15
  <2> HIDE DEF key
  <2>1. NumOf(key, tkn) = ByNumber(key, tkn)
    BY <1>3 DEF NumOf
  <2>2. InRange(NumOf(key, tkn), key.min, Int64(15))
    BY <1>3, <1>6, <2>1 DEF ByNumber
  <2>3. IsInt64(NumOf(key, tkn))
    BY <1>6, NumOfType
  <2> QED BY <2>2, <2>3, UpToFifteen
<1> QED BY <1>5, <1>6

-----------------------------------------------------------------------------
(* What the build functions make has the shape of the layout of its id *)

(* The values vs are right for the fields fs of a structure that is sent. *)
Shaped(vs, fs) == IsSeq(fs) /\ Kinds(fs) \subseteq SentKinds /\ HasShape(vs, fs)

(* One field. *)
LEMMA ShapedOne ==
  ASSUME NEW f, NEW v \in Seq(Octet), f.k \in SentKinds,
         f.k \in {"num", "octets", "le", "flags"} => Len(v) = f.n,
         f.k = "high16" => Len(v) = 4
  PROVE  Shaped(<<v>>, <<f>>)
<1>1. IsSeq(<<f>>)
  <2>1. <<f>> \in Seq({f})
    OBVIOUS
  <2> QED BY <2>1 DEF IsSeq
<1>2. Len(<<f>>) = 1 /\ <<f>>[1] = f /\ Len(<<v>>) = 1 /\ <<v>>[1] = v
  OBVIOUS
<1>3. <<v>> \in Seq(Seq(Octet))
  OBVIOUS
<1>4. Kinds(<<f>>) \subseteq SentKinds
  BY <1>2 DEF Kinds
<1>5. HasShape(<<v>>, <<f>>)
  BY <1>2, <1>3 DEF HasShape
<1> QED BY <1>1, <1>4, <1>5 DEF Shaped

(* The fields of a concatenation. *)
LEMMA ShapedBoth ==
  ASSUME NEW vs, NEW fs, NEW ws, NEW gs, Shaped(vs, fs), Shaped(ws, gs)
  PROVE  Shaped(vs \o ws, fs \o gs)
<1>1. /\ IsSeq(fs) /\ IsSeq(gs) /\ Kinds(fs) \subseteq SentKinds /\ Kinds(gs) \subseteq SentKinds
      /\ vs \in Seq(Seq(Octet)) /\ ws \in Seq(Seq(Octet)) /\ Len(vs) = Len(fs) /\ Len(ws) = Len(gs)
  BY DEF Shaped, HasShape
<1>2. IsSeq(vs) /\ IsSeq(ws)
  BY <1>1 DEF IsSeq
<1>3. /\ IsSeq(fs \o gs) /\ Len(fs) \in Nat /\ Len(gs) \in Nat
      /\ Len(fs \o gs) = Len(fs) + Len(gs)
      /\ \A i \in 1 .. Len(fs) : (fs \o gs)[i] = fs[i]
      /\ \A i \in 1 .. Len(gs) : (fs \o gs)[Len(fs) + i] = gs[i]
  BY ONLY <1>1, SeqOfBoth
<1>4. /\ Len(vs \o ws) = Len(vs) + Len(ws)
      /\ \A i \in 1 .. Len(vs) : (vs \o ws)[i] = vs[i]
      /\ \A i \in 1 .. Len(ws) : (vs \o ws)[Len(vs) + i] = ws[i]
  BY ONLY <1>2, SeqOfBoth
<1>5. vs \o ws \in Seq(Seq(Octet))
  BY <1>1
<1> DEFINE hs == fs \o gs
           us == vs \o ws
           Right(v, f) == /\ f.k \in SentKinds
                          /\ f.k \in {"num", "octets", "le", "flags"} => Len(v) = f.n
                          /\ f.k = "high16" => Len(v) = 4
<1>6. \A i \in 1 .. Len(fs) : Right(vs[i], fs[i])
  BY <1>1 DEF Shaped, HasShape, Kinds
<1>7. \A i \in 1 .. Len(gs) : Right(ws[i], gs[i])
  BY <1>1 DEF Shaped, HasShape, Kinds
<1>8. \A i \in 1 .. Len(hs) : Right(us[i], hs[i])
  <2> HIDE DEF Right
  <2> TAKE i \in 1 .. Len(hs)
  <2>1. CASE i \in 1 .. Len(fs)
    <3>1. us[i] = vs[i] /\ hs[i] = fs[i]
      BY <1>1, <1>3, <1>4, <2>1
    <3> QED BY <1>6, <2>1, <3>1
  <2>2. CASE i \notin 1 .. Len(fs)
    <3>1. i - Len(fs) \in 1 .. Len(gs) /\ i = Len(fs) + (i - Len(fs))
      BY <1>3, <2>2
    <3> DEFINE j == i - Len(fs)
    <3>2. us[i] = ws[j] /\ hs[i] = gs[j]
      BY <1>1, <1>3, <1>4, <3>1
    <3> QED BY <1>7, <3>1, <3>2
  <2> QED BY <2>1, <2>2
<1> HIDE DEF hs, us
<1>9. HasShape(us, hs)
  BY <1>1, <1>3, <1>4, <1>5, <1>8 DEF HasShape, us, hs
<1>10. Kinds(hs) \subseteq SentKinds
  BY <1>8 DEF Kinds
<1> QED BY <1>3, <1>9, <1>10 DEF Shaped, us, hs

(* A row of one value more, or of two more. *)
LEMMA ShapedRows ==
  ASSUME NEW a, NEW b, NEW c, NEW e, NEW f, NEW g, NEW fs, NEW gs
  PROVE  /\ Shaped(<<a>>, fs) /\ Shaped(<<b>>, gs) => Shaped(<<a, b>>, fs \o gs)
         /\ Shaped(<<a, b>>, fs) /\ Shaped(<<c>>, gs) => Shaped(<<a, b, c>>, fs \o gs)
         /\ Shaped(<<a, b, c>>, fs) /\ Shaped(<<e>>, gs) => Shaped(<<a, b, c, e>>, fs \o gs)
         /\ Shaped(<<a, b, c>>, fs) /\ Shaped(<<e, f>>, gs) => Shaped(<<a, b, c, e, f>>, fs \o gs)
         /\ Shaped(<<a, b, c, e>>, fs) /\ Shaped(<<f>>, gs) => Shaped(<<a, b, c, e, f>>, fs \o gs)
         /\ Shaped(<<a, b, c, e, f>>, fs) /\ Shaped(<<g>>, gs)
              => Shaped(<<a, b, c, e, f, g>>, fs \o gs)
<1>1. \A vs, ws : Shaped(vs, fs) /\ Shaped(ws, gs) => Shaped(vs \o ws, fs \o gs)
  BY ShapedBoth
<1>2. <<a, b>> = <<a>> \o <<b>>
  <2> DEFINE S == {a, b}
  <2>1. <<a, b>> \in Seq(S) /\ <<a>> \in Seq(S) /\ <<b>> \in Seq(S)
    OBVIOUS
  <2>2. <<a>> \o <<b>> \in Seq(S) /\ Len(<<a>> \o <<b>>) = 2
    BY <2>1
  <2>3. \A i \in 1 .. 2 : <<a, b>>[i] = (<<a>> \o <<b>>)[i]
    BY <2>1
  <2> HIDE DEF S
  <2> QED BY <2>1, <2>2, <2>3, SeqEqual
<1>3. <<a, b, c>> = <<a, b>> \o <<c>>
  OBVIOUS
<1>4. <<a, b, c, e>> = <<a, b, c>> \o <<e>>
  OBVIOUS
<1>5. <<a, b, c, e, f>> = <<a, b, c>> \o <<e, f>>
  OBVIOUS
<1>6. <<a, b, c, e, f>> = <<a, b, c, e>> \o <<f>>
  OBVIOUS
<1>7. <<a, b, c, e, f, g>> = <<a, b, c, e, f>> \o <<g>>
  OBVIOUS
<1> QED BY <1>1, <1>2, <1>3, <1>4, <1>5, <1>6, <1>7, Zenon

(* Octets. *)
Wide(v, n) == v \in Seq(Octet) /\ Len(v) = n

(* One value for each kind of field. *)
LEMMA ShapedFields ==
  /\ \A v, n : Wide(v, n) => Shaped(<<v>>, Num(n)) /\ Shaped(<<v>>, Octets(n))
  /\ \A v, lo, hi : Wide(v, 1) => Shaped(<<v>>, Flags(lo, hi))
  /\ \A v : Wide(v, 1) => Shaped(<<v>>, Flag)
  /\ \A v, w : Wide(v, 4) /\ Wide(w, 4) => Shaped(<<v, w>>, U48)
  /\ \A v : v \in Seq(Octet) => Shaped(<< << >>, v>>, PTPText)
<1>1. \A v, n : Wide(v, n) => Shaped(<<v>>, Num(n)) /\ Shaped(<<v>>, Octets(n))
  BY ShapedOne DEF Wide, Num, Octets, Field, SentKinds, PlainKinds
<1>2. \A v, lo, hi : Wide(v, 1) => Shaped(<<v>>, Flags(lo, hi))
  BY ShapedOne DEF Wide, Flags, SentKinds, PlainKinds
<1>3. \A v : Wide(v, 1) => Shaped(<<v>>, Flag)
  BY <1>2 DEF Flag
<1>4. \A v, w : Wide(v, 4) /\ Wide(w, 4) => Shaped(<<v, w>>, U48)
  <2>1. \A v : Wide(v, 4) => Shaped(<<v>>, Field("high16", 2))
    BY ShapedOne DEF Wide, Field, SentKinds, PlainKinds
  <2> QED BY <1>1, <2>1, ShapedRows DEF U48
<1>5. \A v : v \in Seq(Octet) => Shaped(<< << >>, v>>, PTPText)
  <2>1. \A v : v \in Seq(Octet) => Shaped(<<v>>, Field("body", 0))
    BY ShapedOne DEF Field, SentKinds, PlainKinds
  <2>2. << >> \in Seq(Octet)
    OBVIOUS
  <2>3. \A v : v \in Seq(Octet) => Shaped(<<v>>, Field("len", 1))
    BY ShapedOne DEF Field, SentKinds, PlainKinds
  <2> QED BY <2>1, <2>2, <2>3, ShapedRows DEF PTPText, Var
<1> QED BY <1>1, <1>2, <1>3, <1>4, <1>5

-----------------------------------------------------------------------------
(* The layouts of the ids with keys *)

(* An id that is sent with a structure that has the fields h and no list. *)
HasHead(id, h) == id \in SentIds /\ AllLayouts[id] = Plain(h)

(* The ids of the first table that have keys. *)
LEMMA ClockHeads ==
  /\ HasHead("USER_DESCRIPTION", PTPText)
  /\ HasHead("INITIALIZE", Num(2))
  /\ HasHead("PRIORITY1", Num(1))
  /\ HasHead("PRIORITY2", Num(1))
  /\ HasHead("DOMAIN_", Num(1))
  /\ HasHead("SLAVE_ONLY", Flag)
  /\ HasHead("LOG_ANNOUNCE_INTERVAL", Num(1))
  /\ HasHead("ANNOUNCE_RECEIPT_TIMEOUT", Num(1))
  /\ HasHead("LOG_SYNC_INTERVAL", Num(1))
  /\ HasHead("VERSION_NUMBER", Num(1))
<1> DEFINE In(id, h) == id \in DOMAIN ClockLayouts \ GetOnlyIds /\ ClockLayouts[id] = Plain(h)
<1>1. \A id, h : In(id, h) => HasHead(id, h)
  BY TablesTogether DEF HasHead, SentIds, MngIds
<1>2. /\ In("USER_DESCRIPTION", PTPText)
      /\ In("INITIALIZE", Num(2))
      /\ In("PRIORITY1", Num(1))
      /\ In("PRIORITY2", Num(1))
      /\ In("DOMAIN_", Num(1))
      /\ In("SLAVE_ONLY", Flag)
  BY DEF ClockLayouts, GetOnlyIds
<1>3. /\ In("LOG_ANNOUNCE_INTERVAL", Num(1))
      /\ In("ANNOUNCE_RECEIPT_TIMEOUT", Num(1))
      /\ In("LOG_SYNC_INTERVAL", Num(1))
      /\ In("VERSION_NUMBER", Num(1))
  BY DEF ClockLayouts, GetOnlyIds
<1> HIDE DEF In
<1> QED BY <1>1, <1>2, <1>3

(* Those of the second table. *)
LEMMA TimeHeads ==
  /\ HasHead("TIME", Timestamp)
  /\ HasHead("CLOCK_ACCURACY", Num(1))
  /\ HasHead("UTC_PROPERTIES", Num(2) \o Flags(1, 8))
  /\ HasHead("TRACEABILITY_PROPERTIES", Flags(16, 64))
  /\ HasHead("TIMESCALE_PROPERTIES", Flags(8, 16) \o Num(1))
  /\ HasHead("UNICAST_NEGOTIATION_ENABLE", Flag)
  /\ HasHead("PATH_TRACE_ENABLE", Flag)
  /\ HasHead("ACCEPTABLE_MASTER_TABLE_ENABLED", Flag)
  /\ HasHead("ALTERNATE_MASTER", Flag \o Num(1) \o Num(1))
  /\ HasHead("ALTERNATE_TIME_OFFSET_ENABLE", Num(1) \o Flag)
  /\ HasHead("ALTERNATE_TIME_OFFSET_NAME", Num(1) \o PTPText)
  /\ HasHead("ALTERNATE_TIME_OFFSET_PROPERTIES", Num(1) \o Num(4) \o Num(4) \o U48)
<1> DEFINE In(id, h) == id \in DOMAIN TimeLayouts \ GetOnlyIds /\ TimeLayouts[id] = Plain(h)
<1>1. \A id, h : In(id, h) => HasHead(id, h)
  BY TablesTogether DEF HasHead, SentIds, MngIds
<1>2. /\ In("TIME", Timestamp)
      /\ In("CLOCK_ACCURACY", Num(1))
      /\ In("UTC_PROPERTIES", Num(2) \o Flags(1, 8))
      /\ In("TRACEABILITY_PROPERTIES", Flags(16, 64))
      /\ In("TIMESCALE_PROPERTIES", Flags(8, 16) \o Num(1))
      /\ In("UNICAST_NEGOTIATION_ENABLE", Flag)
  BY DEF TimeLayouts, GetOnlyIds
<1>3. /\ In("PATH_TRACE_ENABLE", Flag)
      /\ In("ACCEPTABLE_MASTER_TABLE_ENABLED", Flag)
      /\ In("ALTERNATE_MASTER", Flag \o Num(1) \o Num(1))
      /\ In("ALTERNATE_TIME_OFFSET_ENABLE", Num(1) \o Flag)
      /\ In("ALTERNATE_TIME_OFFSET_NAME", Num(1) \o PTPText)
      /\ In("ALTERNATE_TIME_OFFSET_PROPERTIES", Num(1) \o Num(4) \o Num(4) \o U48)
  BY DEF TimeLayouts, GetOnlyIds
<1> HIDE DEF In
<1> QED BY <1>1, <1>2, <1>3

(* Those of the third table. *)
LEMMA PortHeads ==
  /\ HasHead("LOG_MIN_PDELAY_REQ_INTERVAL", Num(1))
  /\ HasHead("PRIMARY_DOMAIN", Num(1))
  /\ HasHead("DELAY_MECHANISM", Num(1))
  /\ HasHead("EXTERNAL_PORT_CONFIGURATION_ENABLED", Flag)
  /\ HasHead("MASTER_ONLY", Flag)
  /\ HasHead("HOLDOVER_UPGRADE_ENABLE", Flag)
  /\ HasHead("EXT_PORT_CONFIG_PORT_DATA_SET", Flag \o Num(1))
  /\ HasHead("GRANDMASTER_SETTINGS_NP", ClockQuality \o Num(2) \o Flags(1, 64) \o Num(1))
  /\ HasHead("PORT_DATA_SET_NP", Num(4) \o Num(4))
  /\ HasHead("SUBSCRIBE_EVENTS_NP", Num(2) \o Octets(64))
  /\ HasHead("SYNCHRONIZATION_UNCERTAIN_NP", Num(1))
<1> DEFINE In(id, h) == id \in DOMAIN PortLayouts \ GetOnlyIds /\ PortLayouts[id] = Plain(h)
<1>1. \A id, h : In(id, h) => HasHead(id, h)
  BY TablesTogether DEF HasHead, SentIds, MngIds
<1>2. /\ In("LOG_MIN_PDELAY_REQ_INTERVAL", Num(1))
      /\ In("PRIMARY_DOMAIN", Num(1))
      /\ In("DELAY_MECHANISM", Num(1))
      /\ In("EXTERNAL_PORT_CONFIGURATION_ENABLED", Flag)
      /\ In("MASTER_ONLY", Flag)
      /\ In("HOLDOVER_UPGRADE_ENABLE", Flag)
  BY DEF PortLayouts, GetOnlyIds
<1>3. /\ In("EXT_PORT_CONFIG_PORT_DATA_SET", Flag \o Num(1))
      /\ In("GRANDMASTER_SETTINGS_NP", ClockQuality \o Num(2) \o Flags(1, 64) \o Num(1))
      /\ In("PORT_DATA_SET_NP", Num(4) \o Num(4))
      /\ In("SUBSCRIBE_EVENTS_NP", Num(2) \o Octets(64))
      /\ In("SYNCHRONIZATION_UNCERTAIN_NP", Num(1))
  BY DEF PortLayouts, GetOnlyIds
<1> HIDE DEF In
<1> QED BY <1>1, <1>2, <1>3

(* The keys hold numbers of eight octets and texts. *)
KeysShaped ==
  /\ kid \in KeyIds
  /\ DOMAIN num = DOMAIN KeysOf(kid) /\ DOMAIN str_val = DOMAIN num /\ DOMAIN req = DOMAIN num
  /\ \A k \in DOMAIN num : IsInt64(num[k]) /\ str_val[k] \in Seq(Octet)
  /\ kid = "VERSION_NUMBER" => \A k \in DOMAIN num : num[k][1] \in 0 .. 15

(* The octets of a number that go into a member. *)
LEMMA NumberParts ==
  ASSUME KeysShaped
  PROVE  \A k \in DOMAIN num : /\ Wide(N(k, 1), 1) /\ Wide(N(k, 2), 2) /\ Wide(N(k, 4), 4)
                               /\ Wide(Upper(k), 4) /\ str_val[k] \in Seq(Octet)
<1> TAKE k \in DOMAIN num
<1>1. num[k] \in Seq(Octet) /\ Len(num[k]) = 8 /\ str_val[k] \in Seq(Octet)
  BY DEF KeysShaped, IsInt64, Octet
<1>2. \A i \in 1 .. 8 : num[k][i] \in Octet
  BY <1>1, ElementOfSeq
<1> DEFINE x == num[k]
<1> HIDE DEF x
<1>3. \A a \in 1 .. 8, b \in 1 .. 8 : a <= b => Wide(SubSeq(x, a, b), b - a + 1)
  <2> SUFFICES ASSUME NEW a \in 1 .. 8, NEW b \in 1 .. 8, a <= b
               PROVE  Wide(SubSeq(x, a, b), b - a + 1)
    OBVIOUS
  <2>1. \A i \in a .. b : x[i] \in Octet
    BY <1>2 DEF x
  <2>2. SubSeq(x, a, b) \in Seq(Octet) /\ Len(SubSeq(x, a, b)) = b - a + 1
    BY <2>1, SubSeqProperties
  <2> QED BY <2>2 DEF Wide
<1>4. /\ Wide(SubSeq(x, 1, 1), 1) /\ Wide(SubSeq(x, 1, 2), 2) /\ Wide(SubSeq(x, 1, 4), 4)
      /\ Wide(SubSeq(x, 5, 8), 4)
  <2>1. Wide(SubSeq(x, 1, 1), 1 - 1 + 1) /\ Wide(SubSeq(x, 1, 2), 2 - 1 + 1)
    BY <1>3
  <2>2. Wide(SubSeq(x, 1, 4), 4 - 1 + 1) /\ Wide(SubSeq(x, 5, 8), 8 - 5 + 1)
    BY <1>3
  <2>3. 1 - 1 + 1 = 1 /\ 2 - 1 + 1 = 2 /\ 4 - 1 + 1 = 4 /\ 8 - 5 + 1 = 4
    OBVIOUS
  <2> QED BY <2>1, <2>2, <2>3
<1> QED BY <1>1, <1>4 DEF N, Upper, x

(* One octet, and the octets of the flags. *)
LEMMA FlagOctets ==
  /\ \A x \in Octet : Wide(<<x>>, 1)
  /\ \A k : Bit(k, 1) \in Octet /\ Bit(k, 8) \in Octet
  /\ UtcFlags \in Octet /\ TraceFlags \in Octet
  /\ UtcFlags + Bit("ptpTimescale", 8) + TraceFlags \in Octet
<1>1. \A x \in Octet : Wide(<<x>>, 1)
  BY DEF Wide
<1>2. \A k, b : Bit(k, b) \in {0, b}
  BY DEF Bit
<1>3. UtcFlags \in 0 .. 7
  BY <1>2 DEF UtcFlags
<1>4. TraceFlags \in 0 .. 48
  BY <1>2 DEF TraceFlags
<1>5. \A k : Bit(k, 8) \in 0 .. 8 /\ Bit(k, 1) \in 0 .. 1
  BY <1>2
<1>6. UtcFlags + Bit("ptpTimescale", 8) + TraceFlags \in 0 .. 63
  BY <1>3, <1>4, <1>5
<1> QED BY <1>1, <1>3, <1>4, <1>5, <1>6 DEF Octet

(* Octets and more octets. *)
LEMMA WideBoth ==
  ASSUME NEW u, NEW v, NEW m, NEW n, Wide(u, m), Wide(v, n)
  PROVE  Wide(u \o v, m + n)
  BY DEF Wide

(* The events that a clock is asked to notify, one bit each. *)
LEMMA EventOctets ==
  Wide(<<Bit("NOTIFY_PORT_STATE", 1) + Bit("NOTIFY_TIME_SYNC", 2)>> \o [i \in 1 .. 63 |-> 0], 64)
<1>1. Bit("NOTIFY_PORT_STATE", 1) + Bit("NOTIFY_TIME_SYNC", 2) \in Octet
  BY DEF Bit, Octet
<1>2. Wide(<<Bit("NOTIFY_PORT_STATE", 1) + Bit("NOTIFY_TIME_SYNC", 2)>>, 1)
  BY <1>1, FlagOctets
<1>3. Wide([i \in 1 .. 63 |-> 0], 63)
  <2>1. [i \in 1 .. 63 |-> 0] \in Seq(Octet) /\ Len([i \in 1 .. 63 |-> 0]) = 63
    BY DEF Octet
  <2> QED BY <2>1 DEF Wide
<1>4. 1 + 63 = 64
  OBVIOUS
<1> QED BY <1>2, <1>3, <1>4, WideBoth

(* The only key of an id. *)
LEMMA TheKeyIn == KeysShaped => TheKey \in DOMAIN num
<1> SUFFICES ASSUME KeysShaped PROVE TheKey \in DOMAIN num
  OBVIOUS
<1>1. DOMAIN req = DOMAIN num /\ DOMAIN num # {}
  BY AllKeys DEF KeysShaped, AreKeys
<1> QED BY <1>1 DEF TheKey

(* What the keys of an id make, as its TLV function takes it. *)
Made(vs) == kid \in SentIds /\ AllLayouts[kid].list = "none" /\ AllLayouts[kid].rec = << >>
            /\ Shaped(vs, AllLayouts[kid].head)

(* That is so if the values are right for the fields. *)
LEMMA MadeOf ==
  ASSUME NEW h, HasHead(kid, h), NEW vs, Shaped(vs, h)
  PROVE  Made(vs)
  BY DEF HasHead, Made, Plain

(* One member of one octet: the ids with one key of which nothing else is known. *)
LEMMA OneOctet ==
  ASSUME KeysShaped, HasHead(kid, Num(1)) \/ HasHead(kid, Flag)
  PROVE  Made(<<N(TheKey, 1)>>)
  BY TheKeyIn, NumberParts, ShapedFields, MadeOf

(* The build functions of the first table of keys. *)
LEMMA ClockMade ==
  ASSUME KeysShaped, kid \in DOMAIN ClockKeys, NEW g \in Octet
  PROVE  Made(ClockMembers(g))
<1> USE NumberParts, FlagOctets, ShapedFields
<1>0. KeysOf(kid) = ClockKeys[kid] /\ DOMAIN num = DOMAIN ClockKeys[kid]
  BY DEF KeysOf, KeysShaped
<1>1. CASE kid = "USER_DESCRIPTION"
  <2>1. "userDescription" \in DOMAIN num
    BY <1>0, <1>1 DEF ClockKeys
  <2>2. ClockMembers(g) = Text("userDescription")
    BY <1>1 DEF ClockMembers
  <2>3. Shaped(Text("userDescription"), PTPText)
    BY <2>1 DEF Text
  <2> QED BY <1>1, <2>2, <2>3, ClockHeads, MadeOf
<1>2. CASE kid = "INITIALIZE"
  <2>1. "initializationKey" \in DOMAIN num
    BY <1>0, <1>2 DEF ClockKeys
  <2>2. ClockMembers(g) = <<N("initializationKey", 2)>>
    BY <1>2 DEF ClockMembers
  <2>3. Shaped(<<N("initializationKey", 2)>>, Num(2))
    BY <2>1
  <2> QED BY <1>2, <2>2, <2>3, ClockHeads, MadeOf
<1>3. CASE kid = "LOG_SYNC_INTERVAL"
  <2>1. ClockMembers(g) = <<<<Bit("logSyncInterval", 1)>>>>
    BY <1>3 DEF ClockMembers
  <2>2. Shaped(<<<<Bit("logSyncInterval", 1)>>>>, Num(1))
    OBVIOUS
  <2> QED BY <1>3, <2>1, <2>2, ClockHeads, MadeOf
<1>4. CASE kid = "VERSION_NUMBER"
  <2>1. "minor" \in DOMAIN num /\ "versionNumber" \in DOMAIN num
    BY <1>0, <1>4 DEF ClockKeys
  <2>2. num["minor"][1] \in 0 .. 15 /\ num["versionNumber"][1] \in 0 .. 15
    BY <1>4, <2>1 DEF KeysShaped
  <2>3. VersionOctet \in Octet
    BY ONLY <2>2 DEF VersionOctet, Octet
  <2>4. ClockMembers(g) = <<<<VersionOctet>>>>
    BY <1>4 DEF ClockMembers
  <2>5. Shaped(<<<<VersionOctet>>>>, Num(1))
    BY <2>3
  <2> QED BY <1>4, <2>4, <2>5, ClockHeads, MadeOf
<1>5. CASE kid = "TIME"
  <2>1. "secondsField" \in DOMAIN num /\ "nanosecondsField" \in DOMAIN num
    BY <1>0, <1>5 DEF ClockKeys
  <2> DEFINE a == Upper("secondsField")
             b == N("secondsField", 4)
             c == N("nanosecondsField", 4)
  <2>2. ClockMembers(g) = <<a, b, c>>
    BY <1>5 DEF ClockMembers
  <2>3. Wide(a, 4) /\ Wide(b, 4) /\ Wide(c, 4)
    BY <2>1
  <2> HIDE DEF a, b, c
  <2>4. Shaped(<<a, b>>, U48) /\ Shaped(<<c>>, Num(4))
    BY <2>3
  <2>5. Shaped(<<a, b, c>>, Timestamp)
    BY <2>4, ShapedRows DEF Timestamp
  <2> QED BY <1>5, <2>2, <2>5, TimeHeads, MadeOf
<1>6. CASE kid = "UTC_PROPERTIES"
  <2>1. "currentUtcOffset" \in DOMAIN num
    BY <1>0, <1>6 DEF ClockKeys
  <2> DEFINE a == N("currentUtcOffset", 2)
             b == <<UtcFlags>>
  <2>2. ClockMembers(g) = <<a, b>>
    BY <1>6 DEF ClockMembers
  <2>3. Shaped(<<a>>, Num(2)) /\ Shaped(<<b>>, Flags(1, 8))
    BY <2>1
  <2> HIDE DEF a, b
  <2>4. Shaped(<<a, b>>, Num(2) \o Flags(1, 8))
    BY <2>3, ShapedRows
  <2> QED BY <1>6, <2>2, <2>4, TimeHeads, MadeOf
<1>7. CASE kid = "TRACEABILITY_PROPERTIES"
  <2>1. ClockMembers(g) = <<<<TraceFlags>>>>
    BY <1>7 DEF ClockMembers
  <2>2. Shaped(<<<<TraceFlags>>>>, Flags(16, 64))
    OBVIOUS
  <2> QED BY <1>7, <2>1, <2>2, TimeHeads, MadeOf
<1>8. CASE kid = "TIMESCALE_PROPERTIES"
  <2> DEFINE a == <<Bit("ptpTimescale", 8)>>
             b == <<g>>
  <2>1. ClockMembers(g) = <<a, b>>
    BY <1>8 DEF ClockMembers
  <2>2. Shaped(<<a>>, Flags(8, 16)) /\ Shaped(<<b>>, Num(1))
    OBVIOUS
  <2> HIDE DEF a, b
  <2>3. Shaped(<<a, b>>, Flags(8, 16) \o Num(1))
    BY <2>2, ShapedRows
  <2> QED BY <1>8, <2>1, <2>3, TimeHeads, MadeOf
<1>9. CASE kid \in {"PRIORITY1", "PRIORITY2", "DOMAIN_", "SLAVE_ONLY", "LOG_ANNOUNCE_INTERVAL",
                    "ANNOUNCE_RECEIPT_TIMEOUT", "CLOCK_ACCURACY", "UNICAST_NEGOTIATION_ENABLE",
                    "PATH_TRACE_ENABLE"}
  <2>1. ClockMembers(g) = <<N(TheKey, 1)>>
    BY <1>9 DEF ClockMembers
  <2>2. HasHead(kid, Num(1)) \/ HasHead(kid, Flag)
    BY <1>9, ClockHeads, TimeHeads
  <2> QED BY <2>1, <2>2, OneOctet
<1> QED BY <1>1, <1>2, <1>3, <1>4, <1>5, <1>6, <1>7, <1>8, <1>9 DEF ClockKeys

(* Those of the second table. *)
LEMMA PortMade ==
  ASSUME KeysShaped, kid \in DOMAIN PortKeys, kid \notin DOMAIN ClockKeys, NEW g \in Octet
  PROVE  Made(PortMembers(g))
<1> USE NumberParts, FlagOctets, ShapedFields
<1>0. DOMAIN num = DOMAIN PortKeys[kid]
  BY DEF KeysOf, KeysShaped
<1>1. CASE kid = "ALTERNATE_MASTER"
  <2>1. {"transmitAlternateMulticastSync", "logAlternateMulticastSyncInterval",
         "numberOfAlternateMasters"} \subseteq DOMAIN num
    BY <1>0, <1>1 DEF PortKeys
  <2> DEFINE a == N("transmitAlternateMulticastSync", 1)
             b == N("logAlternateMulticastSyncInterval", 1)
             c == N("numberOfAlternateMasters", 1)
  <2>2. PortMembers(g) = <<a, b, c>>
    BY <1>1 DEF PortMembers
  <2>3. Shaped(<<a>>, Flag) /\ Shaped(<<b>>, Num(1)) /\ Shaped(<<c>>, Num(1))
    BY <2>1
  <2> HIDE DEF a, b, c
  <2>4. Shaped(<<a, b>>, Flag \o Num(1))
    BY <2>3, ShapedRows
  <2>5. Shaped(<<a, b, c>>, Flag \o Num(1) \o Num(1))
    BY <2>3, <2>4, ShapedRows
  <2> QED BY <1>1, <2>2, <2>5, TimeHeads, MadeOf
<1>2. CASE kid = "ALTERNATE_TIME_OFFSET_ENABLE"
  <2>1. "alternateTimescaleOffsetsDS" \in DOMAIN num
    BY <1>0, <1>2 DEF PortKeys
  <2> DEFINE a == <<g>>
             b == N("alternateTimescaleOffsetsDS", 1)
  <2>2. PortMembers(g) = <<a, b>>
    BY <1>2 DEF PortMembers
  <2>3. Shaped(<<a>>, Num(1)) /\ Shaped(<<b>>, Flag)
    BY <2>1
  <2> HIDE DEF a, b
  <2>4. Shaped(<<a, b>>, Num(1) \o Flag)
    BY <2>3, ShapedRows
  <2> QED BY <1>2, <2>2, <2>4, TimeHeads, MadeOf
<1>3. CASE kid = "ALTERNATE_TIME_OFFSET_NAME"
  <2>1. {"keyField", "displayName"} \subseteq DOMAIN num
    BY <1>0, <1>3 DEF PortKeys
  <2> DEFINE a == <<N("keyField", 1)>>
             b == Text("displayName")
  <2>2. PortMembers(g) = a \o b
    BY <1>3 DEF PortMembers
  <2>3. Shaped(a, Num(1)) /\ Shaped(b, PTPText)
    BY <2>1 DEF Text
  <2> HIDE DEF a, b
  <2>4. Shaped(a \o b, Num(1) \o PTPText)
    BY <2>3, ShapedBoth
  <2> QED BY <1>3, <2>2, <2>4, TimeHeads, MadeOf
<1>4. CASE kid = "ALTERNATE_TIME_OFFSET_PROPERTIES"
  <2>1. {"keyField", "currentOffset", "jumpSeconds", "timeOfNextJump"} \subseteq DOMAIN num
    BY <1>0, <1>4 DEF PortKeys
  <2> DEFINE a == N("keyField", 1)
             b == N("currentOffset", 4)
             c == N("jumpSeconds", 4)
             e == Upper("timeOfNextJump")
             f == N("timeOfNextJump", 4)
  <2>2. PortMembers(g) = <<a, b, c, e, f>>
    BY <1>4 DEF PortMembers
  <2>3. /\ Shaped(<<a>>, Num(1)) /\ Shaped(<<b>>, Num(4)) /\ Shaped(<<c>>, Num(4))
        /\ Shaped(<<e, f>>, U48)
    BY <2>1
  <2> HIDE DEF a, b, c, e, f
  <2>4. Shaped(<<a, b>>, Num(1) \o Num(4))
    BY <2>3, ShapedRows
  <2>5. Shaped(<<a, b, c>>, Num(1) \o Num(4) \o Num(4))
    BY <2>3, <2>4, ShapedRows
  <2>6. Shaped(<<a, b, c, e, f>>, Num(1) \o Num(4) \o Num(4) \o U48)
    BY <2>3, <2>5, ShapedRows
  <2> QED BY <1>4, <2>2, <2>6, TimeHeads, MadeOf
<1>5. CASE kid = "EXT_PORT_CONFIG_PORT_DATA_SET"
  <2>1. {"acceptableMasterPortDS", "desiredState"} \subseteq DOMAIN num
    BY <1>0, <1>5 DEF PortKeys
  <2> DEFINE a == N("acceptableMasterPortDS", 1)
             b == N("desiredState", 1)
  <2>2. PortMembers(g) = <<a, b>>
    BY <1>5 DEF PortMembers
  <2>3. Shaped(<<a>>, Flag) /\ Shaped(<<b>>, Num(1))
    BY <2>1
  <2> HIDE DEF a, b
  <2>4. Shaped(<<a, b>>, Flag \o Num(1))
    BY <2>3, ShapedRows
  <2> QED BY <1>5, <2>2, <2>4, PortHeads, MadeOf
<1>6. CASE kid \in {"ACCEPTABLE_MASTER_TABLE_ENABLED", "LOG_MIN_PDELAY_REQ_INTERVAL",
                    "PRIMARY_DOMAIN", "DELAY_MECHANISM", "EXTERNAL_PORT_CONFIGURATION_ENABLED",
                    "MASTER_ONLY", "HOLDOVER_UPGRADE_ENABLE"}
  <2>1. PortMembers(g) = <<N(TheKey, 1)>>
    BY <1>6 DEF PortMembers
  <2>2. HasHead(kid, Num(1)) \/ HasHead(kid, Flag)
    BY <1>6, TimeHeads, PortHeads
  <2> QED BY <2>1, <2>2, OneOctet
<1> QED BY <1>1, <1>2, <1>3, <1>4, <1>5, <1>6 DEF PortKeys

(* Those of the third table. *)
LEMMA LinuxptpMade ==
  ASSUME KeysShaped, kid \in DOMAIN LinuxptpKeys, kid \notin DOMAIN ClockKeys,
         kid \notin DOMAIN PortKeys
  PROVE  Made(LinuxptpMembers)
<1> USE NumberParts, FlagOctets, ShapedFields
<1>0. DOMAIN num = DOMAIN LinuxptpKeys[kid]
  BY DEF KeysOf, KeysShaped
<1>1. CASE kid = "GRANDMASTER_SETTINGS_NP"
  <2>1. {"clockClass", "clockAccuracy", "offsetScaledLogVariance", "currentUtcOffset",
         "timeSource"} \subseteq DOMAIN num
    BY <1>0, <1>1 DEF LinuxptpKeys
  <2> DEFINE a == N("clockClass", 1)
             b == N("clockAccuracy", 1)
             c == N("offsetScaledLogVariance", 2)
             e == N("currentUtcOffset", 2)
             f == <<UtcFlags + Bit("ptpTimescale", 8) + TraceFlags>>
             g == N("timeSource", 1)
  <2>2. LinuxptpMembers = <<a, b, c, e, f, g>>
    BY <1>1 DEF LinuxptpMembers
  <2>3. /\ Shaped(<<a>>, Num(1)) /\ Shaped(<<b>>, Num(1)) /\ Shaped(<<c>>, Num(2))
        /\ Shaped(<<e>>, Num(2)) /\ Shaped(<<f>>, Flags(1, 64)) /\ Shaped(<<g>>, Num(1))
    BY <2>1
  <2> HIDE DEF a, b, c, e, f, g
  <2>4. Shaped(<<a, b>>, Num(1) \o Num(1))
    BY <2>3, ShapedRows
  <2>5. Shaped(<<a, b, c>>, ClockQuality)
    BY <2>3, <2>4, ShapedRows DEF ClockQuality
  <2>6. Shaped(<<a, b, c, e>>, ClockQuality \o Num(2))
    BY <2>3, <2>5, ShapedRows
  <2>7. Shaped(<<a, b, c, e, f>>, ClockQuality \o Num(2) \o Flags(1, 64))
    BY <2>3, <2>6, ShapedRows
  <2>8. Shaped(<<a, b, c, e, f, g>>, ClockQuality \o Num(2) \o Flags(1, 64) \o Num(1))
    BY <2>3, <2>7, ShapedRows
  <2> QED BY <1>1, <2>2, <2>8, PortHeads, MadeOf
<1>2. CASE kid = "PORT_DATA_SET_NP"
  <2>1. {"neighborPropDelayThresh", "asCapable"} \subseteq DOMAIN num
    BY <1>0, <1>2 DEF LinuxptpKeys
  <2> DEFINE a == N("neighborPropDelayThresh", 4)
             b == N("asCapable", 4)
  <2>2. LinuxptpMembers = <<a, b>>
    BY <1>2 DEF LinuxptpMembers
  <2>3. Shaped(<<a>>, Num(4)) /\ Shaped(<<b>>, Num(4))
    BY <2>1
  <2> HIDE DEF a, b
  <2>4. Shaped(<<a, b>>, Num(4) \o Num(4))
    BY <2>3, ShapedRows
  <2> QED BY <1>2, <2>2, <2>4, PortHeads, MadeOf
<1>3. CASE kid = "SUBSCRIBE_EVENTS_NP"
  <2>1. "duration" \in DOMAIN num
    BY <1>0, <1>3 DEF LinuxptpKeys
  <2> DEFINE a == N("duration", 2)
             b == <<Bit("NOTIFY_PORT_STATE", 1) + Bit("NOTIFY_TIME_SYNC", 2)>>
                  \o [i \in 1 .. 63 |-> 0]
  <2>2. LinuxptpMembers = <<a, b>>
    BY <1>3 DEF LinuxptpMembers
  <2>3. Wide(b, 64)
    BY EventOctets
  <2>4. Wide(a, 2)
    BY <2>1
  <2> HIDE DEF a, b
  <2>5. Shaped(<<a>>, Num(2)) /\ Shaped(<<b>>, Octets(64))
    BY <2>3, <2>4
  <2>6. Shaped(<<a, b>>, Num(2) \o Octets(64))
    BY <2>5, ShapedRows
  <2> QED BY <1>3, <2>2, <2>6, PortHeads, MadeOf
<1>4. CASE kid = "SYNCHRONIZATION_UNCERTAIN_NP"
  <2>1. LinuxptpMembers = <<N(TheKey, 1)>>
    BY <1>4 DEF LinuxptpMembers
  <2>2. HasHead(kid, Num(1))
    BY <1>4, PortHeads
  <2> QED BY <2>1, <2>2, OneOctet
<1> QED BY <1>1, <1>2, <1>3, <1>4 DEF LinuxptpKeys

(* What was made is a structure that may be sent. *)
LEMMA MadeIsSendable ==
  ASSUME Layout = AllLayouts, NEW vs, Made(vs)
  PROVE  Sendable(kid, [head |-> vs, recs |-> << >>])
<1> DEFINE s == [head |-> vs, recs |-> << >>]
<1>1. kid \in SentIds /\ kid \in DOMAIN Layout
  BY TablesTogether DEF Made, SentIds
<1>2. Layout[kid].list = "none" /\ Layout[kid].rec = << >> /\ Shaped(vs, Layout[kid].head)
  BY DEF Made
<1>3. s.head = vs /\ s.recs = << >> /\ Len(s.recs) = 0 /\ s.recs \in Seq(Seq(Seq(Octet)))
  OBVIOUS
<1> HIDE DEF s
<1>4. IsStruct(kid, s)
  BY <1>2, <1>3 DEF IsStruct, Shaped
<1>5. Kinds(Layout[kid].rec) = {}
  BY <1>2 DEF Kinds
<1>6. Sendable(kid, s)
  BY <1>1, <1>2, <1>3, <1>4, <1>5 DEF Sendable, Shaped
<1> QED BY <1>6 DEF s

-----------------------------------------------------------------------------
(* The parser and the codec together *)

(* All tokens that users type. *)
AnyTokens == UNION { {l.tokens[i] : i \in DOMAIN l.tokens} : l \in TypedLines }

(* Inside of the parser the keys have their shape, and a structure it made may be sent. *)
ShapeInv ==
  /\ kpc = "keys" => KeysShaped /\ left \in Seq(AnyTokens)
  /\ kpc = "done" /\ ok => Sendable(kid, [head |-> dp, recs |-> << >>])

(* What the tokenizers find is a token. *)
LEMMA TokenFound ==
  ASSUME NEW ts \in Seq(AnyTokens), NEW b, NEW c
  PROVE  LET x == Token(ts, b, c) IN
         /\ x.rest \in Seq(AnyTokens)
         /\ x.out \in {"token", "behind"} => IsToken(x.tkn)
<1>1. << >> \in Seq(AnyTokens)
  OBVIOUS
<1>2. \A y \in AnyTokens : IsToken(y)
  BY TokensAssumption DEF AnyTokens
<1>3. ts # << >> => Head(ts) \in AnyTokens /\ Tail(ts) \in Seq(AnyTokens)
  OBVIOUS
<1>4. IsToken([t |-> "quoted", w |-> "", n0 |-> NotNumber, n16 |-> NotNumber, text |-> BehindText])
  BY TokensAssumption DEF IsToken
<1> QED BY <1>1, <1>2, <1>3, <1>4 DEF Token

(* A value of a key keeps the shape of the keys. *)
LEMMA AssignShaped ==
  ASSUME KeysShaped, NEW tkn, IsToken(tkn), KeyAt \in DOMAIN num, Assign(tkn), kid' = kid
  PROVE  KeysShaped'
<1> DEFINE n == NumOf(key0, tkn)
           k0 == KeyAt
<1>1. /\ num' = [num EXCEPT ![k0] = IF n = NotNumber THEN @ ELSE n]
      /\ str_val' = [str_val EXCEPT ![k0] = tkn.text]
      /\ req' = [req EXCEPT ![k0] = FALSE]
  BY DEF Assign
<1>2. n = NotNumber \/ IsInt64(n)
  BY NumOfType
<1>3. tkn.text \in Seq(Octet)
  BY DEF IsToken, Octet
<1>4. kid = "VERSION_NUMBER" /\ n # NotNumber => n[1] \in 0 .. 15
  <2> SUFFICES ASSUME kid = "VERSION_NUMBER", n # NotNumber PROVE n[1] \in 0 .. 15
    OBVIOUS
  <2>1. k0 \in DOMAIN KeysOf("VERSION_NUMBER") /\ key0 = KeysOf("VERSION_NUMBER")[k0]
    BY DEF KeysShaped, key0
  <2> QED BY <2>1, VersionDigits
<1>5. k0 \in DOMAIN num
  OBVIOUS
<1> HIDE DEF n, k0
<1>6. DOMAIN num' = DOMAIN num /\ DOMAIN str_val' = DOMAIN str_val /\ DOMAIN req' = DOMAIN req
  BY <1>1
<1>7. \A k \in DOMAIN num : /\ num'[k] = num[k] \/ (n # NotNumber /\ num'[k] = n)
                            /\ str_val'[k] = str_val[k] \/ str_val'[k] = tkn.text
  BY <1>1, <1>5 DEF KeysShaped
<1>8. \A k \in DOMAIN num' : IsInt64(num'[k]) /\ str_val'[k] \in Seq(Octet)
  BY <1>2, <1>3, <1>6, <1>7 DEF KeysShaped
<1>9. kid = "VERSION_NUMBER" => \A k \in DOMAIN num' : num'[k][1] \in 0 .. 15
  BY <1>4, <1>6, <1>7 DEF KeysShaped
<1> QED BY <1>6, <1>8, <1>9 DEF KeysShaped

(* The parser at work keeps the shape. *)
LEMMA ParserShaped ==
  ASSUME ShapeInv, KeyAndValue \/ ValueAlone
  PROVE  ShapeInv'
<1>1. kpc = "keys" /\ kpc' = "keys" /\ kid' = kid /\ KeysShaped /\ left \in Seq(AnyTokens)
  BY DEF KeyAndValue, ValueAlone, ShapeInv
<1>2. First.rest \in Seq(AnyTokens) /\ (HasFirst => IsToken(First.tkn))
  BY <1>1, TokenFound DEF First, HasFirst
<1>3. Second.rest \in Seq(AnyTokens) /\ (HasSecond => IsToken(Second.tkn))
  BY <1>2, TokenFound DEF Second, HasSecond
<1>4. IsKey => KeyAt \in DOMAIN num
  BY <1>1, TheKeyIn DEF IsKey, KeyAt, KeysShaped
<1>5. CASE KeyAndValue
  <2>1. Assign(Second.tkn) /\ IsToken(Second.tkn) /\ KeyAt \in DOMAIN num /\ left' = Second.rest
    BY <1>3, <1>4, <1>5 DEF KeyAndValue
  <2> QED BY <1>1, <1>3, <2>1, AssignShaped DEF ShapeInv
<1>6. CASE ValueAlone
  <2>1. Assign(First.tkn) /\ IsToken(First.tkn) /\ KeyAt \in DOMAIN num /\ left' = << >>
    BY <1>2, <1>4, <1>6 DEF ValueAlone, IsKey
  <2> QED BY <1>1, <2>1, AssignShaped DEF ShapeInv
<1> QED BY <1>5, <1>6

(* The structure that a build function makes. *)
LEMMA StructShaped ==
  ASSUME Layout = AllLayouts, ShapeInv, NoMoreTokens
  PROVE  ShapeInv'
<1>1. KeysShaped /\ kpc' = "done" /\ kid' = kid
  BY DEF NoMoreTokens, Null, ShapeInv
<1>2. CASE ok'
  <2>1. PICK g \in Garbage : dp' = IF kid \in DOMAIN ClockKeys THEN ClockMembers(g)
                                   ELSE IF kid \in DOMAIN PortKeys THEN PortMembers(g)
                                   ELSE LinuxptpMembers
    BY <1>2 DEF NoMoreTokens, Null
  <2>2. g \in Octet
    BY TokensAssumption DEF Octet
  <2>3. kid \in DOMAIN ClockKeys \cup DOMAIN PortKeys \cup DOMAIN LinuxptpKeys
    BY <1>1 DEF KeysShaped, KeyIds
  <2>4. Made(dp')
    BY <1>1, <2>1, <2>2, <2>3, ClockMade, PortMade, LinuxptpMade
  <2>5. Sendable(kid, [head |-> dp', recs |-> << >>])
    BY <2>4, MadeIsSendable
  <2> QED BY <1>1, <2>5 DEF ShapeInv, Sendable
<1> QED BY <1>1, <1>2 DEF ShapeInv

(* call_data(). *)
LEMMA CallShaped ==
  ASSUME NEW l \in TypedLines, NEW b, CallData(l.id, l.tokens, b)
  PROVE  ShapeInv'
<1> DEFINE id == l.id
           keys == KeysOf(id)
<1>1. CASE id \notin KeyIds
  BY <1>1 DEF CallData, ShapeInv
<1>2. CASE id \in KeyIds
  <2>1. /\ kpc' = "keys" /\ kid' = id /\ left' = l.tokens
        /\ num' = [k \in DOMAIN keys |-> keys[k].def]
        /\ str_val' = [k \in DOMAIN keys |-> << >>]
        /\ req' = [k \in DOMAIN keys |-> keys[k].req]
    BY <1>2 DEF CallData
  <2>2. l.tokens \in Seq(AnyTokens)
    <3>1. l.tokens \in Seq({l.tokens[i] : i \in DOMAIN l.tokens})
      BY LinesAssumption
    <3>2. {l.tokens[i] : i \in DOMAIN l.tokens} \subseteq AnyTokens
      BY DEF AnyTokens
    <3> QED BY <3>1, <3>2
  <2>3. \A k \in DOMAIN keys : IsInt64(keys[k].def)
    BY <1>2, AllKeys, SmallNumbers DEF AreKeys, IsKeyRec, Small
  <2>4. id = "VERSION_NUMBER" => \A k \in DOMAIN keys : keys[k].def[1] \in 0 .. 15
    BY VersionDigits
  <2>5. << >> \in Seq(Octet)
    OBVIOUS
  <2> HIDE DEF keys
  <2>6. KeysShaped'
    BY <1>2, <2>1, <2>3, <2>4, <2>5 DEF KeysShaped, keys
  <2> QED BY <2>1, <2>2, <2>6 DEF ShapeInv
<1> QED BY <1>1, <1>2

(* The strengthening holds in every state. *)
LEMMA ShapeHolds ==
  ASSUME Layout = AllLayouts
  PROVE  SetShowSpec => []ShapeInv
<1>1. SetShowInit => ShapeInv
  BY DEF SetShowInit, KeyInit, ShapeInv
<1>2. ShapeInv /\ [SetShowNext]_setVars => ShapeInv'
  <2> SUFFICES ASSUME ShapeInv, [SetShowNext]_setVars PROVE ShapeInv'
    OBVIOUS
  <2>1. CASE UNCHANGED keyVars
    BY <2>1 DEF keyVars, ShapeInv, KeysShaped, Sendable
  <2>2. CASE ReadLine
    <3>1. KeyNext
      BY <2>2 DEF ReadLine
    <3>2. CASE \E l \in TypedLines, b \in Behind : CallData(l.id, l.tokens, b)
      BY <3>2, CallShaped
    <3>3. CASE ParseError
      BY <3>3 DEF ParseError, Null, ShapeInv
    <3>4. CASE KeyAndValue \/ ValueAlone
      BY <3>4, ParserShaped
    <3>5. CASE NoMoreTokens
      BY <3>5, StructShaped
    <3> QED BY <3>1, <3>2, <3>3, <3>4, <3>5 DEF KeyNext
  <2>3. CASE NextOne
    BY <2>3 DEF NextOne, ShapeInv
  <2> QED
    BY <2>1, <2>2, <2>3 DEF SetShowNext, SendTyped, CodecStep, WriteJson, setVars
<1> QED BY <1>1, <1>2, PTL DEF SetShowSpec

(* Every structure that the key parser makes of a line, whatever was typed, has the
   members its TLV function moves, each with its octets. *)
THEOREM TypedHasShape ==
  ASSUME Layout = AllLayouts
  PROVE  SetShowSpec => [](kpc = "done" /\ ok => IsStruct(kid, [head |-> dp, recs |-> << >>]))
<1>1. ShapeInv => (kpc = "done" /\ ok => IsStruct(kid, [head |-> dp, recs |-> << >>]))
  BY DEF ShapeInv, Sendable
<1> QED BY <1>1, ShapeHolds, PTL

(* The way of a typed value is a use of the codec. *)
LEMMA SetShowUses ==
  ASSUME Layout = AllLayouts
  PROVE  SetShowSpec => UseSpec
<1>1. SetShowInit => CodecInit
  BY DEF SetShowInit
<1>2. ShapeInv /\ [SetShowNext]_setVars => [UseNext]_codecVars
  <2> SUFFICES ASSUME ShapeInv, SetShowNext PROVE UseNext \/ UNCHANGED codecVars
    BY DEF setVars
  <2>1. CASE ReadLine
    BY <2>1 DEF ReadLine
  <2>2. CASE SendTyped
    <3> DEFINE s == [head |-> dp, recs |-> << >>]
    <3>1. Sendable(kid, s) /\ SendRoom \in Nat
      BY <2>2 DEF SendTyped, ShapeInv, SendRoom
    <3>2. Start("build", kid, [head |-> s.head, recs |-> s.recs], << >>, SendRoom) /\ sent' = Nothing
      BY <2>2 DEF SendTyped
    <3> HIDE DEF s
    <3>3. BuildAny
      BY <3>1, <3>2 DEF BuildAny
    <3> QED BY <3>3 DEF UseNext
  <2>3. CASE CodecStep
    <3>1. StartBuild => BuildAny
      BY CodecBuilds
    <3> QED BY <2>3, <3>1 DEF CodecStep, UseNext
  <2>4. CASE WriteJson
    BY <2>4 DEF WriteJson, JsonOfData, JsonOfOther
  <2>5. CASE NextOne
    <3>1. Afresh
      BY <2>5 DEF NextOne, Afresh, CodecInit
    <3> QED BY <3>1 DEF UseNext
  <2> QED BY <2>1, <2>2, <2>3, <2>4, <2>5 DEF SetShowNext
<1> QED BY <1>1, <1>2, ShapeHolds, PTL DEF SetShowSpec, UseSpec

(***************************************************************************)
(* What holds of the codec for the structures of an application holds for  *)
(* those that users type: whatever the line, build() in the buffer of pmc  *)
(* needs and produces the planned size and writes inside it, as long as no *)
(* text or address has 65536 octets; parse() gives the structure back or   *)
(* refuses a front part; and reading leaves its octets with a Float64_t    *)
(* alone, by eight of them at most. Lines, library calls and received      *)
(* messages may follow each other in any order.                            *)
(***************************************************************************)
THEOREM TypedGoesThrough ==
  ASSUME LibraryTables
  PROVE  SetShowSpec => []( /\ CodecTypeOK /\ StaysInside /\ SizesAgree /\ PlanIsKept
                            /\ RoundTrip /\ TruncatedRejected
                            /\ tlv # "ENHANCED_ACCURACY_METRICS" =>
                                 FixedSizeIsExact /\ RecordsFit )
<1>1. Layout = AllLayouts
  BY DEF LibraryTables
<1> QED BY <1>1, SetShowUses, LibraryUses, PTL DEF LibraryCodec
=============================================================================
