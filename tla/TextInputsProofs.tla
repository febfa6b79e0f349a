------------------------- MODULE TextInputsProofs ---------------------------
(***************************************************************************)
(* The byte-level algorithms of the validator and the references of        *)
(* TextInputs agree on texts of every length over every alphabet.  What a  *)
(* loop of the code comes to is shown by induction over the turns left.    *)
(***************************************************************************)
EXTENDS TextInputs, FiniteSetTheorems, TLAPS

\* The bytes of texts.
Byte == 0 .. 255

(* A sequence with one element more.                                       *)
LEMMA Appended ==
    ASSUME NEW S, NEW s \in Seq(S), NEW e \in S
    PROVE  /\ Append(s, e) \in Seq(S) /\ Append(s, e) # <<>>
           /\ Len(Append(s, e)) = Len(s) + 1
           /\ \A i \in 1 .. Len(s) : Append(s, e)[i] = s[i]
           /\ Append(s, e)[Len(s) + 1] = e
  BY SMT

(* A part of a sequence.                                                   *)
LEMMA Part ==
    ASSUME NEW S, NEW s, NEW i \in Int, NEW j \in Int, \A k \in i .. j : s[k] \in S
    PROVE  /\ SubSeq(s, i, j) \in Seq(S)
           /\ Len(SubSeq(s, i, j)) = IF i <= j THEN j - i + 1 ELSE 0
           /\ \A k \in 1 .. j - i + 1 : SubSeq(s, i, j)[k] = s[i + k - 1]
  BY SMT

(* One sequence after another.                                             *)
LEMMA Concatenated ==
    ASSUME NEW S, NEW s \in Seq(S), NEW t \in Seq(S)
    PROVE  /\ s \o t \in Seq(S) /\ Len(s \o t) = Len(s) + Len(t)
           /\ \A i \in 1 .. Len(s) + Len(t) :
                    (s \o t)[i] = IF i <= Len(s) THEN s[i] ELSE t[i - Len(s)]
  BY SMT

(* Sequences are equal when their elements are.                            *)
LEMMA SameSequence ==
    ASSUME NEW S, NEW s \in Seq(S), NEW t \in Seq(S),
           Len(s) = Len(t), \A i \in 1 .. Len(s) : s[i] = t[i]
    PROVE  s = t
  BY SMT

\* The state of the enumeration.
InputOK ==
    /\ kind \in Kinds
    /\ scheme \in {"https", "http", ""}
    /\ text \in Seq(Byte)

(* Every input is a string of bytes.                                       *)
THEOREM InputTypes == Spec => []InputOK
<1>1. Init => InputOK
  <2>1. <<>> \in Seq(Byte)
    OBVIOUS
  <2> QED
    BY Zenon, <2>1 DEF Init, InputOK
<1>2. ASSUME InputOK, [Next]_vars PROVE InputOK'
  <2>1. CASE Extend
    <3>1. PICK c \in Alphabet[kind] : text' = Append(text, c)
      BY <2>1, Zenon DEF Extend
    <3>2. c \in Byte
      BY <1>2, InputAssumption, ZenonT(60) DEF InputOK, Byte
    <3>3. kind' = kind /\ scheme' = scheme
      BY <2>1, Zenon DEF Extend
    <3>4. text' \in Seq(Byte)
      BY Zenon, <1>2, <3>1, <3>2, Appended DEF InputOK
    <3> QED
      BY Zenon, <1>2, <3>3, <3>4 DEF InputOK
  <2>2. CASE UNCHANGED vars
    BY <1>2, <2>2, Zenon DEF InputOK, vars
  <2> QED
    BY <1>2, <2>1, <2>2, Zenon DEF Next
<1> QED
  BY <1>1, <1>2, PTL DEF Spec

(* What metadata.c accepts as jwks_uri the transport can fetch.            *)
LEMMA UrlsAgree == UrlChecksAgree
<1> SUFFICES ASSUME NEW allow \in BOOLEAN, NEW curl \in BOOLEAN
             PROVE  LET v == validate_url(url, allow, FALSE, curl)
                        p == parse_url(url, allow, curl)
                    IN  /\ v = "ok" <=> p = "ok"
                        /\ v = "insecure" => p = "insecure"
  BY Zenon DEF UrlChecksAgree
<1>1. PICK a, b, c, d, e, f :
        /\ a = (url_length(url) \notin 1 .. MaxUrl)
        /\ b = valid_url_octets(url) /\ c = has(url, 35)
        /\ d = secure(url) /\ e = plain(url) /\ f = named(url)
  BY Zenon
<1> QED
  BY <1>1, Zenon DEF validate_url, parse_url

-----------------------------------------------------------------------------
(* Loops over texts                                                        *)

(* What holds of 0 and, with each number, of the next holds of all.        *)
LEMMA Induction ==
    ASSUME NEW S, 0 \in S, \A n \in Nat : n \in S => n + 1 \in S
    PROVE  \A n \in Nat : n \in S
<1> DEFINE Below == {ss \in Nat \X Nat : ss[1] < ss[2]}
           Rest == {n \in Nat : n \notin S}
<1>1. IsWellFoundedOn(Below, Nat)
  BY NatLessThanWellFounded, Zenon DEF OpToRel
<1>2. \A x, y \in Nat : y < x => <<y, x>> \in Below
  BY Zenon
<1> HIDE DEF Below
<1>3. SUFFICES ASSUME Rest # {} PROVE FALSE
  BY Zenon
<1>4. PICK x \in Rest : \A y \in Rest : ~(<<y, x>> \in Below)
  <2>1. Rest \subseteq Nat
    BY Zenon
  <2> HIDE DEF Rest
  <2> QED
    BY <1>1, <1>3, <2>1, WFMin, Zenon
<1>5. x \in Nat /\ x # 0 /\ x \notin S
  BY Zenon
<1>6. x - 1 \in Nat /\ x - 1 < x /\ x - 1 \notin S
  BY <1>5
<1>7. <<x - 1, x>> \in Below
  BY <1>2, <1>5, <1>6, Zenon
<1> QED
  BY <1>4, <1>6, <1>7, Zenon


(* A set of numbers has a least one.                                       *)
LEMMA Least ==
    ASSUME NEW P \in SUBSET Nat, P # {}
    PROVE  \E m \in P : \A k \in P : m <= k
<1> SUFFICES ASSUME \A m \in P : \E k \in P : k < m PROVE FALSE
  OBVIOUS
<1> DEFINE S == {n \in Nat : \A k \in P : n <= k}
<1>1. 0 \in S
  OBVIOUS
<1>2. ASSUME NEW n \in Nat, n \in S PROVE n + 1 \in S
  <2>1. n \notin P
    BY <1>2
  <2> QED
    BY <1>2, <2>1
<1> HIDE DEF S
<1>3. \A n \in Nat : n \in S
  BY <1>1, <1>2, Induction, Zenon
<1>4. PICK p \in P : TRUE
  BY Zenon
<1>5. p + 1 \in S
  BY <1>3
<1> QED
  BY <1>5 DEF S

(* next finds the first position, or the end.                              *)
IsNext(n, s, i, S) ==
    /\ n \in i .. Len(s) + 1
    /\ \A k \in i .. n - 1 : s[k] \notin S
    /\ n <= Len(s) => s[n] \in S

(* There is one such position, and next has it.                            *)
LEMMA NextIs ==
    ASSUME NEW s \in Seq(Byte), NEW i \in 1 .. Len(s) + 1, NEW S
    PROVE  /\ IsNext(next(s, i, S), s, i, S)
           /\ \A n : IsNext(n, s, i, S) => next(s, i, S) = n
<1>1. PICK P : P = {j \in i .. Len(s) : s[j] \in S}
  BY Zenon
<1>2. Len(s) \in Nat /\ P \in SUBSET Nat
  BY <1>1
<1>3. CASE P = {}
  <2>1. next(s, i, S) = Len(s) + 1
    BY Zenon, <1>1, <1>3 DEF next
  <2>2. \A k \in i .. Len(s) : s[k] \notin S
    BY <1>1, <1>3, Zenon
  <2> QED
    BY <1>2, <2>1, <2>2 DEF IsNext
<1>4. CASE P # {}
  <2>1. PICK n : n = next(s, i, S)
    BY Zenon
  <2>2. n = CHOOSE j \in P : \A k \in P : j <= k
    BY Zenon, <1>1, <1>4, <2>1 DEF next
  <2>3. n \in P /\ \A k \in P : n <= k
    BY Zenon, <1>2, <1>4, <2>2, Least
  <2>4. n \in i .. Len(s) /\ s[n] \in S
    BY <1>1, <2>3, Zenon
  <2>5. \A k \in i .. n - 1 : s[k] \notin S
    BY <1>1, <1>2, <2>3, <2>4
  <2>6. IsNext(n, s, i, S)
    BY <1>2, <2>4, <2>5 DEF IsNext
  <2>7. ASSUME NEW m, IsNext(m, s, i, S) PROVE n = m
    <3>1. m \in i .. Len(s) + 1 /\ ~(n < m)
      BY <2>4, <2>7 DEF IsNext
    <3>2. ~(m < n)
      BY <1>2, <2>4, <2>5, <2>7, <3>1 DEF IsNext
    <3> QED
      BY <1>2, <2>4, <3>1, <3>2
  <2> QED
    BY <2>1, <2>6, <2>7, Zenon
<1> QED
  BY <1>3, <1>4, Zenon

(* The bytes of a part of a text.                                          *)
LEMMA Slice ==
    ASSUME NEW s \in Seq(Byte), NEW i \in 1 .. Len(s) + 1, NEW j \in i - 1 .. Len(s)
    PROVE  /\ SubSeq(s, i, j) \in Seq(Byte)
           /\ Len(SubSeq(s, i, j)) = j - i + 1
           /\ \A k \in 1 .. j - i + 1 : SubSeq(s, i, j)[k] = s[i + k - 1]
<1>1. i \in Int /\ j \in Int /\ \A k \in i .. j : s[k] \in Byte
  OBVIOUS
<1>2. /\ SubSeq(s, i, j) \in Seq(Byte)
      /\ Len(SubSeq(s, i, j)) = IF i <= j THEN j - i + 1 ELSE 0
      /\ \A k \in 1 .. j - i + 1 : SubSeq(s, i, j)[k] = s[i + k - 1]
  BY <1>1, Part, SMTT(30)
<1> QED
  BY <1>1, <1>2

(* A loop over the states D: go says whether it has another turn, jump     *)
(* where that turn is, and base what it ends with, a value of V.  With     *)
(* every turn it comes closer to an end, at most N turns away.             *)
Loop(D, V, N, rank, go, jump, base) ==
    /\ N \in Nat /\ rank \in [D -> 0 .. N]
    /\ \A x \in D : go[x] => jump[x] \in D /\ rank[jump[x]] < rank[x]
    /\ \A x \in D : ~go[x] => base[x] \in V

Computes(f, D, V, go, jump, base) ==
    /\ f \in [D -> V]
    /\ \A x \in D : f[x] = IF go[x] THEN f[jump[x]] ELSE base[x]

\* Such a loop computes something.
LEMMA LoopExists ==
    ASSUME NEW D, NEW V, NEW N, NEW rank, NEW go, NEW jump, NEW base,
           Loop(D, V, N, rank, go, jump, base)
    PROVE  \E f : Computes(f, D, V, go, jump, base)
<1> USE DEF Loop
<1> DEFINE Solves(f, n) ==
              \A x \in D : rank[x] < n =>
                /\ f[x] \in V
                /\ f[x] = IF go[x] THEN f[jump[x]] ELSE base[x]
           S == {n \in Nat : \E f : Solves(f, n)}
<1>1. 0 \in S
  <2>1. \A x \in D : ~(rank[x] < 0)
    OBVIOUS
  <2>2. Solves(0, 0)
    BY Zenon, <2>1
  <2> QED
    BY Zenon, <2>2
<1>2. ASSUME NEW n \in Nat, n \in S PROVE n + 1 \in S
  <2>1. PICK f : Solves(f, n)
    BY Zenon, <1>2
  <2>2. PICK g : g = [x \in D |-> IF go[x] THEN f[jump[x]] ELSE base[x]]
    BY Zenon
  <2>3. \A x \in D : g[x] = IF go[x] THEN f[jump[x]] ELSE base[x]
    BY Zenon, <2>2
  <2>4. ASSUME NEW x \in D, rank[x] < n + 1
        PROVE  g[x] \in V /\ g[x] = IF go[x] THEN g[jump[x]] ELSE base[x]
    <3>1. CASE go[x]
      <4>1. jump[x] \in D /\ rank[jump[x]] < rank[x]
        BY Zenon, <3>1
      <4>2. rank[jump[x]] < n
        BY <2>4, <4>1
      <4>3. f[jump[x]] \in V /\ g[jump[x]] = f[jump[x]]
        <5>1. PICK y \in D : y = jump[x]
          BY Zenon, <4>1
        <5>2. /\ f[y] \in V
              /\ f[y] = IF go[y] THEN f[jump[y]] ELSE base[y]
          BY Zenon, <2>1, <4>2, <5>1
        <5>3. g[y] = IF go[y] THEN f[jump[y]] ELSE base[y]
          BY Zenon, <2>3
        <5> QED
          BY Zenon, <5>1, <5>2, <5>3
      <4> QED
        BY Zenon, <2>3, <3>1, <4>3
    <3>2. CASE ~go[x]
      BY Zenon, <2>3, <3>2
    <3> QED
      BY Zenon, <3>1, <3>2
  <2>5. Solves(g, n + 1)
    BY Zenon, <2>4
  <2>6. n + 1 \in Nat
    OBVIOUS
  <2> QED
    BY Zenon, <2>5, <2>6
<1> HIDE DEF S
<1>3. \A n \in Nat : n \in S
  BY Zenon, <1>1, <1>2, Induction
<1>4. N + 1 \in S /\ \A x \in D : rank[x] < N + 1
  BY <1>3
<1>5. PICK f : Solves(f, N + 1)
  BY Zenon, <1>4 DEF S
<1>6. PICK g : g = [x \in D |-> f[x]]
  BY Zenon
<1>7. \A x \in D : f[x] \in V /\ f[x] = IF go[x] THEN f[jump[x]] ELSE base[x]
  BY Zenon, <1>4, <1>5
<1>8. g \in [D -> V]
  BY Zenon, <1>6, <1>7
<1>9. \A x \in D : g[x] = IF go[x] THEN g[jump[x]] ELSE base[x]
  BY Zenon, <1>6, <1>7
<1> QED
  BY Zenon, <1>8, <1>9 DEF Computes

-----------------------------------------------------------------------------
(* metadata.c: the metadata URL                                            *)

(* The bytes of two texts put together.                                    *)
LEMMA Joined ==
    ASSUME NEW a \in Seq(Byte), NEW b \in Seq(Byte)
    PROVE  /\ a \o b \in Seq(Byte) /\ Len(a \o b) = Len(a) + Len(b)
           /\ Len(a) \in Nat
           /\ \A i \in 1 .. Len(a) : (a \o b)[i] = a[i]
           /\ \A i \in 1 .. Len(b) : (a \o b)[Len(a) + i] = b[i]
<1>1. a \o b \in Seq(Byte) /\ Len(a \o b) = Len(a) + Len(b)
  BY Concatenated, Zenon
<1>2. Len(a) \in Nat /\ Len(b) \in Nat
  OBVIOUS
<1>3. \A i \in 1 .. Len(a) : (a \o b)[i] = a[i]
  OBVIOUS
<1>4. \A i \in 1 .. Len(b) : (a \o b)[Len(a) + i] = b[i]
  OBVIOUS
<1> QED
  BY Zenon, <1>1, <1>2, <1>3, <1>4

(* The metadata URL of an issuer keeps its authority.                      *)
LEMMA AuthorityKept == InputOK => IssuerAuthorityKept
<1> SUFFICES ASSUME InputOK, NEW allow \in BOOLEAN, NEW curl \in BOOLEAN,
                    validate_url(url, allow, TRUE, curl) = "ok",
                    pg_oauth_metadata_url(url) # NoUrl
             PROVE  LET m == pg_oauth_metadata_url(url)
                    IN  /\ parse_url(m, allow, TRUE) = "ok"
                        /\ authority(m) = authority(url)
                        /\ ~has(m, 63) /\ ~has(m, 35)
                        /\ SubSeq(m.rest, Len(m.rest), Len(m.rest)) = WellKnown
  BY Zenon DEF IssuerAuthorityKept
<1>1. /\ url.scheme = scheme /\ url.rest = text
      /\ text \in Seq(Byte) /\ scheme \in {"https", "http", ""}
  BY Zenon DEF url, InputOK
<1>2. /\ url_length(url) \in 1 .. MaxUrl /\ valid_url_octets(url) /\ ~has(url, 35)
      /\ secure(url) \/ plain(url)
      /\ secure(url) \/ allow
      /\ named(url) /\ ~has(url, 63)
  BY Zenon DEF validate_url
<1>3. PICK suffix : suffix = IF text = <<>> \/ text[Len(text)] = 47
                             THEN WellKnown ELSE <<47>> \o WellKnown
  BY Zenon
<1>4. PICK m : m = pg_oauth_metadata_url(url)
  BY Zenon
<1>5. /\ m = [url EXCEPT !.rest = text \o suffix]
      /\ ~(Len(suffix) > MaxUrl - url_length(url))
  BY Zenon, <1>1, <1>3, <1>4 DEF pg_oauth_metadata_url
<1>6. m.scheme = scheme /\ m.rest = text \o suffix
  BY <1>5, Zenon DEF url
<1>7. text # <<>>
  BY Zenon, <1>1, <1>2 DEF secure, plain
<1>8. \/ text[Len(text)] = 47 /\ suffix = <<46>>
      \/ text[Len(text)] # 47 /\ suffix = <<47>> \o <<46>>
  BY Zenon, <1>3, <1>7 DEF WellKnown
<1>9. PICK rest, n, l : rest = text \o suffix /\ n = Len(text) /\ l = Len(suffix)
  BY Zenon
<1>a. PICK t \in Seq(Byte) : t = text
  BY <1>1, Zenon
<1>10. /\ rest \in Seq(Byte)
       /\ n \in Nat \ {0} /\ l \in {1, 2}
       /\ Len(rest) = n + l
       /\ \A k \in 1 .. n : rest[k] = t[k]
       /\ rest[n + l] = 46
       /\ l = 2 => rest[n + 1] = 47
       /\ l = 1 => t[n] = 47
  <2>1. PICK both : both = <<47>> \o <<46>>
    BY Zenon
  <2>a. both \in Seq(Byte) /\ Len(both) = 2 /\ both[1] = 47 /\ both[2] = 46
    <3>1. <<47>> \in Seq(Byte) /\ <<46>> \in Seq(Byte)
      BY DEF Byte
    <3>2. /\ both \in Seq(Byte) /\ Len(both) = Len(<<47>>) + Len(<<46>>)
          /\ \A i \in 1 .. Len(<<47>>) : both[i] = <<47>>[i]
          /\ \A i \in 1 .. Len(<<46>>) : both[Len(<<47>>) + i] = <<46>>[i]
      BY <2>1, <3>1, Joined
    <3> QED
      BY <3>2
  <2>2. /\ suffix \in Seq(Byte) /\ l \in {1, 2}
        /\ l = 1 => suffix[1] = 46 /\ t[n] = 47
        /\ l = 2 => suffix[1] = 47 /\ suffix[2] = 46
    <3>1. CASE suffix = <<46>> /\ t[n] = 47
      <4>1. <<46>> \in Seq(Byte) /\ Len(<<46>>) = 1 /\ <<46>>[1] = 46
        BY DEF Byte
      <4> QED
        BY <1>9, <3>1, <4>1, Zenon
    <3>2. CASE suffix = both
      <4>1. l = 2 /\ suffix \in Seq(Byte) /\ suffix[1] = 47 /\ suffix[2] = 46
        BY Zenon, <1>9, <2>a, <3>2
      <4> QED
        BY <4>1
    <3> QED
      BY Zenon, <1>8, <1>9, <1>a, <2>1, <3>1, <3>2
  <2>3. /\ t \o suffix \in Seq(Byte) /\ Len(t \o suffix) = Len(t) + Len(suffix)
        /\ Len(t) \in Nat
        /\ \A i \in 1 .. Len(t) : (t \o suffix)[i] = t[i]
        /\ \A i \in 1 .. Len(suffix) : (t \o suffix)[Len(t) + i] = suffix[i]
    <3>1. t \in Seq(Byte)
      BY Zenon
    <3> QED
      BY Zenon, <2>2, <3>1, Joined
  <2>4. n \in Nat \ {0}
    BY <1>7, <1>9, <1>a
  <2>5. /\ rest \in Seq(Byte) /\ Len(rest) = n + l
        /\ \A i \in 1 .. n : rest[i] = t[i]
        /\ \A i \in 1 .. l : rest[n + i] = suffix[i]
    BY Zenon, <1>9, <1>a, <2>3
  <2> QED
    BY <2>2, <2>4, <2>5
<1>11. \A k \in 1 .. n + l : \/ k \in 1 .. n /\ rest[k] = t[k]
                             \/ rest[k] \in {46, 47}
  BY <1>10
<1>12. SubSeq(rest, Len(rest), Len(rest)) = WellKnown
  <2>1. Len(rest) \in Nat \ {0} /\ rest[Len(rest)] = 46
    BY <1>10
  <2>2. PICK x : x = SubSeq(rest, Len(rest), Len(rest))
    BY Zenon
  <2>3. x \in Seq(Byte) /\ Len(x) = 1 /\ x[1] = 46
    BY <1>10, <2>1, <2>2, Slice
  <2>4. x = <<46>>
    <3>1. <<46>> \in Seq(Byte) /\ Len(<<46>>) = 1 /\ <<46>>[1] = 46
      BY DEF Byte
    <3>2. Len(x) = Len(<<46>>) /\ \A k \in 1 .. Len(x) : x[k] = <<46>>[k]
      BY <2>3, <3>1
    <3> QED
      BY Zenon, <2>3, <3>1, <3>2, SameSequence
  <2> QED
    BY Zenon, <2>2, <2>4 DEF WellKnown
<1>13. ~has(m, 63) /\ ~has(m, 35) /\ valid_url_octets(m)
  <2>1. \A k \in 1 .. n : t[k] \in 33 .. 126 \ {92} /\ t[k] # 63 /\ t[k] # 35
    BY ZenonT(60), <1>1, <1>2, <1>9, <1>a DEF has, valid_url_octets
  <2>2. \A k \in 1 .. n + l :
            rest[k] \in 33 .. 126 \ {92} /\ rest[k] # 63 /\ rest[k] # 35
    <3> TAKE k \in 1 .. n + l
    <3>1. CASE k \in 1 .. n /\ rest[k] = t[k]
      BY <2>1, <3>1
    <3>2. CASE rest[k] = 46 \/ rest[k] = 47
      BY <3>2
    <3> QED
      BY <1>11, <3>1, <3>2, Zenon
  <2>3. m.rest = rest /\ Len(rest) = n + l
    BY <1>6, <1>9, <1>10, Zenon
  <2> QED
    BY <2>2, <2>3, Zenon DEF has, valid_url_octets
<1>14. authority(m) = authority(url)
  <2>1. PICK S : S = {47, 63, 35}
    BY Zenon
  <2>a. PICK x : x = next(t, 1, S)
    BY Zenon
  <2>2. 1 \in 1 .. Len(t) + 1 /\ 1 \in 1 .. Len(rest) + 1 /\ n = Len(t)
    BY <1>9, <1>10, <1>a
  <2>3. /\ x \in 1 .. n + 1
        /\ \A k \in 1 .. x - 1 : t[k] \notin S
        /\ x <= n => t[x] \in S
    BY Zenon, <2>a, <2>2, NextIs DEF IsNext
  <2>4. x = n + 1 => l = 2
    BY <1>10, <2>1, <2>3
  <2>5. IsNext(x, rest, 1, S)
    <3>1. x \in 1 .. Len(rest) + 1 /\ \A k \in 1 .. x - 1 : k \in 1 .. n
      BY <1>10, <2>3
    <3>2. x <= Len(rest) => rest[x] \in S
      BY <1>10, <2>1, <2>3, <2>4
    <3> QED
      BY Zenon, <1>10, <2>3, <3>1, <3>2 DEF IsNext
  <2>6. next(rest, 1, S) = x
    BY Zenon, <1>10, <2>2, <2>5, NextIs
  <2>7. SubSeq(rest, 1, x - 1) = SubSeq(t, 1, x - 1)
    BY <1>10, <2>2, <2>3
  <2> QED
    BY Zenon, <1>1, <1>6, <1>9, <1>a, <2>1, <2>a, <2>6, <2>7 DEF authority
<1>15. url_length(m) \in 1 .. MaxUrl
  <2>1. scheme_length(m) = scheme_length(url)
    BY Zenon, <1>1, <1>6 DEF scheme_length
  <2>2. scheme_length(url) \in Nat
    BY <1>1, Zenon DEF scheme_length
  <2>3. PICK w : w = url_length(url)
    BY Zenon
  <2>4. /\ url_length(m) = scheme_length(url) + Len(rest)
        /\ w = scheme_length(url) + n
        /\ w \in 1 .. MaxUrl /\ ~(l > MaxUrl - w)
    BY Zenon, <1>1, <1>2, <1>5, <1>6, <1>9, <2>1, <2>3 DEF url_length
  <2>5. url_length(m) = w + l /\ MaxUrl \in Nat
    BY <1>10, <2>2, <2>4, LimitAssumption, SMTT(30)
  <2> QED
    BY <1>10, <2>4, <2>5, SMTT(30)
<1>16. parse_url(m, allow, TRUE) = "ok"
  <2>1. /\ secure(m) <=> secure(url)
        /\ plain(m) <=> plain(url)
    <3>1. rest # <<>>
      BY <1>10
    <3> QED
      BY Zenon, <1>1, <1>6, <1>7, <1>9, <3>1 DEF secure, plain
  <2>2. named(m)
    BY <1>2, <1>14 DEF named
  <2> QED
    BY Zenon, <1>2, <1>13, <1>15, <2>1, <2>2 DEF parse_url
<1> QED
  BY Zenon, <1>4, <1>6, <1>9, <1>12, <1>13, <1>14, <1>16

-----------------------------------------------------------------------------
(* claims.c: scope strings                                                 *)

(* The words of a scope string, from position i on.                        *)
Blanks(s) == {0, Len(s) + 1} \cup {i \in 1 .. Len(s) : s[i] = 32}
WordsFrom(s, i) == {w \in Words(s) : w[1] >= i - 1}

\* Words are pairs of neighbouring blanks.
LEMMA IsWord ==
    ASSUME NEW s, NEW w
    PROVE  w \in Words(s) <=>
                /\ w \in Blanks(s) \X Blanks(s)
                /\ w[1] < w[2] /\ \A k \in w[1] + 1 .. w[2] - 1 : k \notin Blanks(s)
  BY Zenon DEF Words, Blanks

\* A blank position is an end of the text or has a blank.
LEMMA IsBlank ==
    ASSUME NEW s \in Seq(Byte), NEW k \in Nat
    PROVE  /\ k \in Blanks(s) <=> k = 0 \/ k = Len(s) + 1 \/ (k \in 1 .. Len(s) /\ s[k] = 32)
           /\ Blanks(s) \subseteq 0 .. Len(s) + 1
<1>1. Len(s) \in Nat
  OBVIOUS
<1>2. k \in Blanks(s) <=> k = 0 \/ k = Len(s) + 1 \/ (k \in 1 .. Len(s) /\ s[k] = 32)
  BY Zenon DEF Blanks
<1>3. Blanks(s) \subseteq 0 .. Len(s) + 1
  BY SMT, <1>1 DEF Blanks
<1> QED
  BY Zenon, <1>2, <1>3

(* The first word from a blank on ends at the next blank; the others are   *)
(* the words from there on.                                                *)
LEMMA FirstWord ==
    ASSUME NEW s \in Seq(Byte), NEW i \in 1 .. Len(s) + 1, i - 1 \in Blanks(s),
           NEW j, j = next(s, i, {32}), NEW w, w = <<i - 1, j>>
    PROVE  /\ j \in i .. Len(s) + 1 /\ j \in Blanks(s)
           /\ WordsFrom(s, i) = WordsFrom(s, j + 1) \cup {w}
           /\ w \notin WordsFrom(s, j + 1)
           /\ WordText(s, w) = SubSeq(s, i, j - 1)
<1>1. Len(s) \in Nat /\ i \in Nat
  OBVIOUS
<1>2. /\ j \in i .. Len(s) + 1
      /\ \A k \in i .. j - 1 : s[k] \notin {32}
      /\ j <= Len(s) => s[j] \in {32}
  <2>1. PICK B : B = {32}
    BY Zenon
  <2>2. IsNext(j, s, i, B)
    BY Zenon, <2>1, NextIs
  <2> QED
    BY Zenon, <2>1, <2>2 DEF IsNext
<1>3. j \in Nat
  BY <1>1, <1>2
<1>4. j \in Blanks(s)
  BY <1>1, <1>2, <1>3, IsBlank
<1>5. \A k \in i .. j - 1 : k \notin Blanks(s)
  <2> TAKE k \in i .. j - 1
  <2>1. k \in Nat /\ k # 0 /\ k # Len(s) + 1 /\ s[k] # 32
    BY <1>1, <1>2, <1>3
  <2> QED
    BY <2>1, IsBlank, Zenon
<1>6. Blanks(s) \subseteq 0 .. Len(s) + 1
  BY <1>1, IsBlank, Zenon
<1>7. w[1] = i - 1 /\ w[2] = j /\ w \in Blanks(s) \X Blanks(s)
  BY <1>4, Zenon
<1>8. w \in Words(s)
  <2>1. i - 1 < j /\ i - 1 + 1 = i
    BY <1>1, <1>2, <1>3
  <2> QED
    BY Zenon, <1>5, <1>7, <2>1, IsWord
<1>9. w \in WordsFrom(s, i)
  <2>1. i - 1 >= i - 1
    BY <1>1
  <2> QED
    BY Zenon, <1>7, <1>8, <2>1 DEF WordsFrom
<1>10. w \notin WordsFrom(s, j + 1)
  <2>1. ~(i - 1 >= (j + 1) - 1)
    BY <1>1, <1>2, <1>3
  <2> QED
    BY Zenon, <1>7, <2>1 DEF WordsFrom
<1>11. ASSUME NEW v \in WordsFrom(s, i), v # w PROVE v \in WordsFrom(s, j + 1)
  <2>1. v \in Words(s) /\ v[1] >= i - 1
    BY Zenon, <1>11 DEF WordsFrom
  <2>2. /\ v \in Blanks(s) \X Blanks(s)
        /\ v[1] < v[2] /\ \A k \in v[1] + 1 .. v[2] - 1 : k \notin Blanks(s)
    BY Zenon, <2>1, IsWord
  <2>3. v = <<v[1], v[2]>> /\ v[1] \in Blanks(s) /\ v[2] \in Blanks(s)
    BY <2>2
  <2>4. v[1] \in 0 .. Len(s) + 1 /\ v[2] \in 0 .. Len(s) + 1
    BY Zenon, <1>6, <2>3
  <2>5. v[1] # i - 1
    <3> SUFFICES ASSUME v[1] = i - 1 PROVE FALSE
      BY Zenon
    <3>1. v[2] \notin i .. j - 1
      BY Zenon, <1>5, <2>3
    <3>2. j \notin v[1] + 1 .. v[2] - 1
      BY Zenon, <1>4, <2>2
    <3>3. v[2] = j
      BY <1>1, <1>2, <1>3, <2>2, <2>4, <3>1, <3>2
    <3> QED
      BY Zenon, <1>11, <2>3, <3>3
  <2>6. v[1] \notin i .. j - 1
    BY Zenon, <1>5, <2>3
  <2>7. v[1] >= (j + 1) - 1
    BY <1>1, <1>2, <1>3, <2>1, <2>4, <2>5, <2>6, SMTT(30)
  <2> QED
    BY Zenon, <2>1, <2>7 DEF WordsFrom
<1>12. ASSUME NEW v \in WordsFrom(s, j + 1) PROVE v \in WordsFrom(s, i)
  <2>1. v \in Words(s) /\ v[1] >= (j + 1) - 1
    BY Zenon, <1>12 DEF WordsFrom
  <2>2. v \in Blanks(s) \X Blanks(s)
    BY Zenon, <2>1, IsWord
  <2>3. v[1] \in Blanks(s)
    BY <2>2, Zenon
  <2>4. v[1] \in 0 .. Len(s) + 1
    BY Zenon, <1>6, <2>3
  <2>5. v[1] >= i - 1
    BY <1>1, <1>2, <1>3, <2>1, <2>4
  <2> QED
    BY Zenon, <2>1, <2>5 DEF WordsFrom
<1>13. WordText(s, w) = SubSeq(s, i, j - 1)
  <2>1. i - 1 + 1 = i
    BY <1>1
  <2> QED
    BY Zenon, <1>7, <2>1 DEF WordText
<1> QED
  BY Zenon, <1>2, <1>4, <1>9, <1>10, <1>11, <1>12, <1>13

(* A text has finitely many words, and each is a text.                     *)
LEMMA WordsTypes ==
    ASSUME NEW s \in Seq(Byte)
    PROVE  /\ IsFiniteSet(Words(s)) /\ WordsFrom(s, 1) = Words(s)
           /\ WordsFrom(s, Len(s) + 2) = {}
           /\ \A i : IsFiniteSet(WordsFrom(s, i))
<1>1. Len(s) \in Nat
  OBVIOUS
<1>2. Blanks(s) \subseteq 0 .. Len(s) + 1
  BY <1>1, IsBlank, Zenon
<1>3. IsFiniteSet(0 .. Len(s) + 1)
  BY <1>1, FS_Interval
<1>4. IsFiniteSet((0 .. Len(s) + 1) \X (0 .. Len(s) + 1))
  BY <1>3, FS_Product, Zenon
<1>5. Words(s) \subseteq (0 .. Len(s) + 1) \X (0 .. Len(s) + 1)
  BY <1>2, IsWord
<1>6. IsFiniteSet(Words(s))
  BY Zenon, <1>4, <1>5, FS_Subset
<1>7. \A i : WordsFrom(s, i) \subseteq Words(s)
  BY Zenon DEF WordsFrom
<1>8. \A i : IsFiniteSet(WordsFrom(s, i))
  BY Zenon, <1>6, <1>7, FS_Subset
<1>9. ASSUME NEW w \in Words(s)
      PROVE  w[1] >= 1 - 1 /\ ~(w[1] >= (Len(s) + 2) - 1)
  <2>1. /\ w[1] \in 0 .. Len(s) + 1 /\ w[2] \in 0 .. Len(s) + 1 /\ w[1] < w[2]
    BY <1>5, IsWord, Zenon
  <2> QED
    BY <1>1, <2>1
<1>10. WordsFrom(s, 1) = Words(s) /\ WordsFrom(s, Len(s) + 2) = {}
  BY Zenon, <1>9 DEF WordsFrom
<1> QED
  BY Zenon, <1>6, <1>8, <1>10

(* The states of the loop of scope_string_contains, its results and a turn. *)
ScopeStates(s) ==
    [start : 1 .. Len(s) + 2, stored : Seq(Seq(0 .. 255)), found : BOOLEAN]
ScopeResults == [valid : BOOLEAN, found : BOOLEAN, stored : Seq(Seq(0 .. 255))]
ScopeEnd(s, at) == next(s, at.start, {32})
ScopeToken(s, at) == SubSeq(s, at.start, ScopeEnd(s, at) - 1)
ScopeStops(s, at) ==
    \/ Len(at.stored) >= MaxScopes
    \/ ~valid_scope_token(ScopeToken(s, at))
    \/ duplicate(at.stored, ScopeToken(s, at))
ScopeNext(s, required, at) ==
    [start |-> ScopeEnd(s, at) + 1, stored |-> Append(at.stored, ScopeToken(s, at)),
     found |-> at.found \/ ScopeToken(s, at) = required]
ScopeDone(at) == [valid |-> TRUE, found |-> at.found, stored |-> at.stored]
ScopeRefused(at) == [valid |-> FALSE, found |-> FALSE, stored |-> at.stored]

ScopeTurn(f, s, required, at) ==
    IF at.start > Len(s) + 1 THEN ScopeDone(at)
    ELSE IF ScopeStops(s, at) THEN ScopeRefused(at)
    ELSE f[ScopeNext(s, required, at)]

\* The next state is one, with a later start.
LEMMA ScopeStep ==
    ASSUME NEW s \in Seq(Byte), NEW required, NEW at \in ScopeStates(s),
           ~(at.start > Len(s) + 1)
    PROVE  /\ at.start \in 1 .. Len(s) + 1
           /\ ScopeEnd(s, at) \in at.start .. Len(s) + 1
           /\ ScopeToken(s, at) \in Seq(0 .. 255)
           /\ ScopeNext(s, required, at) \in ScopeStates(s)
<1>1. Len(s) \in Nat /\ at.start \in 1 .. Len(s) + 2 /\ at.stored \in Seq(Seq(0 .. 255))
  BY DEF ScopeStates
<1>2. at.start \in 1 .. Len(s) + 1
  BY <1>1
<1>3. PICK B : B = {32}
  BY Zenon
<1>4. PICK i : i = ScopeEnd(s, at)
  BY Zenon
<1>5. i \in at.start .. Len(s) + 1
  <2>1. i = next(s, at.start, B)
    BY Zenon, <1>3, <1>4 DEF ScopeEnd
  <2> QED
    BY Zenon, <1>2, <2>1, NextIs DEF IsNext
<1>6. PICK t : t = ScopeToken(s, at)
  BY Zenon
<1>7. t \in Seq(0 .. 255)
  <2>1. i - 1 \in at.start - 1 .. Len(s) /\ at.start \in 1 .. Len(s) + 1
    BY <1>1, <1>2, <1>5
  <2>2. SubSeq(s, at.start, i - 1) \in Seq(Byte)
    BY Zenon, <2>1, Slice
  <2> QED
    BY Zenon, <1>4, <1>6, <2>2 DEF ScopeToken, Byte
<1>8. Append(at.stored, t) \in Seq(Seq(0 .. 255))
  <2>1. PICK T : T = Seq(0 .. 255)
    BY Zenon
  <2> QED
    BY <1>1, <1>7, <2>1, Appended, ZenonT(60)
<1>9. i + 1 \in 1 .. Len(s) + 2
  BY <1>1, <1>2, <1>5
<1>10. (at.found \/ t = required) \in BOOLEAN
  BY Zenon
<1>11. ScopeNext(s, required, at) \in ScopeStates(s)
  BY Zenon, <1>4, <1>6, <1>8, <1>9, <1>10 DEF ScopeNext, ScopeStates
<1> QED
  BY Zenon, <1>2, <1>4, <1>5, <1>6, <1>7, <1>11

(* scope_string_contains is what the loop comes to.                        *)
LEMMA ScopesSolved ==
    ASSUME NEW s \in Seq(Byte), NEW required, s # <<>>
    PROVE  \E f : /\ \A at \in ScopeStates(s) : f[at] = ScopeTurn(f, s, required, at)
                  /\ scope_string_contains(s, required) =
                        f[[start |-> 1, stored |-> <<>>, found |-> FALSE]]
<1> DEFINE D == ScopeStates(s)
           Go(at) == ~(at.start > Len(s) + 1) /\ ~ScopeStops(s, at)
<1>1. scope_string_contains(s, required) =
        (CHOOSE f : f = [at \in D |-> ScopeTurn(f, s, required, at)])
            [[start |-> 1, stored |-> <<>>, found |-> FALSE]]
  BY Zenon DEF scope_string_contains, ScopeTurn, ScopeStates, ScopeEnd, ScopeToken,
               ScopeStops, ScopeNext, ScopeDone, ScopeRefused
<1>2. PICK rank, go, jump, base :
        /\ rank = [at \in D |-> Len(s) + 2 - at.start] /\ go = [at \in D |-> Go(at)]
        /\ jump = [at \in D |-> ScopeNext(s, required, at)]
        /\ base = [at \in D |-> IF at.start > Len(s) + 1 THEN ScopeDone(at)
                                ELSE ScopeRefused(at)]
  BY Zenon
<1>3. rank \in [D -> 0 .. Len(s) + 1] /\ Len(s) + 1 \in Nat
  <2>1. \A at \in D : Len(s) + 2 - at.start \in 0 .. Len(s) + 1
    BY DEF ScopeStates
  <2>2. Len(s) + 1 \in Nat
    OBVIOUS
  <2> QED
    BY Zenon, <1>2, <2>1, <2>2
<1>4. ASSUME NEW at \in D, Go(at)
      PROVE  /\ ScopeNext(s, required, at) \in D
             /\ Len(s) + 2 - ScopeNext(s, required, at).start < Len(s) + 2 - at.start
  <2>1. /\ ScopeNext(s, required, at) \in D
        /\ at.start \in 1 .. Len(s) + 1 /\ ScopeEnd(s, at) \in at.start .. Len(s) + 1
    BY Zenon, <1>4, ScopeStep
  <2>2. ScopeNext(s, required, at).start = ScopeEnd(s, at) + 1
    BY Zenon DEF ScopeNext
  <2> QED
    BY <2>1, <2>2
<1>5. \A at \in D : go[at] => jump[at] \in D /\ rank[jump[at]] < rank[at]
  BY Zenon, <1>2, <1>4
<1>6. \A at \in D : ~go[at] => base[at] \in ScopeResults
  <2>1. \A at \in D : ScopeDone(at) \in ScopeResults /\ ScopeRefused(at) \in ScopeResults
    BY Zenon DEF ScopeStates, ScopeResults, ScopeDone, ScopeRefused
  <2> QED
    BY Zenon, <1>2, <2>1
<1>7. PICK f : Computes(f, D, ScopeResults, go, jump, base)
  <2>1. Loop(D, ScopeResults, Len(s) + 1, rank, go, jump, base)
    BY Zenon, <1>3, <1>5, <1>6 DEF Loop
  <2> QED
    BY Zenon, <2>1, LoopExists
<1>8. ASSUME NEW at \in D PROVE f[at] = ScopeTurn(f, s, required, at)
  <2>1. f[at] = IF Go(at) THEN f[ScopeNext(s, required, at)]
                ELSE IF at.start > Len(s) + 1 THEN ScopeDone(at) ELSE ScopeRefused(at)
    BY Zenon, <1>2, <1>7 DEF Computes
  <2> QED
    BY Zenon, <2>1 DEF ScopeTurn
<1>9. f = [at \in D |-> ScopeTurn(f, s, required, at)]
  BY Zenon, <1>7, <1>8 DEF Computes
<1>10. PICK g : g = CHOOSE h : h = [at \in D |-> ScopeTurn(h, s, required, at)]
  BY Zenon
<1>11. g = [at \in D |-> ScopeTurn(g, s, required, at)]
  BY Zenon, <1>9, <1>10
<1>12. \A at \in D : g[at] = ScopeTurn(g, s, required, at)
  BY Zenon, <1>11
<1> QED
  BY Zenon, <1>1, <1>10, <1>12

(* The words W are tokens not stored yet, and differ from each other.      *)
Fresh(s, W, stored) ==
    /\ \A w \in W : valid_scope_token(WordText(s, w)) /\ ~duplicate(stored, WordText(s, w))
    /\ \A v, w \in W : WordText(s, v) = WordText(s, w) => v = w
GoodWords(s, i, stored) ==
    /\ Fresh(s, WordsFrom(s, i), stored)
    /\ Len(stored) + Cardinality(WordsFrom(s, i)) <= MaxScopes

\* A token just stored is the one duplicate more.
LEMMA StoredToken ==
    ASSUME NEW T, NEW stored \in Seq(T), NEW t \in T, NEW u
    PROVE  duplicate(Append(stored, t), u) <=> duplicate(stored, u) \/ t = u
<1>1. PICK a : a = Append(stored, t)
  BY Zenon
<1>2. /\ Len(stored) \in Nat /\ Len(a) = Len(stored) + 1
      /\ \A j \in 1 .. Len(stored) : a[j] = stored[j]
      /\ a[Len(stored) + 1] = t
  BY <1>1, Appended
<1>3. \A j : j \in 1 .. Len(a) <=> j \in 1 .. Len(stored) \/ j = Len(stored) + 1
  BY <1>2
<1> QED
  BY Zenon, <1>1, <1>2, <1>3 DEF duplicate

\* One word more is fresh when it is itself, and the others stay so after it.
LEMMA FreshStep ==
    ASSUME NEW s, NEW W, NEW w, w \notin W, NEW T, NEW stored \in Seq(T),
           WordText(s, w) \in T
    PROVE  Fresh(s, W \cup {w}, stored) <=>
                /\ valid_scope_token(WordText(s, w))
                /\ ~duplicate(stored, WordText(s, w))
                /\ Fresh(s, W, Append(stored, WordText(s, w)))
<1>1. \A u : duplicate(Append(stored, WordText(s, w)), u) <=>
                duplicate(stored, u) \/ WordText(s, w) = u
  BY Zenon, StoredToken
<1> QED
  BY Zenon, <1>1 DEF Fresh

(* A turn of the loop goes on when the next word is fresh and has a slot.  *)
LEMMA GoodStep ==
    ASSUME NEW s \in Seq(Byte), NEW at \in ScopeStates(s),
           at.start # Len(s) + 2, at.start - 1 \in Blanks(s)
    PROVE  /\ ScopeEnd(s, at) \in at.start .. Len(s) + 1
           /\ ScopeEnd(s, at) \in Blanks(s)
           /\ ScopeStops(s, at) => ~GoodWords(s, at.start, at.stored)
           /\ ~ScopeStops(s, at) =>
                (GoodWords(s, at.start, at.stored) <=>
                    GoodWords(s, ScopeEnd(s, at) + 1, Append(at.stored, ScopeToken(s, at))))
           /\ \E w \in WordsFrom(s, at.start) :
                /\ WordText(s, w) = ScopeToken(s, at)
                /\ WordsFrom(s, at.start) = WordsFrom(s, ScopeEnd(s, at) + 1) \cup {w}
<1>1. /\ at.start \in 1 .. Len(s) + 2 /\ at.stored \in Seq(Seq(0 .. 255))
      /\ Len(s) \in Nat
  BY DEF ScopeStates
<1>2. ~(at.start > Len(s) + 1) /\ at.start \in 1 .. Len(s) + 1
  BY <1>1
<1>3. PICK j, t : j = ScopeEnd(s, at) /\ t = ScopeToken(s, at)
  BY Zenon
<1>4. t \in Seq(0 .. 255)
  BY Zenon, <1>2, <1>3, ScopeStep
<1>5. PICK w : w = <<at.start - 1, j>>
  BY Zenon
<1>6. /\ j \in at.start .. Len(s) + 1 /\ j \in Blanks(s)
      /\ WordsFrom(s, at.start) = WordsFrom(s, j + 1) \cup {w}
      /\ w \notin WordsFrom(s, j + 1)
      /\ WordText(s, w) = t
  <2>1. j = next(s, at.start, {32}) /\ t = SubSeq(s, at.start, j - 1)
    BY Zenon, <1>3 DEF ScopeEnd, ScopeToken
  <2>2. PICK i : i = at.start
    BY Zenon
  <2>3. i \in 1 .. Len(s) + 1 /\ i - 1 \in Blanks(s) /\ j = next(s, i, {32})
        /\ w = <<i - 1, j>>
    BY Zenon, <1>2, <1>5, <2>1, <2>2
  <2>4. /\ j \in i .. Len(s) + 1 /\ j \in Blanks(s)
        /\ WordsFrom(s, i) = WordsFrom(s, j + 1) \cup {w}
        /\ w \notin WordsFrom(s, j + 1)
        /\ WordText(s, w) = SubSeq(s, i, j - 1)
    BY <2>3, FirstWord
  <2> QED
    BY Zenon, <2>1, <2>2, <2>4
<1>7. PICK W, T : W = WordsFrom(s, j + 1) /\ T = Seq(0 .. 255)
  BY Zenon
<1>8. /\ Cardinality(W \cup {w}) = Cardinality(W) + 1
      /\ Cardinality(W) \in Nat
  <2>1. IsFiniteSet(W) /\ w \notin W
    BY Zenon, <1>6, <1>7, WordsTypes
  <2>2. Cardinality(W) \in Nat
    BY Zenon, <2>1, FS_CardinalityType
  <2>3. Cardinality(W \cup {w}) = IF w \in W THEN Cardinality(W) ELSE Cardinality(W) + 1
    BY Zenon, <2>1, FS_AddElement
  <2> QED
    BY Zenon, <2>1, <2>2, <2>3
<1>9. Fresh(s, W \cup {w}, at.stored) <=>
        /\ valid_scope_token(t) /\ ~duplicate(at.stored, t)
        /\ Fresh(s, W, Append(at.stored, t))
  <2>1. PICK st : st = at.stored
    BY Zenon
  <2>2. st \in Seq(T) /\ WordText(s, w) \in T /\ w \notin W
    BY Zenon, <1>1, <1>4, <1>6, <1>7, <2>1
  <2>3. Fresh(s, W \cup {w}, st) <=>
                /\ valid_scope_token(WordText(s, w))
                /\ ~duplicate(st, WordText(s, w))
                /\ Fresh(s, W, Append(st, WordText(s, w)))
    BY ONLY Zenon, <2>2, FreshStep
  <2> QED
    BY Zenon, <1>6, <2>1, <2>3
<1>10. /\ Len(Append(at.stored, t)) = Len(at.stored) + 1 /\ Len(at.stored) \in Nat
  BY <1>1, <1>4, <1>7, Appended
<1>11. MaxScopes \in Nat
  BY LimitAssumption, Zenon
<1>12. PICK c, l, l1, c1 : /\ c = Cardinality(W) /\ l = Len(at.stored)
                           /\ l1 = Len(Append(at.stored, t)) /\ c1 = Cardinality(W \cup {w})
  BY Zenon
<1>13. /\ l >= MaxScopes => ~(l + c1 <= MaxScopes)
       /\ l + c1 <= MaxScopes <=> l1 + c <= MaxScopes
  BY <1>8, <1>10, <1>11, <1>12, SMTT(30)
<1>14. GoodWords(s, at.start, at.stored) <=> Fresh(s, W \cup {w}, at.stored) /\ l + c1 <= MaxScopes
  BY Zenon, <1>6, <1>7, <1>12 DEF GoodWords
<1>15. GoodWords(s, j + 1, Append(at.stored, t)) <=>
            Fresh(s, W, Append(at.stored, t)) /\ l1 + c <= MaxScopes
  BY Zenon, <1>7, <1>12 DEF GoodWords
<1>16. ScopeStops(s, at) <=>
            l >= MaxScopes \/ ~valid_scope_token(t) \/ duplicate(at.stored, t)
  BY Zenon, <1>3, <1>12 DEF ScopeStops
<1>17. w \in WordsFrom(s, at.start)
  BY Zenon, <1>6
<1> QED
  BY Zenon, <1>3, <1>6, <1>9, <1>13, <1>14, <1>15, <1>16, <1>17

(* What the loop of scope_string_contains comes to from a state.           *)
ScopeClaim(s, required, at, r) ==
    /\ Len(r.stored) <= MaxScopes
    /\ r.valid <=> GoodWords(s, at.start, at.stored)
    /\ r.found <=> /\ GoodWords(s, at.start, at.stored)
                   /\ at.found \/ \E w \in WordsFrom(s, at.start) : WordText(s, w) = required
ScopeReached(s, at) ==
    at.start - 1 \in Blanks(s) /\ Len(at.stored) <= MaxScopes

\* Past the end of the text.
LEMMA ScopeEnds ==
    ASSUME NEW s \in Seq(Byte), NEW required, NEW at \in ScopeStates(s),
           at.start = Len(s) + 2, ScopeReached(s, at)
    PROVE  ScopeClaim(s, required, at, ScopeDone(at))
<1>1. /\ at.stored \in Seq(Seq(0 .. 255)) /\ at.found \in BOOLEAN
  BY Zenon DEF ScopeStates
<1>2. WordsFrom(s, at.start) = {}
  BY Zenon, WordsTypes
<1>3. Len(at.stored) + Cardinality({}) <= MaxScopes
  <2>1. Len(at.stored) \in Nat /\ Len(at.stored) <= MaxScopes
    BY <1>1 DEF ScopeReached
  <2>2. Cardinality({}) = 0
    BY Zenon, FS_EmptySet
  <2>3. PICK c : c = Cardinality({})
    BY Zenon
  <2>4. c = 0
    BY Zenon, <2>2, <2>3
  <2>5. Len(at.stored) + c <= MaxScopes
    BY <2>1, <2>4, LimitAssumption
  <2> QED
    BY Zenon, <2>3, <2>5
<1>4. GoodWords(s, at.start, at.stored)
  BY Zenon, <1>2, <1>3 DEF GoodWords, Fresh
<1>5. /\ ScopeDone(at).stored = at.stored /\ ScopeDone(at).valid = TRUE
      /\ ScopeDone(at).found = at.found
  BY Zenon DEF ScopeDone
<1>6. Len(at.stored) <= MaxScopes
  BY Zenon DEF ScopeReached
<1> QED
  BY Zenon, <1>1, <1>2, <1>4, <1>5, <1>6 DEF ScopeClaim

\* At a token that is refused.
LEMMA ScopeRefuses ==
    ASSUME NEW s \in Seq(Byte), NEW required, NEW at \in ScopeStates(s),
           at.start # Len(s) + 2, ScopeReached(s, at), ScopeStops(s, at)
    PROVE  ScopeClaim(s, required, at, ScopeRefused(at))
<1>1. ~GoodWords(s, at.start, at.stored)
  BY Zenon, GoodStep DEF ScopeReached
<1>2. /\ ScopeRefused(at).stored = at.stored /\ ScopeRefused(at).valid = FALSE
      /\ ScopeRefused(at).found = FALSE
  BY Zenon DEF ScopeRefused
<1> QED
  BY Zenon, <1>1, <1>2 DEF ScopeClaim, ScopeReached

\* At a token that is stored.
LEMMA ScopeGoesOn ==
    ASSUME NEW s \in Seq(Byte), NEW required, NEW at \in ScopeStates(s),
           at.start # Len(s) + 2, ScopeReached(s, at), ~ScopeStops(s, at), NEW r
    PROVE  /\ ScopeNext(s, required, at) \in ScopeStates(s)
           /\ ScopeNext(s, required, at).start > at.start
           /\ ScopeReached(s, ScopeNext(s, required, at))
           /\ ScopeClaim(s, required, ScopeNext(s, required, at), r) =>
                ScopeClaim(s, required, at, r)
<1>1. /\ at.start \in 1 .. Len(s) + 2 /\ at.stored \in Seq(Seq(0 .. 255))
      /\ Len(s) \in Nat /\ at.found \in BOOLEAN
  BY DEF ScopeStates
<1>2. ~(at.start > Len(s) + 1)
  BY <1>1
<1>3. PICK on, j, t, st : /\ on = ScopeNext(s, required, at) /\ j = ScopeEnd(s, at)
                          /\ t = ScopeToken(s, at) /\ st = Append(at.stored, t)
  BY Zenon
<1>4. on.start = j + 1 /\ on.stored = st /\ on.found = (at.found \/ t = required)
  BY <1>3, Zenon DEF ScopeNext
<1>5. on \in ScopeStates(s) /\ t \in Seq(0 .. 255)
  BY Zenon, <1>2, <1>3, ScopeStep
<1>6. /\ j \in at.start .. Len(s) + 1 /\ j \in Blanks(s)
      /\ GoodWords(s, at.start, at.stored) <=> GoodWords(s, j + 1, st)
      /\ \E w \in WordsFrom(s, at.start) :
            /\ WordText(s, w) = t
            /\ WordsFrom(s, at.start) = WordsFrom(s, j + 1) \cup {w}
  BY Zenon, <1>3, GoodStep DEF ScopeReached
<1>7. on.start > at.start /\ on.start - 1 = j
  <2>1. j \in at.start .. Len(s) + 1 /\ on.start = j + 1
    BY Zenon, <1>4, <1>6
  <2> QED
    BY <1>1, <2>1
<1>8. Len(st) <= MaxScopes
  <2>1. Len(st) = Len(at.stored) + 1 /\ Len(at.stored) \in Nat
    BY <1>1, <1>3, <1>5, Appended
  <2>2. ~(Len(at.stored) >= MaxScopes)
    BY Zenon DEF ScopeStops
  <2>3. MaxScopes \in Nat
    BY LimitAssumption, Zenon
  <2> QED
    BY <2>1, <2>2, <2>3
<1>9. ScopeReached(s, on)
  BY Zenon, <1>4, <1>6, <1>7, <1>8 DEF ScopeReached
<1>10. (at.found \/ \E w \in WordsFrom(s, at.start) : WordText(s, w) = required) <=>
       (on.found \/ \E w \in WordsFrom(s, on.start) : WordText(s, w) = required)
  BY Zenon, <1>4, <1>6
<1>11. GoodWords(s, at.start, at.stored) <=> GoodWords(s, on.start, on.stored)
  BY Zenon, <1>4, <1>6
<1>12. ScopeClaim(s, required, on, r) => ScopeClaim(s, required, at, r)
  BY Zenon, <1>10, <1>11 DEF ScopeClaim
<1> QED
  BY Zenon, <1>3, <1>5, <1>7, <1>9, <1>12

(* From every state at a word the loop finds what there is.                *)
LEMMA ScopeLoop ==
    ASSUME NEW s \in Seq(Byte), NEW required, NEW f,
           \A at \in ScopeStates(s) : f[at] = ScopeTurn(f, s, required, at)
    PROVE  \A at \in ScopeStates(s) :
                ScopeReached(s, at) => ScopeClaim(s, required, at, f[at])
<1> DEFINE S == {m \in Nat : \A at \in ScopeStates(s) :
                    (Len(s) + 2) - at.start <= m /\ ScopeReached(s, at) =>
                        ScopeClaim(s, required, at, f[at])}
<1>1. Len(s) \in Nat
  OBVIOUS
<1>2. ASSUME NEW at \in ScopeStates(s)
      PROVE  /\ at.start \in 1 .. Len(s) + 2
             /\ at.start > Len(s) + 1 <=> at.start = Len(s) + 2
             /\ (Len(s) + 2) - at.start <= 0 => at.start = Len(s) + 2
             /\ (Len(s) + 2) - at.start <= Len(s) + 1
  <2>1. at.start \in 1 .. Len(s) + 2
    BY Zenon DEF ScopeStates
  <2> QED
    BY <1>1, <2>1
<1>3. ASSUME NEW at \in ScopeStates(s), at.start = Len(s) + 2, ScopeReached(s, at)
      PROVE  ScopeClaim(s, required, at, f[at])
  <2>1. f[at] = ScopeDone(at)
    BY Zenon, <1>2, <1>3 DEF ScopeTurn
  <2> QED
    BY Zenon, <1>3, <2>1, ScopeEnds
<1>4. 0 \in S
  BY Zenon, <1>2, <1>3
<1>5. ASSUME NEW m \in Nat, m \in S PROVE m + 1 \in S
  <2>1. ASSUME NEW at \in ScopeStates(s), (Len(s) + 2) - at.start <= m + 1,
               ScopeReached(s, at), at.start # Len(s) + 2, ~ScopeStops(s, at)
        PROVE  ScopeClaim(s, required, at, f[at])
    <3>1. PICK on : on = ScopeNext(s, required, at)
      BY Zenon
    <3>2. /\ on \in ScopeStates(s) /\ on.start > at.start /\ ScopeReached(s, on)
          /\ ScopeClaim(s, required, on, f[on]) => ScopeClaim(s, required, at, f[on])
      BY Zenon, <2>1, <3>1, ScopeGoesOn
    <3>3. f[at] = f[on]
      BY Zenon, <1>2, <2>1, <3>1 DEF ScopeTurn
    <3>4. (Len(s) + 2) - on.start <= m
      <4>1. on.start \in 1 .. Len(s) + 2 /\ at.start \in 1 .. Len(s) + 2
        BY Zenon, <1>2, <3>2
      <4> QED
        BY <1>1, <2>1, <3>2, <4>1
    <3> QED
      BY Zenon, <1>5, <3>2, <3>3, <3>4
  <2>2. ASSUME NEW at \in ScopeStates(s), ScopeReached(s, at),
               at.start # Len(s) + 2, ScopeStops(s, at)
        PROVE  ScopeClaim(s, required, at, f[at])
    <3>1. f[at] = ScopeRefused(at)
      BY Zenon, <1>2, <2>2 DEF ScopeTurn
    <3> QED
      BY Zenon, <2>2, <3>1, ScopeRefuses
  <2>3. m + 1 \in Nat
    OBVIOUS
  <2> QED
    BY Zenon, <1>3, <2>1, <2>2, <2>3
<1>6. \A m \in Nat : m \in S
  BY Zenon, <1>4, <1>5, Induction
<1>7. Len(s) + 1 \in S
  <2>1. Len(s) + 1 \in Nat
    OBVIOUS
  <2> QED
    BY Zenon, <1>6, <2>1
<1> QED
  BY Zenon, <1>2, <1>7

(* The words differ in their texts when there are as many texts.           *)
LEMMA WordsApart ==
    ASSUME NEW s \in Seq(Byte)
    PROVE  Cardinality({WordText(s, w) : w \in Words(s)}) = Cardinality(Words(s)) <=>
                \A v, w \in Words(s) : WordText(s, v) = WordText(s, w) => v = w
<1>1. PICK W : W = Words(s)
  BY Zenon
<1>2. PICK T : T = {WordText(s, w) : w \in W}
  BY Zenon
<1>3. PICK f : f = [w \in W |-> WordText(s, w)]
  BY Zenon
<1>4. f \in [W -> T] /\ \A t \in T : \E w \in W : f[w] = t
  BY Zenon, <1>2, <1>3
<1>5. f \in Surjection(W, T)
  BY Zenon, <1>4 DEF Surjection
<1>6. IsFiniteSet(W)
  BY Zenon, <1>1, WordsTypes
<1>7. Cardinality(T) = Cardinality(W) <=> f \in Injection(W, T)
  BY Zenon, <1>5, <1>6, FS_Surjection
<1>8. f \in Injection(W, T) <=> \A v, w \in W : f[v] = f[w] => v = w
  BY Zenon, <1>4 DEF Injection, IsInjective
<1> QED
  BY Zenon, <1>1, <1>2, <1>3, <1>7, <1>8

(* Nothing is stored at the start of the loop.                             *)
LEMMA GoodStart ==
    ASSUME NEW s \in Seq(Byte)
    PROVE  GoodWords(s, 1, <<>>) <=>
                /\ \A t \in {WordText(s, w) : w \in Words(s)} : valid_scope_token(t)
                /\ Cardinality({WordText(s, w) : w \in Words(s)}) = Cardinality(Words(s))
                /\ Cardinality(Words(s)) <= MaxScopes
<1>1. WordsFrom(s, 1) = Words(s) /\ IsFiniteSet(Words(s))
  BY Zenon, WordsTypes
<1>2. \A t : ~duplicate(<<>>, t)
  BY DEF duplicate
<1>3. Len(<<>>) + Cardinality(Words(s)) = Cardinality(Words(s))
  <2>1. PICK c : c = Cardinality(Words(s))
    BY Zenon
  <2>2. c \in Nat
    BY Zenon, <1>1, <2>1, FS_CardinalityType
  <2>3. Len(<<>>) + c = c
    BY <2>2
  <2> QED
    BY Zenon, <2>1, <2>3
<1> QED
  <2> DEFINE V == \A w \in Words(s) : valid_scope_token(WordText(s, w))
             A == \A v, w \in Words(s) : WordText(s, v) = WordText(s, w) => v = w
  <2>1. Fresh(s, Words(s), <<>>) <=> V /\ A
    BY Zenon, <1>2 DEF Fresh
  <2>2. GoodWords(s, 1, <<>>) <=> Fresh(s, Words(s), <<>>) /\ Cardinality(Words(s)) <= MaxScopes
    BY Zenon, <1>1, <1>3 DEF GoodWords
  <2>3. V <=> \A t \in {WordText(s, w) : w \in Words(s)} : valid_scope_token(t)
    BY Zenon
  <2>4. A <=> Cardinality({WordText(s, w) : w \in Words(s)}) = Cardinality(Words(s))
    BY Zenon, WordsApart
  <2> HIDE DEF V, A
  <2> QED
    BY Zenon, <2>1, <2>2, <2>3, <2>4

(* A text that is not empty.                                               *)
LEMMA ScopesFound ==
    ASSUME NEW s \in Seq(Byte), s # <<>>, NEW required, NEW r,
           r = scope_string_contains(s, required)
    PROVE  /\ Len(r.stored) <= MaxScopes
           /\ r.valid <=> GoodWords(s, 1, <<>>)
           /\ r.found <=> /\ GoodWords(s, 1, <<>>)
                          /\ \E w \in Words(s) : WordText(s, w) = required
<1>1. PICK at : at = [start |-> 1, stored |-> <<>>, found |-> FALSE]
  BY Zenon
<1>2. at.start = 1 /\ at.stored = <<>> /\ at.found = FALSE
  BY <1>1, Zenon
<1>3. at \in ScopeStates(s)
  BY <1>1 DEF ScopeStates
<1>4. ScopeReached(s, at)
  <2>1. 1 - 1 \in Blanks(s)
    BY IsBlank
  <2>2. Len(<<>>) <= MaxScopes
    BY LimitAssumption
  <2> QED
    BY Zenon, <1>2, <2>1, <2>2 DEF ScopeReached
<1>5. PICK f : /\ \A a \in ScopeStates(s) : f[a] = ScopeTurn(f, s, required, a)
               /\ r = f[at]
  BY Zenon, <1>1, ScopesSolved
<1>6. ScopeClaim(s, required, at, r)
  BY Zenon, <1>3, <1>4, <1>5, ScopeLoop
<1>7. WordsFrom(s, 1) = Words(s)
  BY Zenon, WordsTypes
<1> QED
  BY Zenon, <1>2, <1>6, <1>7 DEF ScopeClaim

(* The one word of an empty text is no token.                              *)
LEMMA ScopesEmpty ==
    ASSUME NEW required, NEW r, r = scope_string_contains(<<>>, required)
    PROVE  /\ Len(r.stored) <= MaxScopes
           /\ r.valid <=> GoodWords(<<>>, 1, <<>>)
           /\ r.found <=> /\ GoodWords(<<>>, 1, <<>>)
                          /\ \E w \in Words(<<>>) : WordText(<<>>, w) = required
<1>1. r = [valid |-> FALSE, found |-> FALSE, stored |-> <<>>]
  BY Zenon DEF scope_string_contains
<1>2. r.valid = FALSE /\ r.found = FALSE /\ Len(r.stored) <= MaxScopes
  BY <1>1, LimitAssumption
<1>3. PICK s : s = <<>>
  BY Zenon
<1>4. PICK w : w = <<1 - 1, next(s, 1, {32})>>
  BY Zenon
<1>5. s \in Seq(Byte) /\ 1 \in 1 .. Len(s) + 1 /\ 1 - 1 \in Blanks(s)
  BY <1>3 DEF Blanks
<1>6. PICK j : j = next(s, 1, {32})
  BY Zenon
<1>7. /\ j \in 1 .. Len(s) + 1 /\ w \in WordsFrom(s, 1)
      /\ WordText(s, w) = SubSeq(s, 1, j - 1)
  BY <1>4, <1>5, <1>6, FirstWord
<1>8. j = 1
  BY <1>3, <1>7
<1>9. SubSeq(s, 1, j - 1) = <<>>
  BY <1>3, <1>8
<1>10. ~GoodWords(s, 1, <<>>)
  BY Zenon, <1>7, <1>9 DEF GoodWords, Fresh, valid_scope_token
<1> QED
  BY Zenon, <1>2, <1>3, <1>10

(* ScopesExact follows from the types of the inputs.                       *)
LEMMA Scopes == InputOK => ScopesExact
<1> SUFFICES ASSUME InputOK PROVE ScopesExact
  BY Zenon
<1>1. text \in Seq(Byte)
  BY Zenon DEF InputOK
<1>2. ASSUME NEW required, NEW r, r = scope_string_contains(text, required)
      PROVE  /\ Len(r.stored) <= MaxScopes
             /\ r.valid <=> GoodWords(text, 1, <<>>)
             /\ r.found <=> /\ GoodWords(text, 1, <<>>)
                            /\ \E w \in Words(text) : WordText(text, w) = required
  BY Zenon, <1>1, <1>2, ScopesFound, ScopesEmpty
<1> QED
  BY Zenon, <1>1, <1>2, GoodStart DEF ScopesExact

-----------------------------------------------------------------------------
(* policy.c, claims.c, http_transport.c: lists                             *)

(* The entries of a list.  t is the text from p to q, within i .. n - 1,   *)
(* and only Blank is around it.                                            *)
Within(t, s, i, n, Blank, p, q) ==
    /\ p \in i .. n - 1 /\ q \in p .. n - 1 /\ t = SubSeq(s, p, q)
    /\ s[p] \notin Blank /\ s[q] \notin Blank
    /\ \A k \in i .. p - 1 : s[k] \in Blank
    /\ \A k \in q + 1 .. n - 1 : s[k] \in Blank
AllBlank(s, i, n, Blank) == \A k \in i .. n - 1 : s[k] \in Blank
Trimmed(t, s, i, n, Blank) ==
    \/ t = <<>> /\ AllBlank(s, i, n, Blank)
    \/ \E p, q \in Nat : Within(t, s, i, n, Blank, p, q)

\* The two ends of a trimmed text are determined.
LEMMA WithinSame ==
    ASSUME NEW s \in Seq(Byte), NEW Blank, NEW i \in 1 .. Len(s) + 1, NEW n \in i .. Len(s) + 1,
           NEW t, NEW p \in Nat, NEW q \in Nat, Within(t, s, i, n, Blank, p, q),
           NEW u, NEW p2 \in Nat, NEW q2 \in Nat, Within(u, s, i, n, Blank, p2, q2)
    PROVE  t = u
<1>1. /\ i \in Nat /\ n \in Nat
  OBVIOUS
<1>2. /\ p \in i .. n - 1 /\ q \in p .. n - 1 /\ t = SubSeq(s, p, q)
      /\ p2 \in i .. n - 1 /\ q2 \in p2 .. n - 1 /\ u = SubSeq(s, p2, q2)
  BY Zenon DEF Within
<1>3. p \notin i .. p2 - 1 /\ p2 \notin i .. p - 1
  BY Zenon DEF Within
<1>4. q \notin q2 + 1 .. n - 1 /\ q2 \notin q + 1 .. n - 1
  BY Zenon DEF Within
<1>5. p = p2 /\ q = q2
  BY <1>1, <1>2, <1>3, <1>4
<1> QED
  BY Zenon, <1>2, <1>5

\* One text only is trimmed; it is empty when all is blank.
LEMMA TrimmedSame ==
    ASSUME NEW s \in Seq(Byte), NEW Blank, NEW i \in 1 .. Len(s) + 1, NEW n \in i .. Len(s) + 1,
           NEW t, Trimmed(t, s, i, n, Blank), NEW u, Trimmed(u, s, i, n, Blank)
    PROVE  t = u
<1>1. ASSUME NEW v, NEW p \in Nat, NEW q \in Nat, Within(v, s, i, n, Blank, p, q)
      PROVE  ~AllBlank(s, i, n, Blank)
  BY Zenon, <1>1 DEF Within, AllBlank
<1> QED
  BY Zenon, <1>1, WithinSame DEF Trimmed

\* A text that is the bytes p to q of another is not empty.
IsPart(t, s, p, q) ==
    /\ t # <<>> /\ t \in Seq(Byte) /\ t = SubSeq(s, p, q)
    /\ Len(t) = q + 1 - p /\ t[1] = s[p] /\ t[Len(t)] = s[q]
    /\ p \in 1 .. Len(s) /\ q \in p .. Len(s)

\* A text within has bytes, so is not empty.
LEMMA WithinText ==
    ASSUME NEW s \in Seq(Byte), NEW Blank, NEW i \in 1 .. Len(s) + 1, NEW n \in i .. Len(s) + 1,
           NEW t, NEW p \in Nat, NEW q \in Nat, Within(t, s, i, n, Blank, p, q)
    PROVE  IsPart(t, s, p, q)
<1>1. /\ p \in i .. n - 1 /\ q \in p .. n - 1 /\ t = SubSeq(s, p, q)
  BY Zenon DEF Within
<1>2. p \in 1 .. Len(s) /\ q \in p .. Len(s) /\ q \in 0 .. Len(s)
  BY <1>1
<1>3. /\ t \in Seq(Byte) /\ Len(t) = q + 1 - p /\ t[1] = s[p] /\ t[Len(t)] = s[q]
  <2>1. p \in 1 .. Len(s) + 1 /\ q \in p - 1 .. Len(s)
    BY <1>2
  <2>2. /\ t \in Seq(Byte) /\ Len(t) = q - p + 1
        /\ \A k \in 1 .. q - p + 1 : t[k] = s[p + k - 1]
    BY Zenon, <1>1, <2>1, Slice
  <2>3. /\ 1 \in 1 .. q - p + 1 /\ p + 1 - 1 = p /\ Len(t) = q + 1 - p
        /\ Len(t) \in 1 .. q - p + 1 /\ p + Len(t) - 1 = q
    BY <1>2, <2>2
  <2>4. t[1] = s[p + 1 - 1] /\ t[Len(t)] = s[p + Len(t) - 1]
    BY Zenon, <2>2, <2>3
  <2> QED
    BY Zenon, <2>2, <2>3, <2>4
<1>4. Len(t) # 0
  BY <1>2, <1>3
<1>5. t # <<>>
  BY <1>4
<1> QED
  BY Zenon, <1>1, <1>2, <1>3, <1>5 DEF IsPart

\* The greatest of finitely many numbers.
LEMMA Greatest ==
    ASSUME NEW n \in Nat, NEW P \in SUBSET (0 .. n), P # {}, NEW m,
           m = CHOOSE j \in P : \A k \in P : k <= j
    PROVE  m \in P /\ \A k \in P : k <= m
<1>1. PICK Q : Q = {n - j : j \in P}
  BY Zenon
<1>2. Q \in SUBSET Nat /\ Q # {}
  <2>1. \A j \in P : n - j \in Nat
    OBVIOUS
  <2> QED
    BY Zenon, <1>1, <2>1
<1>3. PICK l \in Q : \A k \in Q : l <= k
  BY Zenon, <1>2, Least
<1>4. PICK j \in P : l = n - j
  BY Zenon, <1>1, <1>3
<1>5. \A k \in P : n - j <= n - k
  BY Zenon, <1>1, <1>3, <1>4
<1>6. \A k \in P : k <= j
  BY <1>4, <1>5
<1> QED
  BY Zenon, <1>4, <1>6

(* entry trims the text up to the next comma.                              *)
LEMMA EntryTrims ==
    ASSUME NEW s \in Seq(Byte), NEW i \in 1 .. Len(s) + 1, NEW Blank, 44 \notin Blank,
           NEW n, n = next(s, i, Comma)
    PROVE  /\ IsNext(n, s, i, Comma) /\ n \in i .. Len(s) + 1
           /\ entry(s, i, Blank).end = n
           /\ Trimmed(entry(s, i, Blank).text, s, i, n, Blank)
<1>1. Len(s) \in Nat /\ i \in Nat
  OBVIOUS
<1>2. IsNext(n, s, i, Comma)
  BY Zenon, NextIs
<1>3. n \in i .. Len(s) + 1 /\ n \in Nat
  BY <1>1, <1>2 DEF IsNext
<1>4. PICK B : B = (0 .. 255) \ Blank
  BY Zenon
<1>5. PICK first : first = next(s, i, B)
  BY Zenon
<1>6. PICK last : last = {j \in first .. n - 1 : s[j] \notin Blank}
  BY Zenon
<1>7. PICK q : q = CHOOSE j \in last : \A k \in last : k <= j
  BY Zenon
<1>8. PICK e : e = entry(s, i, Blank)
  BY Zenon
<1>9. e = [end |-> n, text |-> IF last = {} THEN <<>> ELSE SubSeq(s, first, q)]
  BY <1>4, <1>5, <1>6, <1>7, <1>8 DEF entry
<1>10. e.end = n /\ e.text = IF last = {} THEN <<>> ELSE SubSeq(s, first, q)
  BY <1>9, Zenon
<1>11. IsNext(first, s, i, B)
  BY Zenon, <1>5, NextIs
<1>12. first \in i .. Len(s) + 1 /\ first \in Nat
  BY <1>1, <1>11 DEF IsNext
<1>13. \A k \in i .. Len(s) : s[k] \in B <=> s[k] \notin Blank
  <2>1. \A k \in i .. Len(s) : s[k] \in 0 .. 255
    <3> TAKE k \in i .. Len(s)
    <3>1. k \in 1 .. Len(s)
      BY <1>1
    <3>2. s[k] \in Byte
      BY <3>1
    <3> QED
      BY <3>2, Zenon DEF Byte
  <2> QED
    BY <1>4, <2>1, Zenon
<1>14. \A k \in i .. first - 1 : s[k] \in Blank
  <2>1. \A k \in i .. first - 1 : k \in i .. Len(s)
    BY <1>1, <1>12
  <2> QED
    BY Zenon, <1>11, <1>13, <2>1 DEF IsNext
<1>15. CASE last = {}
  <2>1. ASSUME NEW k \in i .. n - 1 PROVE s[k] \in Blank
    <3>1. k \in i .. first - 1 \/ k \in first .. n - 1
      BY <1>1, <1>3, <1>12
    <3> QED
      BY Zenon, <1>6, <1>14, <1>15, <3>1
  <2>2. e.text = <<>>
    BY Zenon, <1>10, <1>15
  <2> QED
    BY Zenon, <1>2, <1>3, <1>8, <1>10, <2>1, <2>2 DEF Trimmed, AllBlank
<1>16. CASE last # {}
  <2>1. last \in SUBSET (0 .. Len(s) + 1)
    BY <1>1, <1>3, <1>6, <1>12
  <2>2. q \in last /\ \A k \in last : k <= q
    <3>1. Len(s) + 1 \in Nat
      OBVIOUS
    <3> QED
      BY Zenon, <1>7, <1>16, <2>1, <3>1, Greatest
  <2>3. q \in first .. n - 1 /\ s[q] \notin Blank
    BY Zenon, <1>6, <2>2
  <2>4. q \in Nat /\ first \in i .. n - 1 /\ first <= Len(s) /\ first \in i .. Len(s)
    BY <1>1, <1>3, <1>12, <2>3
  <2>5. s[first] \notin Blank
    BY Zenon, <1>11, <1>13, <2>4 DEF IsNext
  <2>6. ASSUME NEW k \in q + 1 .. n - 1 PROVE s[k] \in Blank
    <3>1. k \in first .. n - 1 /\ ~(k <= q)
      BY <1>3, <1>12, <2>3, <2>4
    <3> QED
      BY Zenon, <1>6, <2>2, <3>1
  <2>7. e.text = SubSeq(s, first, q)
    BY Zenon, <1>10, <1>16
  <2>8. Within(e.text, s, i, n, Blank, first, q)
    BY Zenon, <1>14, <2>3, <2>4, <2>5, <2>6, <2>7 DEF Within
  <2> QED
    BY Zenon, <1>2, <1>3, <1>8, <1>10, <1>12, <2>4, <2>8 DEF Trimmed
<1> QED
  BY Zenon, <1>15, <1>16

(* Where the entries of a list start.                                      *)
Starts(s, i) == {a \in i .. Len(s) : a = 1 \/ s[a - 1] \in Comma}
IsStart(s, i) == i \in 1 .. Len(s) + 1 /\ (i = 1 \/ s[i - 1] \in Comma)

\* After the entry at i the next one starts behind its comma.
LEMMA StartStep ==
    ASSUME NEW s \in Seq(Byte), NEW i, IsStart(s, i), i <= Len(s), NEW n, n = next(s, i, Comma)
    PROVE  /\ n \in i .. Len(s) + 1
           /\ n <= Len(s) => IsStart(s, n + 1)
           /\ n > Len(s) => Starts(s, n + 1) = {}
           /\ Starts(s, i) = {i} \cup Starts(s, n + 1)
<1>1. Len(s) \in Nat /\ i \in 1 .. Len(s) + 1 /\ i \in Nat /\ i \in 1 .. Len(s)
  <2>1. i \in 1 .. Len(s) + 1 /\ Len(s) \in Nat
    BY DEF IsStart
  <2> QED
    BY <2>1
<1>2. IsNext(n, s, i, Comma)
  BY Zenon, <1>1, NextIs
<1>3. n \in i .. Len(s) + 1 /\ n \in Nat
  BY <1>1, <1>2 DEF IsNext
<1>4. n <= Len(s) => IsStart(s, n + 1)
  <2>1. n <= Len(s) => n + 1 \in 1 .. Len(s) + 1 /\ (n + 1) - 1 = n
    BY <1>1, <1>3
  <2> QED
    BY Zenon, <1>2, <2>1 DEF IsStart, IsNext
<1>5. n > Len(s) => Starts(s, n + 1) = {}
  <2>1. n > Len(s) => \A a : a \notin n + 1 .. Len(s)
    BY <1>1, <1>3
  <2> QED
    BY Zenon, <2>1 DEF Starts
<1>6. i \in Starts(s, i)
  <2>1. i \in i .. Len(s)
    BY <1>1
  <2> QED
    BY Zenon, <2>1 DEF Starts, IsStart
<1>7. \A a \in n + 1 .. Len(s) : a \in i .. Len(s)
  BY <1>1, <1>3
<1>8. ASSUME NEW a \in Starts(s, i), a # i PROVE a \in Starts(s, n + 1)
  <2>1. a \in i .. Len(s) /\ (a = 1 \/ s[a - 1] \in Comma)
    BY Zenon DEF Starts
  <2>2. a # 1 /\ (a \notin n + 1 .. Len(s) => a - 1 \in i .. n - 1)
    BY <1>1, <1>3, <1>8, <2>1
  <2>3. a \in n + 1 .. Len(s)
    BY Zenon, <1>2, <2>1, <2>2 DEF IsNext
  <2> QED
    BY Zenon, <2>1, <2>3 DEF Starts
<1>9. Starts(s, n + 1) \subseteq Starts(s, i)
  BY Zenon, <1>7 DEF Starts
<1> QED
  BY Zenon, <1>3, <1>4, <1>5, <1>6, <1>8, <1>9

\* A start is one of the places an entry may begin.
LEMMA StartsAre ==
    ASSUME NEW s \in Seq(Byte), NEW a \in Starts(s, 1)
    PROVE  IsStart(s, a) /\ a \in 1 .. Len(s) /\ a \in 1 .. Len(s) + 1
<1>1. a \in 1 .. Len(s) /\ (a = 1 \/ s[a - 1] \in Comma)
  BY Zenon DEF Starts
<1>2. a \in 1 .. Len(s) + 1
  BY <1>1
<1> QED
  BY Zenon, <1>1, <1>2 DEF IsStart

(* A listed text is the text of an entry.                                  *)
LEMMA ListedEntry ==
    ASSUME NEW s \in Seq(Byte), NEW Blank, 44 \notin Blank, NEW t, Listed(t, s, Blank)
    PROVE  t # <<>> /\ \E a \in Starts(s, 1) : entry(s, a, Blank).text = t
<1>1. Len(s) \in Nat
  OBVIOUS
<1>2. PICK p \in 1 .. Len(s) : \E q \in p .. Len(s) :
        /\ t = SubSeq(s, p, q)
        /\ 44 \notin {s[k] : k \in p .. q}
        /\ s[p] \notin Blank /\ s[q] \notin Blank
        /\ \E a \in 0 .. p - 1 : (a = 0 \/ s[a] = 44) /\ \A k \in a + 1 .. p - 1 : s[k] \in Blank
        /\ \E b \in q + 1 .. Len(s) + 1 :
                (b = Len(s) + 1 \/ s[b] = 44) /\ \A k \in q + 1 .. b - 1 : s[k] \in Blank
  BY Zenon DEF Listed
<1>3. PICK q \in p .. Len(s) :
        /\ t = SubSeq(s, p, q)
        /\ 44 \notin {s[k] : k \in p .. q}
        /\ s[p] \notin Blank /\ s[q] \notin Blank
        /\ \E a \in 0 .. p - 1 : (a = 0 \/ s[a] = 44) /\ \A k \in a + 1 .. p - 1 : s[k] \in Blank
        /\ \E b \in q + 1 .. Len(s) + 1 :
                (b = Len(s) + 1 \/ s[b] = 44) /\ \A k \in q + 1 .. b - 1 : s[k] \in Blank
  BY Zenon, <1>2
<1>4. PICK a0 \in 0 .. p - 1 :
        (a0 = 0 \/ s[a0] = 44) /\ \A k \in a0 + 1 .. p - 1 : s[k] \in Blank
  BY Zenon, <1>3
<1>5. PICK n \in q + 1 .. Len(s) + 1 :
        (n = Len(s) + 1 \/ s[n] = 44) /\ \A k \in q + 1 .. n - 1 : s[k] \in Blank
  BY Zenon, <1>3
<1>6. PICK a : a = a0 + 1
  BY Zenon
<1>7. /\ a \in 1 .. Len(s) /\ a \in 1 .. Len(s) + 1 /\ a - 1 = a0 /\ p \in a .. n - 1
      /\ q \in p .. n - 1 /\ p \in Nat /\ q \in Nat /\ n \in a .. Len(s) + 1
      /\ \A k \in a .. n - 1 : k \in a .. p - 1 \/ k \in p .. q \/ k \in q + 1 .. n - 1
  BY <1>1, <1>2, <1>3, <1>4, <1>5, <1>6, SMTT(30)
<1>8. Comma = {44}
  BY Zenon DEF Comma
<1>9. a \in Starts(s, 1)
  <2>1. a = 1 \/ s[a - 1] \in Comma
    <3>1. CASE a0 = 0
      BY <1>6, <3>1
    <3>2. CASE s[a0] = 44
      BY Zenon, <1>7, <1>8, <3>2
    <3> QED
      BY Zenon, <1>4, <3>1, <3>2
  <2> QED
    BY Zenon, <1>7, <2>1 DEF Starts
<1>10. \A k \in a .. n - 1 : s[k] \notin Comma
  BY ZenonT(60), <1>3, <1>4, <1>5, <1>6, <1>7, <1>8
<1>11. IsNext(n, s, a, Comma)
  <2>1. n <= Len(s) => n # Len(s) + 1
    BY <1>1, <1>7
  <2> QED
    BY Zenon, <1>5, <1>7, <1>8, <1>10, <2>1 DEF IsNext
<1>12. n = next(s, a, Comma)
  BY Zenon, <1>7, <1>11, NextIs
<1>13. Within(t, s, a, n, Blank, p, q)
  BY Zenon, <1>3, <1>4, <1>5, <1>6, <1>7 DEF Within
<1>14. Trimmed(t, s, a, n, Blank)
  BY Zenon, <1>7, <1>13 DEF Trimmed
<1>15. Trimmed(entry(s, a, Blank).text, s, a, n, Blank)
  BY Zenon, <1>7, <1>12, EntryTrims
<1>16. entry(s, a, Blank).text = t
  BY Zenon, <1>7, <1>14, <1>15, TrimmedSame
<1>17. t # <<>>
  <2>1. a \in 1 .. Len(s) + 1 /\ n \in a .. Len(s) + 1 /\ p \in Nat /\ q \in Nat
    BY Zenon, <1>7
  <2>2. IsPart(t, s, p, q)
    BY Zenon, <1>13, <2>1, WithinText
  <2> QED
    BY Zenon, <2>2 DEF IsPart
<1> QED
  BY Zenon, <1>9, <1>16, <1>17

(* A text trimmed from the entry at a start is listed.                     *)
LEMMA WithinListed ==
    ASSUME NEW s \in Seq(Byte), NEW Blank, NEW a \in Starts(s, 1), NEW t,
           NEW n, IsNext(n, s, a, Comma), NEW p \in Nat, NEW q \in Nat,
           Within(t, s, a, n, Blank, p, q)
    PROVE  Listed(t, s, Blank)
<1>1. Len(s) \in Nat
  OBVIOUS
<1>2. a \in 1 .. Len(s) /\ (a = 1 \/ s[a - 1] \in Comma)
  BY Zenon DEF Starts
<1>3. n \in a .. Len(s) + 1 /\ p \in a .. n - 1 /\ q \in p .. n - 1
  BY Zenon DEF IsNext, Within
<1>4. /\ p \in 1 .. Len(s) /\ q \in p .. Len(s) /\ n \in q + 1 .. Len(s) + 1
      /\ a - 1 \in 0 .. p - 1 /\ (a - 1) + 1 = a /\ (a = 1 => a - 1 = 0)
      /\ n = Len(s) + 1 \/ n <= Len(s)
      /\ \A k \in p .. q : k \in a .. n - 1
  BY <1>1, <1>2, <1>3
<1>5. Comma = {44}
  BY Zenon DEF Comma
<1>6. 44 \notin {s[k] : k \in p .. q}
  BY ZenonT(60), <1>4, <1>5 DEF IsNext
<1>7. \E b \in 0 .. p - 1 : (b = 0 \/ s[b] = 44) /\ \A k \in b + 1 .. p - 1 : s[k] \in Blank
  <2>1. (a - 1 = 0 \/ s[a - 1] = 44) /\ \A k \in (a - 1) + 1 .. p - 1 : s[k] \in Blank
    BY Zenon, <1>2, <1>4, <1>5 DEF Within
  <2> QED
    BY Zenon, <1>4, <2>1
<1>8. (n = Len(s) + 1 \/ s[n] = 44) /\ \A k \in q + 1 .. n - 1 : s[k] \in Blank
  BY Zenon, <1>4, <1>5 DEF Within, IsNext
<1>9. t = SubSeq(s, p, q) /\ s[p] \notin Blank /\ s[q] \notin Blank
  BY Zenon DEF Within
<1>10. \E b \in q + 1 .. Len(s) + 1 :
            (b = Len(s) + 1 \/ s[b] = 44) /\ \A k \in q + 1 .. b - 1 : s[k] \in Blank
  BY Zenon, <1>4, <1>8
<1>11. p \in 1 .. Len(s) /\ q \in p .. Len(s)
  BY Zenon, <1>4
<1> QED
  BY ZenonT(60), <1>6, <1>7, <1>9, <1>10, <1>11 DEF Listed

(* The text of an entry is listed, unless it is empty.                     *)
LEMMA EntryListed ==
    ASSUME NEW s \in Seq(Byte), NEW Blank, 44 \notin Blank, NEW a \in Starts(s, 1),
           NEW t, t = entry(s, a, Blank).text, t # <<>>
    PROVE  Listed(t, s, Blank)
<1>1. a \in 1 .. Len(s) + 1
  BY Zenon, StartsAre
<1>2. PICK n : n = next(s, a, Comma)
  BY Zenon
<1>3. IsNext(n, s, a, Comma) /\ Trimmed(t, s, a, n, Blank)
  BY Zenon, <1>1, <1>2, EntryTrims
<1>4. PICK p, q \in Nat : Within(t, s, a, n, Blank, p, q)
  BY Zenon, <1>3 DEF Trimmed
<1> QED
  BY Zenon, <1>3, <1>4, WithinListed

(* The loops over the audiences of a list.                                 *)
AudienceStates(s) == [i : 1 .. Len(s) + 1, count : 0 .. MaxAudiences]
AudienceText(s, at) == entry(s, at.i, Space).text
AudienceEnd(s, at) == entry(s, at.i, Space).end
AudienceNext(s, at) == [i |-> AudienceEnd(s, at) + 1, count |-> at.count + 1]
AudienceTaken(s, at) == AudienceText(s, at) # <<>> /\ at.count < MaxAudiences
AudiencePlain(s, at) ==
    \A j \in 1 .. Len(AudienceText(s, at)) : AudienceText(s, at)[j] \notin Control
ValidateTurn(f, s, at) ==
    IF at.i > Len(s) THEN FALSE
    ELSE /\ AudienceText(s, at) # <<>> /\ at.count < MaxAudiences
         /\ AudiencePlain(s, at)
         /\ AudienceEnd(s, at) > Len(s) \/ f[AudienceNext(s, at)]
MatchTurn(f, s, token, at) ==
    IF at.i > Len(s) THEN FALSE
    ELSE /\ AudienceText(s, at) # <<>> /\ at.count < MaxAudiences
         /\ \/ audience_equal(AudienceText(s, at), token)
            \/ AudienceEnd(s, at) <= Len(s) /\ f[AudienceNext(s, at)]

\* Equivalent truth values are equal.
LEMMA SameTruth ==
    ASSUME NEW x \in BOOLEAN, NEW y \in BOOLEAN, x <=> y
    PROVE  x = y
  BY Zenon

\* A comma is not trimmed.
LEMMA CommaKept == 44 \notin Space /\ 44 \notin {9, 32}
  BY DEF Space

\* An audience is followed by the next, or by the end of the list.
LEMMA AudienceStep ==
    ASSUME NEW s \in Seq(Byte), NEW at \in AudienceStates(s), ~(at.i > Len(s))
    PROVE  /\ at.i \in 1 .. Len(s) /\ at.i \in 1 .. Len(s) + 1
           /\ AudienceEnd(s, at) = next(s, at.i, Comma)
           /\ AudienceEnd(s, at) \in at.i .. Len(s) + 1
           /\ AudienceEnd(s, at) > Len(s) <=> ~(AudienceEnd(s, at) <= Len(s))
           /\ at.count < MaxAudiences /\ AudienceEnd(s, at) <= Len(s) =>
                /\ AudienceNext(s, at) \in AudienceStates(s)
                /\ AudienceNext(s, at).i = AudienceEnd(s, at) + 1
                /\ (Len(s) + 1) - AudienceNext(s, at).i < (Len(s) + 1) - at.i
<1>1. Len(s) \in Nat /\ at.i \in 1 .. Len(s) + 1 /\ at.count \in 0 .. MaxAudiences
  BY DEF AudienceStates
<1>2. at.i \in 1 .. Len(s)
  BY <1>1
<1>3. PICK n : n = next(s, at.i, Comma)
  BY Zenon
<1>4. n \in at.i .. Len(s) + 1 /\ AudienceEnd(s, at) = n
  <2>1. PICK i, B, e : i = at.i /\ B = Space /\ e = entry(s, i, B)
    BY Zenon
  <2>2. 44 \notin B
    BY Zenon, <2>1, CommaKept
  <2>3. n = next(s, i, Comma) /\ i \in 1 .. Len(s) + 1
    BY Zenon, <1>1, <1>3, <2>1
  <2>4. n \in i .. Len(s) + 1 /\ e.end = n
    BY Zenon, <2>1, <2>2, <2>3, EntryTrims
  <2> QED
    BY Zenon, <2>1, <2>4 DEF AudienceEnd
<1>5. n > Len(s) <=> ~(n <= Len(s))
  BY <1>1, <1>2, <1>4
<1>6. ASSUME at.count < MaxAudiences, n <= Len(s)
      PROVE  /\ AudienceNext(s, at) \in AudienceStates(s)
             /\ AudienceNext(s, at).i = n + 1
             /\ (Len(s) + 1) - (n + 1) < (Len(s) + 1) - at.i
  <2>1. MaxAudiences \in Nat
    BY LimitAssumption, Zenon
  <2>2. n + 1 \in 1 .. Len(s) + 1 /\ (Len(s) + 1) - (n + 1) < (Len(s) + 1) - at.i
    BY <1>1, <1>2, <1>4, <1>6
  <2>3. at.count + 1 \in 0 .. MaxAudiences
    BY <1>1, <1>6, <2>1
  <2>4. AudienceNext(s, at) = [i |-> n + 1, count |-> at.count + 1]
    BY Zenon, <1>4 DEF AudienceNext
  <2>5. AudienceNext(s, at) \in AudienceStates(s)
    BY <2>2, <2>3, <2>4 DEF AudienceStates
  <2>6. AudienceNext(s, at).i = n + 1
    BY <2>4
  <2> QED
    BY Zenon, <2>2, <2>5, <2>6
<1> QED
  BY ZenonT(60), <1>1, <1>2, <1>3, <1>4, <1>5, <1>6

(* A loop that goes on only from one audience to the next ends.            *)
LEMMA AudienceLoop ==
    ASSUME NEW s \in Seq(Byte), NEW go, NEW base,
           \A at \in AudienceStates(s) : go[at] =>
                ~(at.i > Len(s)) /\ at.count < MaxAudiences /\ AudienceEnd(s, at) <= Len(s),
           \A at \in AudienceStates(s) : base[at] \in BOOLEAN
    PROVE  \E f, jump : /\ jump = [at \in AudienceStates(s) |-> AudienceNext(s, at)]
                        /\ Computes(f, AudienceStates(s), BOOLEAN, go, jump, base)
<1> DEFINE D == AudienceStates(s)
<1>1. PICK rank, jump : /\ rank = [at \in D |-> (Len(s) + 1) - at.i]
                        /\ jump = [at \in D |-> AudienceNext(s, at)]
  BY Zenon
<1>2. rank \in [D -> 0 .. Len(s)] /\ Len(s) \in Nat
  <2>1. \A at \in D : (Len(s) + 1) - at.i \in 0 .. Len(s)
    BY DEF AudienceStates
  <2>2. Len(s) \in Nat
    OBVIOUS
  <2> QED
    BY Zenon, <1>1, <2>1, <2>2
<1>3. \A at \in D : go[at] => jump[at] \in D /\ rank[jump[at]] < rank[at]
  BY Zenon, <1>1, AudienceStep
<1>4. Loop(D, BOOLEAN, Len(s), rank, go, jump, base)
  BY Zenon, <1>2, <1>3 DEF Loop
<1> QED
  BY Zenon, <1>1, <1>4, LoopExists

\* validate_audiences is what its loop comes to.
LEMMA ValidateSolved ==
    ASSUME NEW s \in Seq(Byte)
    PROVE  \E f : /\ \A at \in AudienceStates(s) : f[at] = ValidateTurn(f, s, at)
                  /\ validate_audiences(s) = f[[i |-> 1, count |-> 0]]
<1> DEFINE D == AudienceStates(s)
           Ok(at) == ~(at.i > Len(s)) /\ AudienceTaken(s, at) /\ AudiencePlain(s, at)
<1>1. validate_audiences(s) =
        (CHOOSE f : f = [at \in D |-> ValidateTurn(f, s, at)])[[i |-> 1, count |-> 0]]
  BY Zenon DEF validate_audiences, ValidateTurn, AudienceStates, AudienceText,
               AudienceEnd, AudienceNext, AudiencePlain
<1>2. PICK go, base :
        /\ go = [at \in D |-> Ok(at) /\ AudienceEnd(s, at) <= Len(s)]
        /\ base = [at \in D |-> Ok(at) /\ ~(AudienceEnd(s, at) <= Len(s))]
  BY Zenon
<1>3. PICK f, jump : /\ jump = [at \in D |-> AudienceNext(s, at)]
                     /\ Computes(f, D, BOOLEAN, go, jump, base)
  <2>1. \A at \in D : go[at] =>
            ~(at.i > Len(s)) /\ at.count < MaxAudiences /\ AudienceEnd(s, at) <= Len(s)
    BY Zenon, <1>2 DEF AudienceTaken
  <2>2. \A at \in D : base[at] \in BOOLEAN
    BY Zenon, <1>2
  <2> QED
    BY Zenon, <2>1, <2>2, AudienceLoop
<1>4. ASSUME NEW at \in D PROVE f[at] = ValidateTurn(f, s, at)
  <2>1. f[at] = IF Ok(at) /\ AudienceEnd(s, at) <= Len(s) THEN f[AudienceNext(s, at)]
                ELSE Ok(at) /\ ~(AudienceEnd(s, at) <= Len(s))
    BY Zenon, <1>2, <1>3 DEF Computes
  <2>2. ~(at.i > Len(s)) => (AudienceEnd(s, at) > Len(s) <=> ~(AudienceEnd(s, at) <= Len(s)))
    BY Zenon, AudienceStep
  <2>3. f[at] \in BOOLEAN
    BY Zenon, <1>3 DEF Computes
  <2>4. ValidateTurn(f, s, at) \in BOOLEAN
    BY Zenon DEF ValidateTurn
  <2>5. f[at] <=> ValidateTurn(f, s, at)
    BY Zenon, <2>1, <2>2 DEF ValidateTurn, AudienceTaken
  <2> QED
    BY Zenon, <2>3, <2>4, <2>5, SameTruth
<1>5. f = [at \in D |-> ValidateTurn(f, s, at)]
  BY Zenon, <1>3, <1>4 DEF Computes
<1>6. PICK g : g = CHOOSE h : h = [at \in D |-> ValidateTurn(h, s, at)]
  BY Zenon
<1>7. g = [at \in D |-> ValidateTurn(g, s, at)]
  BY Zenon, <1>5, <1>6
<1>8. \A at \in D : g[at] = ValidateTurn(g, s, at)
  BY Zenon, <1>7
<1> QED
  BY Zenon, <1>1, <1>6, <1>8

\* configured_audience_matches is what its loop comes to.
LEMMA MatchSolved ==
    ASSUME NEW s \in Seq(Byte), NEW token
    PROVE  \E f : /\ \A at \in AudienceStates(s) : f[at] = MatchTurn(f, s, token, at)
                  /\ configured_audience_matches(s, token) = f[[i |-> 1, count |-> 0]]
<1> DEFINE D == AudienceStates(s)
           Ok(at) == ~(at.i > Len(s)) /\ AudienceTaken(s, at)
           Equal(at) == audience_equal(AudienceText(s, at), token)
<1>1. configured_audience_matches(s, token) =
        (CHOOSE f : f = [at \in D |-> MatchTurn(f, s, token, at)])[[i |-> 1, count |-> 0]]
  BY Zenon DEF configured_audience_matches, MatchTurn, AudienceStates, AudienceText,
               AudienceEnd, AudienceNext
<1>2. PICK go, base :
        /\ go = [at \in D |-> Ok(at) /\ ~Equal(at) /\ AudienceEnd(s, at) <= Len(s)]
        /\ base = [at \in D |-> Ok(at) /\ Equal(at)]
  BY Zenon
<1>3. PICK f, jump : /\ jump = [at \in D |-> AudienceNext(s, at)]
                     /\ Computes(f, D, BOOLEAN, go, jump, base)
  <2>1. \A at \in D : go[at] =>
            ~(at.i > Len(s)) /\ at.count < MaxAudiences /\ AudienceEnd(s, at) <= Len(s)
    BY Zenon, <1>2 DEF AudienceTaken
  <2>2. \A at \in D : base[at] \in BOOLEAN
    BY Zenon, <1>2
  <2> QED
    BY Zenon, <2>1, <2>2, AudienceLoop
<1>4. ASSUME NEW at \in D PROVE f[at] = MatchTurn(f, s, token, at)
  <2>1. f[at] = IF Ok(at) /\ ~Equal(at) /\ AudienceEnd(s, at) <= Len(s)
                THEN f[AudienceNext(s, at)] ELSE Ok(at) /\ Equal(at)
    BY Zenon, <1>2, <1>3 DEF Computes
  <2>2. f[at] \in BOOLEAN
    BY Zenon, <1>3 DEF Computes
  <2>3. MatchTurn(f, s, token, at) \in BOOLEAN
    BY Zenon DEF MatchTurn
  <2>4. f[at] <=> MatchTurn(f, s, token, at)
    BY Zenon, <2>1 DEF MatchTurn, AudienceTaken
  <2> QED
    BY Zenon, <2>2, <2>3, <2>4, SameTruth
<1>5. f = [at \in D |-> MatchTurn(f, s, token, at)]
  BY Zenon, <1>3, <1>4 DEF Computes
<1>6. PICK g : g = CHOOSE h : h = [at \in D |-> MatchTurn(h, s, token, at)]
  BY Zenon
<1>7. g = [at \in D |-> MatchTurn(g, s, token, at)]
  BY Zenon, <1>5, <1>6
<1>8. \A at \in D : g[at] = MatchTurn(g, s, token, at)
  BY Zenon, <1>7
<1> QED
  BY Zenon, <1>1, <1>6, <1>8

(* What the loop of configured_audience_matches comes to in a valid list.  *)
ListedFrom(t, s, i, Blank) ==
    t # <<>> /\ \E a \in Starts(s, i) : entry(s, a, Blank).text = t

\* An entry more that may be the text.
LEMMA ListedStep ==
    ASSUME NEW s \in Seq(Byte), NEW i, IsStart(s, i), i <= Len(s), NEW n, n = next(s, i, Comma),
           NEW Blank, NEW t
    PROVE  ListedFrom(t, s, i, Blank) <=>
                \/ t # <<>> /\ entry(s, i, Blank).text = t
                \/ n <= Len(s) /\ ListedFrom(t, s, n + 1, Blank)
<1>1. /\ n > Len(s) => Starts(s, n + 1) = {}
      /\ Starts(s, i) = {i} \cup Starts(s, n + 1)
      /\ n \in i .. Len(s) + 1
  BY ZenonT(60), StartStep
<1>2. n <= Len(s) \/ n > Len(s)
  <2>1. i \in Nat /\ Len(s) \in Nat
    BY DEF IsStart
  <2> QED
    BY <1>1, <2>1
<1> QED
  BY Zenon, <1>1, <1>2 DEF ListedFrom

(* In a list that validate_audiences accepts, the loop of claims.c finds   *)
(* what is listed from its position on, and nothing else.                  *)
LEMMA AudiencesFound ==
    ASSUME NEW s \in Seq(Byte), NEW token, NEW v, NEW m,
           \A at \in AudienceStates(s) : v[at] = ValidateTurn(v, s, at),
           \A at \in AudienceStates(s) : m[at] = MatchTurn(m, s, token, at)
    PROVE  \A at \in AudienceStates(s) :
                IsStart(s, at.i) /\ v[at] => (m[at] <=> ListedFrom(token, s, at.i, Space))
<1> DEFINE P(at) == IsStart(s, at.i) /\ v[at] => (m[at] <=> ListedFrom(token, s, at.i, Space))
           S == {k \in Nat : \A at \in AudienceStates(s) : (Len(s) + 1) - at.i <= k => P(at)}
<1>1. Len(s) \in Nat
  OBVIOUS
<1>2. ASSUME NEW at \in AudienceStates(s) PROVE at.i \in 1 .. Len(s) + 1
  BY Zenon DEF AudienceStates
<1>3. ASSUME NEW at \in AudienceStates(s), at.i > Len(s) PROVE P(at)
  <2>1. v[at] = FALSE
    BY Zenon, <1>3 DEF ValidateTurn
  <2> QED
    BY Zenon, <2>1
<1>4. 0 \in S
  <2>1. ASSUME NEW at \in AudienceStates(s), (Len(s) + 1) - at.i <= 0 PROVE at.i > Len(s)
    BY <1>1, <1>2, <2>1
  <2> QED
    BY Zenon, <1>3, <2>1
<1>5. ASSUME NEW k \in Nat, k \in S PROVE k + 1 \in S
  <2>1. ASSUME NEW at \in AudienceStates(s), (Len(s) + 1) - at.i <= k + 1,
               ~(at.i > Len(s)), IsStart(s, at.i), v[at]
        PROVE  m[at] <=> ListedFrom(token, s, at.i, Space)
    <3>1. PICK on, n, t, i : /\ on = AudienceNext(s, at) /\ n = AudienceEnd(s, at)
                             /\ t = AudienceText(s, at) /\ i = at.i
      BY Zenon
    <3>2. /\ i \in 1 .. Len(s) /\ n = next(s, i, Comma) /\ n \in i .. Len(s) + 1
          /\ n > Len(s) <=> ~(n <= Len(s))
          /\ at.count < MaxAudiences /\ n <= Len(s) =>
                /\ on \in AudienceStates(s) /\ on.i = n + 1
                /\ (Len(s) + 1) - on.i < (Len(s) + 1) - at.i
      BY Zenon, <2>1, <3>1, AudienceStep
    <3>3. t # <<>> /\ at.count < MaxAudiences /\ (n > Len(s) \/ v[on])
      BY Zenon, <2>1, <3>1 DEF ValidateTurn
    <3>4. m[at] <=> t = token \/ (n <= Len(s) /\ m[on])
      BY Zenon, <2>1, <3>1, <3>3 DEF MatchTurn, audience_equal
    <3>5. i <= Len(s)
      BY <1>1, <3>2
    <3>6. IsStart(s, i)
      BY Zenon, <2>1, <3>1
    <3>7. n <= Len(s) => IsStart(s, n + 1)
      BY Zenon, <3>2, <3>5, <3>6, StartStep
    <3>8. ASSUME n <= Len(s) PROVE m[on] <=> ListedFrom(token, s, n + 1, Space)
      <4>1. on \in AudienceStates(s) /\ on.i = n + 1 /\ v[on]
        BY Zenon, <3>2, <3>3, <3>8
      <4>2. (Len(s) + 1) - on.i <= k
        <5>1. (Len(s) + 1) - on.i < (Len(s) + 1) - at.i
          BY Zenon, <3>2, <3>3, <3>8
        <5>2. on.i \in 1 .. Len(s) + 1 /\ at.i \in 1 .. Len(s) + 1
          BY Zenon, <1>2, <4>1
        <5> QED
          BY <1>1, <2>1, <5>1, <5>2
      <4> QED
        BY Zenon, <1>5, <3>7, <3>8, <4>1, <4>2
    <3>9. ListedFrom(token, s, i, Space) <=>
                \/ token # <<>> /\ entry(s, i, Space).text = token
                \/ n <= Len(s) /\ ListedFrom(token, s, n + 1, Space)
      BY Zenon, <3>2, <3>5, <3>6, ListedStep
    <3>10. entry(s, i, Space).text = t
      BY Zenon, <3>1 DEF AudienceText
    <3> QED
      BY Zenon, <3>1, <3>3, <3>4, <3>8, <3>9, <3>10
  <2>2. k + 1 \in Nat
    OBVIOUS
  <2> QED
    BY Zenon, <1>3, <2>1, <2>2
<1>6. \A k \in Nat : k \in S
  BY Zenon, <1>4, <1>5, Induction
<1>7. Len(s) \in S
  BY Zenon, <1>1, <1>6
<1>8. \A at \in AudienceStates(s) : (Len(s) + 1) - at.i <= Len(s)
  BY <1>1, <1>2
<1> QED
  BY Zenon, <1>7, <1>8

\* From the first entry on.
LEMMA ListedIs ==
    ASSUME NEW s \in Seq(Byte), NEW Blank, 44 \notin Blank, NEW t
    PROVE  Listed(t, s, Blank) <=> ListedFrom(t, s, 1, Blank)
  BY Zenon, ListedEntry, EntryListed DEF ListedFrom

(* The audiences of a valid list that match are its entries.               *)
LEMMA AudiencesAgree ==
    ASSUME NEW s \in Seq(Byte), validate_audiences(s), NEW token
    PROVE  configured_audience_matches(s, token) <=> Listed(token, s, Space)
<1>1. PICK v : /\ \A at \in AudienceStates(s) : v[at] = ValidateTurn(v, s, at)
               /\ validate_audiences(s) = v[[i |-> 1, count |-> 0]]
  BY Zenon, ValidateSolved
<1>2. PICK m : /\ \A at \in AudienceStates(s) : m[at] = MatchTurn(m, s, token, at)
               /\ configured_audience_matches(s, token) = m[[i |-> 1, count |-> 0]]
  BY Zenon, MatchSolved
<1>3. PICK at : at = [i |-> 1, count |-> 0]
  BY Zenon
<1>4. at.i = 1
  BY <1>3, Zenon
<1>5. at \in AudienceStates(s)
  <2>1. 1 \in 1 .. Len(s) + 1 /\ 0 \in 0 .. MaxAudiences
    BY LimitAssumption
  <2> QED
    BY <1>3, <2>1, Zenon DEF AudienceStates
<1>6. IsStart(s, at.i)
  <2>1. 1 \in 1 .. Len(s) + 1
    OBVIOUS
  <2> QED
    BY Zenon, <1>4, <2>1 DEF IsStart
<1>7. m[at] <=> ListedFrom(token, s, at.i, Space)
  <2>1. \A b \in AudienceStates(s) : v[b] = ValidateTurn(v, s, b)
    BY Zenon, <1>1
  <2>2. \A b \in AudienceStates(s) : m[b] = MatchTurn(m, s, token, b)
    BY Zenon, <1>2
  <2>3. \A b \in AudienceStates(s) :
            IsStart(s, b.i) /\ v[b] => (m[b] <=> ListedFrom(token, s, b.i, Space))
    BY Zenon, <2>1, <2>2, AudiencesFound
  <2>4. v[at]
    BY Zenon, <1>1, <1>3
  <2> QED
    BY Zenon, <1>5, <1>6, <2>3, <2>4
<1>8. PICK B : B = Space
  BY Zenon
<1>9. 44 \notin B
  BY Zenon, <1>8, CommaKept
<1>10. Listed(token, s, B) <=> ListedFrom(token, s, 1, B)
  BY Zenon, <1>9, ListedIs
<1> QED
  BY Zenon, <1>2, <1>3, <1>4, <1>7, <1>8, <1>10

(* The loop of host_in_list.                                               *)
HostBlank == {9, 32}
HostTurn(f, s, host, i) ==
    IF i > Len(s) THEN FALSE
    ELSE \/ same_host(entry(s, i, HostBlank).text, host)
         \/ entry(s, i, HostBlank).end <= Len(s) /\ f[entry(s, i, HostBlank).end + 1]

\* A host entry is followed by the next, or by the end of the list.
LEMMA HostStep ==
    ASSUME NEW s \in Seq(Byte), NEW i \in 1 .. Len(s) + 1, NEW n,
           n = entry(s, i, HostBlank).end
    PROVE  /\ n = next(s, i, Comma) /\ n \in i .. Len(s) + 1
           /\ n <= Len(s) => /\ n + 1 \in 1 .. Len(s) + 1
                             /\ (Len(s) + 1) - (n + 1) < (Len(s) + 1) - i
<1>1. Len(s) \in Nat /\ i \in Nat
  OBVIOUS
<1>2. 44 \notin HostBlank
  BY DEF HostBlank
<1>3. PICK k : k = next(s, i, Comma)
  BY Zenon
<1>4. k \in i .. Len(s) + 1 /\ n = k
  BY Zenon, <1>2, <1>3, EntryTrims
<1>5. n <= Len(s) => /\ n + 1 \in 1 .. Len(s) + 1
                     /\ (Len(s) + 1) - (n + 1) < (Len(s) + 1) - i
  BY <1>1, <1>4
<1> QED
  BY Zenon, <1>3, <1>4, <1>5

\* host_in_list is what its loop comes to.
LEMMA HostSolved ==
    ASSUME NEW s \in Seq(Byte), NEW host
    PROVE  \E f : /\ \A i \in 1 .. Len(s) + 1 : f[i] = HostTurn(f, s, host, i)
                  /\ host_in_list(host, s) = f[1]
<1> DEFINE D == 1 .. Len(s) + 1
           Same(i) == same_host(entry(s, i, HostBlank).text, host)
           End(i) == entry(s, i, HostBlank).end
<1>1. host_in_list(host, s) = (CHOOSE f : f = [i \in D |-> HostTurn(f, s, host, i)])[1]
  BY Zenon DEF host_in_list, HostTurn, HostBlank
<1>2. PICK rank, go, jump, base :
        /\ rank = [i \in D |-> (Len(s) + 1) - i]
        /\ go = [i \in D |-> ~(i > Len(s)) /\ ~Same(i) /\ End(i) <= Len(s)]
        /\ jump = [i \in D |-> End(i) + 1]
        /\ base = [i \in D |-> ~(i > Len(s)) /\ Same(i)]
  BY Zenon
<1>3. rank \in [D -> 0 .. Len(s)] /\ Len(s) \in Nat
  <2>1. \A i \in D : (Len(s) + 1) - i \in 0 .. Len(s)
    OBVIOUS
  <2>2. Len(s) \in Nat
    OBVIOUS
  <2> QED
    BY Zenon, <1>2, <2>1, <2>2
<1>4. \A i \in D : go[i] => jump[i] \in D /\ rank[jump[i]] < rank[i]
  BY Zenon, <1>2, HostStep
<1>5. \A i \in D : ~go[i] => base[i] \in BOOLEAN
  BY Zenon, <1>2
<1>6. PICK f : Computes(f, D, BOOLEAN, go, jump, base)
  <2>1. Loop(D, BOOLEAN, Len(s), rank, go, jump, base)
    BY Zenon, <1>3, <1>4, <1>5 DEF Loop
  <2> QED
    BY Zenon, <2>1, LoopExists
<1>7. ASSUME NEW i \in D PROVE f[i] = HostTurn(f, s, host, i)
  <2>1. f[i] = IF ~(i > Len(s)) /\ ~Same(i) /\ End(i) <= Len(s)
               THEN f[End(i) + 1] ELSE ~(i > Len(s)) /\ Same(i)
    BY Zenon, <1>2, <1>6 DEF Computes
  <2>2. f[i] \in BOOLEAN
    BY Zenon, <1>6 DEF Computes
  <2>3. HostTurn(f, s, host, i) \in BOOLEAN
    BY Zenon DEF HostTurn
  <2>4. f[i] <=> HostTurn(f, s, host, i)
    BY Zenon, <2>1 DEF HostTurn
  <2> QED
    BY Zenon, <2>2, <2>3, <2>4, SameTruth
<1>8. f = [i \in D |-> HostTurn(f, s, host, i)]
  BY Zenon, <1>6, <1>7 DEF Computes
<1>9. PICK g : g = CHOOSE h : h = [i \in D |-> HostTurn(h, s, host, i)]
  BY Zenon
<1>10. g = [i \in D |-> HostTurn(g, s, host, i)]
  BY Zenon, <1>8, <1>9
<1>11. \A i \in D : g[i] = HostTurn(g, s, host, i)
  BY Zenon, <1>10
<1> QED
  BY Zenon, <1>1, <1>9, <1>11

(* host_in_list finds the entries with the same host, and only those.      *)
LEMMA HostFound ==
    ASSUME NEW s \in Seq(Byte), NEW host
    PROVE  host_in_list(host, s) <=>
                \E a \in Starts(s, 1) : same_host(entry(s, a, HostBlank).text, host)
<1>1. PICK f : /\ \A i \in 1 .. Len(s) + 1 : f[i] = HostTurn(f, s, host, i)
               /\ host_in_list(host, s) = f[1]
  BY Zenon, HostSolved
<1> DEFINE From(i) == \E a \in Starts(s, i) : same_host(entry(s, a, HostBlank).text, host)
           S == {k \in Nat : \A i : IsStart(s, i) /\ (Len(s) + 1) - i <= k => (f[i] <=> From(i))}
<1>2. Len(s) \in Nat
  OBVIOUS
<1>3. ASSUME NEW i, IsStart(s, i) PROVE i \in 1 .. Len(s) + 1 /\ i \in Nat
  <2>1. i \in 1 .. Len(s) + 1
    BY Zenon, <1>3 DEF IsStart
  <2> QED
    BY <2>1
<1>4. ASSUME NEW i, IsStart(s, i), i > Len(s) PROVE f[i] <=> From(i)
  <2>1. f[i] = FALSE
    BY Zenon, <1>1, <1>3, <1>4 DEF HostTurn
  <2>2. \A a : a \notin i .. Len(s)
    BY <1>2, <1>3, <1>4
  <2> QED
    BY Zenon, <2>1, <2>2 DEF Starts
<1>5. 0 \in S
  <2>1. ASSUME NEW i, IsStart(s, i), (Len(s) + 1) - i <= 0 PROVE i > Len(s)
    BY <1>2, <1>3, <2>1
  <2> QED
    BY Zenon, <1>4, <2>1
<1>6. ASSUME NEW k \in Nat, k \in S PROVE k + 1 \in S
  <2>1. ASSUME NEW i, IsStart(s, i), (Len(s) + 1) - i <= k + 1, ~(i > Len(s))
        PROVE  f[i] <=> From(i)
    <3>1. i \in 1 .. Len(s) + 1 /\ i \in Nat
      BY Zenon, <1>3, <2>1
    <3>2. PICK n : n = entry(s, i, HostBlank).end
      BY Zenon
    <3>3. /\ n = next(s, i, Comma) /\ n \in i .. Len(s) + 1
          /\ n <= Len(s) => /\ n + 1 \in 1 .. Len(s) + 1
                            /\ (Len(s) + 1) - (n + 1) < (Len(s) + 1) - i
      BY Zenon, <3>1, <3>2, HostStep
    <3>4. f[i] <=> \/ same_host(entry(s, i, HostBlank).text, host)
                   \/ n <= Len(s) /\ f[n + 1]
      BY Zenon, <1>1, <2>1, <3>1, <3>2 DEF HostTurn
    <3>5. i <= Len(s)
      BY <1>2, <2>1, <3>1
    <3>6. /\ n <= Len(s) => IsStart(s, n + 1)
          /\ n > Len(s) => Starts(s, n + 1) = {}
          /\ Starts(s, i) = {i} \cup Starts(s, n + 1)
      BY ZenonT(60), <2>1, <3>3, <3>5, StartStep
    <3>7. n <= Len(s) => (f[n + 1] <=> From(n + 1))
      <4>1. n <= Len(s) => (Len(s) + 1) - (n + 1) <= k
        BY <1>2, <2>1, <3>1, <3>3, SMTT(30)
      <4> QED
        BY Zenon, <1>6, <3>6, <4>1
    <3>8. n <= Len(s) \/ n > Len(s)
      BY <1>2, <3>1, <3>3
    <3> QED
      BY Zenon, <3>4, <3>6, <3>7, <3>8
  <2>2. k + 1 \in Nat
    OBVIOUS
  <2> QED
    BY Zenon, <1>4, <2>1, <2>2
<1>7. \A k \in Nat : k \in S
  BY Zenon, <1>5, <1>6, Induction
<1>8. IsStart(s, 1) /\ (Len(s) + 1) - 1 <= Len(s)
  BY <1>2 DEF IsStart
<1> QED
  BY Zenon, <1>1, <1>2, <1>7, <1>8

\* A part of a text is in Sub.
LEMMA SubHas ==
    ASSUME NEW s \in Seq(Byte), NEW p \in 1 .. Len(s), NEW q \in p .. Len(s)
    PROVE  SubSeq(s, p, q) \in Sub(s)
<1>1. q \in 0 .. Len(s)
  OBVIOUS
<1> QED
  BY <1>1 DEF Sub

\* A byte that is a visible one up to case is not trimmed.
LEMMA VisibleKept ==
    ASSUME NEW c \in Byte, NEW d \in 33 .. 126, lower(c) = lower(d)
    PROVE  c \notin Space
  BY DEF Byte, lower, Space

\* What http_transport.c trims, policy.c trims too.
LEMMA FewerTrimmed == HostBlank \subseteq Space
  BY DEF HostBlank, Space

\* A visible host, and a text that is the same up to case.
Visible(h) == Len(h) > 0 /\ \A i \in 1 .. Len(h) : h[i] \in 33 .. 126

(* An entry that has the same host is listed.                              *)
LEMMA SameHostListed ==
    ASSUME NEW s \in Seq(Byte), NEW h \in Seq(Byte), Visible(h), NEW a \in Starts(s, 1),
           NEW t, t = entry(s, a, HostBlank).text, same_host(t, h)
    PROVE  t \in Sub(s) /\ Listed(t, s, Space) /\ lowered(t) = lowered(h)
<1>1. a \in 1 .. Len(s) + 1
  BY Zenon, StartsAre
<1>2. PICK n : n = next(s, a, Comma)
  BY Zenon
<1>3. 44 \notin HostBlank
  BY DEF HostBlank
<1>4. IsNext(n, s, a, Comma) /\ n \in a .. Len(s) + 1 /\ Trimmed(t, s, a, n, HostBlank)
  BY Zenon, <1>1, <1>2, <1>3, EntryTrims
<1>5. /\ Len(t) = Len(h) /\ Len(h) \in Nat /\ Len(h) > 0
      /\ \A i \in 1 .. Len(t) : lower(t[i]) = lower(h[i])
  <2>1. /\ Len(t) = Len(h) /\ Len(h) > 0
        /\ \A i \in 1 .. Len(t) : lower(t[i]) = lower(h[i])
    BY Zenon DEF same_host, Visible
  <2>2. Len(h) \in Nat
    OBVIOUS
  <2> QED
    BY Zenon, <2>1, <2>2
<1>6. t # <<>>
  BY <1>5
<1>7. PICK p, q \in Nat : Within(t, s, a, n, HostBlank, p, q)
  BY Zenon, <1>4, <1>6 DEF Trimmed
<1>8. /\ t \in Seq(Byte) /\ t = SubSeq(s, p, q) /\ t[1] = s[p] /\ t[Len(t)] = s[q]
      /\ p \in 1 .. Len(s) /\ q \in p .. Len(s)
  <2>1. n \in a .. Len(s) + 1
    BY Zenon, <1>4
  <2>2. Within(t, s, a, n, HostBlank, p, q)
    BY Zenon, <1>7
  <2>3. IsPart(t, s, p, q)
    BY Zenon, <1>1, <2>1, <2>2, WithinText
  <2> QED
    BY Zenon, <2>3 DEF IsPart
<1>9. 1 \in 1 .. Len(t) /\ Len(t) \in 1 .. Len(t)
  BY <1>5
<1>10. t[1] \notin Space /\ t[Len(t)] \notin Space
  <2>1. t[1] \in Byte /\ t[Len(t)] \in Byte
    BY <1>8, <1>9
  <2>2. h[1] \in 33 .. 126 /\ h[Len(t)] \in 33 .. 126
    BY <1>5, <1>9, Zenon DEF Visible
  <2>3. lower(t[1]) = lower(h[1]) /\ lower(t[Len(t)]) = lower(h[Len(t)])
    BY <1>5, <1>9, Zenon
  <2> QED
    BY ZenonT(60), <2>1, <2>2, <2>3, VisibleKept
<1>11. Within(t, s, a, n, Space, p, q)
  BY Zenon, <1>7, <1>8, <1>10, FewerTrimmed DEF Within
<1>12. Listed(t, s, Space)
  BY Zenon, <1>4, <1>7, <1>11, WithinListed
<1>13. lowered(t) = lowered(h)
  BY Zenon, <1>5 DEF lowered
<1>14. t \in Sub(s)
  BY <1>8, SubHas, Zenon
<1> QED
  BY Zenon, <1>12, <1>13, <1>14

(* A listed host is an entry also when blanks and tabs only are trimmed,   *)
(* if the list has no other white space.                                   *)
LEMMA ListedHostSame ==
    ASSUME NEW s \in Seq(Byte), NEW h, Listed(h, s, Space),
           \A i \in 1 .. Len(s) : s[i] \notin 10 .. 13
    PROVE  \E a \in Starts(s, 1) : entry(s, a, HostBlank).text = h
<1>1. PICK B : B = Space
  BY Zenon
<1>2. 44 \notin B /\ 44 \notin HostBlank
  BY <1>1, CommaKept, Zenon DEF HostBlank
<1>3. h # <<>> /\ \E a \in Starts(s, 1) : entry(s, a, B).text = h
  <2>1. Listed(h, s, B)
    BY Zenon, <1>1
  <2> QED
    BY <1>2, <2>1, ListedEntry
<1>4. PICK a \in Starts(s, 1) : entry(s, a, B).text = h
  BY Zenon, <1>3
<1>5. a \in 1 .. Len(s) + 1
  BY Zenon, StartsAre
<1>6. PICK n : n = next(s, a, Comma)
  BY Zenon
<1>7. n \in a .. Len(s) + 1 /\ Trimmed(h, s, a, n, B)
  BY ZenonT(60), <1>2, <1>4, <1>5, <1>6, EntryTrims
<1>8. Trimmed(entry(s, a, HostBlank).text, s, a, n, HostBlank)
  BY Zenon, <1>2, <1>5, <1>6, EntryTrims
<1>9. PICK p, q \in Nat : Within(h, s, a, n, B, p, q)
  BY Zenon, <1>3, <1>7 DEF Trimmed
<1>10. \A k \in 1 .. Len(s) : s[k] \in B <=> s[k] \in HostBlank
  <2>1. \A c \in Byte : c \notin 10 .. 13 => (c \in B <=> c \in HostBlank)
    BY <1>1 DEF Space, HostBlank
  <2>2. \A k \in 1 .. Len(s) : s[k] \in Byte
    OBVIOUS
  <2> QED
    BY Zenon, <2>1, <2>2
<1>11. p \in a .. n - 1 /\ q \in p .. n - 1
  BY Zenon, <1>9 DEF Within
<1>12. /\ p \in 1 .. Len(s) /\ q \in 1 .. Len(s)
       /\ \A k \in a .. p - 1 : k \in 1 .. Len(s)
       /\ \A k \in q + 1 .. n - 1 : k \in 1 .. Len(s)
  BY <1>5, <1>7, <1>11
<1>13. Within(h, s, a, n, HostBlank, p, q)
  BY Zenon, <1>9, <1>10, <1>12 DEF Within
<1>14. Trimmed(h, s, a, n, HostBlank)
  BY Zenon, <1>9, <1>13 DEF Trimmed
<1>15. entry(s, a, HostBlank).text = h
  BY ZenonT(60), <1>5, <1>7, <1>8, <1>14, TrimmedSame
<1> QED
  BY Zenon, <1>15

\* Sub gives texts.
LEMMA SubTexts ==
    ASSUME NEW s \in Seq(Byte), NEW h \in Sub(s)
    PROVE  h \in Seq(Byte)
<1>1. h = <<>> \/ \E i \in 1 .. Len(s), j \in 0 .. Len(s) : h = SubSeq(s, i, j)
  BY SMT DEF Sub
<1>2. ASSUME NEW i \in 1 .. Len(s), NEW j \in 0 .. Len(s), h = SubSeq(s, i, j)
      PROVE  h \in Seq(Byte)
  <2>1. i \in Int /\ j \in Int /\ \A k \in i .. j : s[k] \in Byte
    OBVIOUS
  <2> QED
    BY <1>2, <2>1, Part, Zenon
<1>3. <<>> \in Seq(Byte)
  OBVIOUS
<1> QED
  BY Zenon, <1>1, <1>2, <1>3

(* ListsAgree follows from the types of the inputs.                        *)
LEMMA Lists == InputOK => ListsAgree
<1> SUFFICES ASSUME InputOK PROVE ListsAgree
  BY Zenon
<1>1. text \in Seq(Byte)
  BY Zenon DEF InputOK
<1>2. validate_audiences(text) =>
        \A t \in Sub(text) : configured_audience_matches(text, t) <=> Listed(t, text, Space)
  BY Zenon, <1>1, AudiencesAgree
<1>3. ASSUME NEW h \in HostNames
      PROVE  /\ host_in_list(h, text) =>
                \E t \in Sub(text) : Listed(t, text, Space) /\ lowered(t) = lowered(h)
             /\ /\ Listed(h, text, Space)
                /\ \A i \in 1 .. Len(text) : text[i] \notin 10 .. 13
                => host_in_list(h, text)
  <2>1. h \in Sub(text) /\ h # <<>> /\ \A i \in 1 .. Len(h) : h[i] \in 33 .. 126
    BY Zenon DEF HostNames
  <2>2. h \in Seq(Byte)
    BY Zenon, <1>1, <2>1, SubTexts
  <2>3. Visible(h)
    <3>1. Len(h) > 0
      BY <2>1, <2>2
    <3> QED
      BY <2>1, <3>1, Zenon DEF Visible
  <2>4. host_in_list(h, text) =>
            \E t \in Sub(text) : Listed(t, text, Space) /\ lowered(t) = lowered(h)
    <3> SUFFICES ASSUME host_in_list(h, text)
                 PROVE  \E t \in Sub(text) : Listed(t, text, Space) /\ lowered(t) = lowered(h)
      BY Zenon
    <3>1. PICK a \in Starts(text, 1) : same_host(entry(text, a, HostBlank).text, h)
      BY Zenon, <1>1, HostFound
    <3>2. PICK t : t = entry(text, a, HostBlank).text
      BY Zenon
    <3>3. same_host(t, h)
      BY Zenon, <3>1, <3>2
    <3>4. t \in Sub(text) /\ Listed(t, text, Space) /\ lowered(t) = lowered(h)
      BY ZenonT(60), <1>1, <2>2, <2>3, <3>2, <3>3, SameHostListed
    <3> QED
      BY Zenon, <3>4
  <2>5. same_host(h, h)
    BY Zenon DEF same_host
  <2>6. ASSUME Listed(h, text, Space), \A i \in 1 .. Len(text) : text[i] \notin 10 .. 13
        PROVE  host_in_list(h, text)
    <3>1. PICK a \in Starts(text, 1) : entry(text, a, HostBlank).text = h
      BY Zenon, <1>1, <2>6, ListedHostSame
    <3> QED
      BY Zenon, <1>1, <2>5, <3>1, HostFound
  <2> QED
    BY Zenon, <2>4, <2>6
<1> QED
  BY Zenon, <1>2, <1>3 DEF ListsAgree

-----------------------------------------------------------------------------
(* identity.c, claims.c: identities                                        *)

(* What valid_sequence asks of the code point of two, three or four bytes, *)
(* in terms of the bytes.                                                  *)
Admitted3(v) == v >= 2048 /\ admitted(v)
Admitted4(v) == v >= 65536 /\ admitted(v)
Point2(a, b) == (a % 32) * 64 + (b % 64)
Point3(a, b, c) == (a % 16) * 4096 + (b % 64) * 64 + (c % 64)
Point4(a, b, c, d) == (a % 8) * 262144 + (b % 64) * 4096 + (c % 64) * 64 + (d % 64)

\* The first bytes of two, three and four, and the C1 controls.
Lead2 == 194 .. 223
Lead3 == 224 .. 239
Lead4 == 240 .. 244
IsC1(a, b) == a = 194 /\ b \in 128 .. 159

\* Beyond the controls and the surrogates there is one bound.
LEMMA Large ==
    ASSUME NEW v \in Int, v >= 65536
    PROVE  admitted(v) <=> v <= 1114111
  BY SMT DEF admitted

\* Of two bytes only the C1 controls are refused.
LEMMA TwoAdmitted ==
    ASSUME NEW a \in Lead2, NEW b \in Trail
    PROVE  admitted(Point2(a, b)) <=> ~IsC1(a, b)
<1> USE DEF Lead2, Trail
<1>1. a % 32 = a - 192 /\ b % 64 = b - 128
  BY SMT
<1> QED
  BY SMT, <1>1 DEF admitted, Point2, IsC1

\* Of three, the overlong forms and the surrogates.
LEMMA ThreeAdmitted ==
    ASSUME NEW a \in Lead3, NEW b \in Trail, NEW c \in Trail
    PROVE  Admitted3(Point3(a, b, c)) <=> ThreeBytes(a, b, c)
<1> USE DEF Lead3, Trail
<1>1. a % 16 = a - 224 /\ b % 64 = b - 128 /\ c % 64 = c - 128
  BY SMT
<1>2. PICK v : v = (a - 224) * 4096 + (b - 128) * 64 + (c - 128)
  BY SMT
<1>3. v \in Int /\ v <= 1114111
  BY SMT, <1>2
<1>4. v >= 2048 <=> ~(a = 224 /\ b < 160)
  BY SMT, <1>2
<1>5. 55296 <= v /\ v <= 57343 <=> a = 237 /\ b >= 160
  BY SMT, <1>2
<1>6. v >= 2048 => (admitted(v) <=> ~(55296 <= v /\ v <= 57343))
  BY SMT, <1>3 DEF admitted
<1>7. v = Point3(a, b, c)
  BY SMTT(30), <1>1, <1>2 DEF Point3
<1>8. ThreeBytes(a, b, c) <=> ~(a = 224 /\ b < 160) /\ ~(a = 237 /\ b >= 160)
  BY SMT DEF ThreeBytes, Trail
<1> QED
  BY SMTT(30), <1>4, <1>5, <1>6, <1>7, <1>8 DEF Admitted3

\* Of four, the overlong forms and what is beyond 10FFFF.
LEMMA FourAdmitted ==
    ASSUME NEW a \in Lead4, NEW b \in Trail, NEW c \in Trail, NEW d \in Trail
    PROVE  Admitted4(Point4(a, b, c, d)) <=> FourBytes(a, b, c, d)
<1> USE DEF Lead4, Trail
<1>1. /\ a % 8 = a - 240 /\ b % 64 = b - 128 /\ c % 64 = c - 128
      /\ d % 64 = d - 128
  BY SMT
<1>2. PICK v : v = (a - 240) * 262144 + (b - 128) * 4096 + (c - 128) * 64 + (d - 128)
  BY SMT
<1>3. v \in Int
  BY SMT, <1>2
<1>4. v >= 65536 <=> ~(a = 240 /\ b < 144)
  BY SMT, <1>2
<1>5. v <= 1114111 <=> ~(a = 244 /\ b > 143)
  BY SMT, <1>2
<1>6. v >= 65536 => (admitted(v) <=> v <= 1114111)
  BY SMT, <1>3, Large
<1>7. v = Point4(a, b, c, d)
  BY SMTT(30), <1>1, <1>2 DEF Point4
<1>8. FourBytes(a, b, c, d) <=> ~(a = 240 /\ b < 144) /\ ~(a = 244 /\ b > 143)
  BY SMT DEF FourBytes, Trail
<1> QED
  BY SMTT(30), <1>4, <1>5, <1>6, <1>7, <1>8 DEF Admitted4

(* The class of the first byte decides which of the forms apply.           *)
LEMMA Classes ==
    ASSUME NEW a \in Byte
    PROVE  /\ continuations(a) \in {-1, 1, 2, 3}
           /\ continuations(a) = 1 <=> a \in Lead2
           /\ continuations(a) = 2 <=> a \in Lead3
           /\ continuations(a) = 3 <=> a \in Lead4
  BY SMT DEF continuations, Byte, Lead2, Lead3, Lead4

\* A form needs its class and its trailing bytes.
LEMMA TwoForm ==
    ASSUME NEW a, NEW b
    PROVE  TwoBytes(a, b) <=> a \in Lead2 /\ b \in Trail
  BY Zenon DEF TwoBytes, Lead2

\* The same for three.
LEMMA ThreeForm ==
    ASSUME NEW a, NEW b, NEW c, ThreeBytes(a, b, c)
    PROVE  a \in Lead3 /\ b \in Trail /\ c \in Trail
  BY SMT DEF ThreeBytes, Trail, Lead3

\* The same for four.
LEMMA FourForm ==
    ASSUME NEW a, NEW b, NEW c, NEW d, FourBytes(a, b, c, d)
    PROVE  a \in Lead4 /\ b \in Trail /\ c \in Trail /\ d \in Trail
  BY SMT DEF FourBytes, Trail, Lead4

\* No byte is in two classes.
LEMMA ClassesApart ==
    ASSUME NEW a
    PROVE  /\ a \in Lead2 => a \notin Lead3 /\ a \notin Lead4
           /\ a \in Lead3 => a \notin Lead4
           /\ a \in Lead2 \cup Lead3 \cup Lead4 => a \notin 0 .. 127
  BY SMT DEF Lead2, Lead3, Lead4

(* Which bytes valid_sequence accepts.                                     *)
LEMMA SequenceForms ==
    ASSUME NEW s \in Seq(Byte), NEW i \in 1 .. Len(s)
    PROVE  /\ s[i] \in Lead2 =>
                (valid_sequence(s, i, 1) <=>
                    /\ 1 <= Len(s) - i /\ s[i + 1] \in Trail
                    /\ ~IsC1(s[i], s[i + 1]))
           /\ s[i] \in Lead3 =>
                (valid_sequence(s, i, 2) <=>
                    2 <= Len(s) - i /\ ThreeBytes(s[i], s[i + 1], s[i + 2]))
           /\ s[i] \in Lead4 =>
                (valid_sequence(s, i, 3) <=>
                    3 <= Len(s) - i /\ FourBytes(s[i], s[i + 1], s[i + 2], s[i + 3]))
<1>1. /\ codepoint(s, i, 1) = Point2(s[i], s[i + 1])
      /\ codepoint(s, i, 2) = Point3(s[i], s[i + 1], s[i + 2])
      /\ codepoint(s, i, 3) = Point4(s[i], s[i + 1], s[i + 2], s[i + 3])
  BY SMT DEF codepoint, Point2, Point3, Point4
<1>2. /\ valid_sequence(s, i, 1) <=>
            /\ 1 <= Len(s) - i /\ s[i + 1] \in Trail
            /\ admitted(codepoint(s, i, 1))
      /\ valid_sequence(s, i, 2) <=>
            /\ 2 <= Len(s) - i /\ s[i + 1] \in Trail /\ s[i + 2] \in Trail
            /\ Admitted3(codepoint(s, i, 2))
      /\ valid_sequence(s, i, 3) <=>
            /\ 3 <= Len(s) - i
            /\ s[i + 1] \in Trail /\ s[i + 2] \in Trail /\ s[i + 3] \in Trail
            /\ Admitted4(codepoint(s, i, 3))
  BY SMT DEF valid_sequence, Admitted3, Admitted4, Trail
<1>3. s[i] \in Lead2 /\ s[i + 1] \in Trail =>
        (admitted(Point2(s[i], s[i + 1])) <=> ~IsC1(s[i], s[i + 1]))
  BY TwoAdmitted, Zenon
<1>4. s[i] \in Lead3 /\ s[i + 1] \in Trail /\ s[i + 2] \in Trail =>
        (Admitted3(Point3(s[i], s[i + 1], s[i + 2])) <=>
            ThreeBytes(s[i], s[i + 1], s[i + 2]))
  BY Zenon, ThreeAdmitted
<1>5. s[i] \in Lead4 /\ s[i + 1] \in Trail /\ s[i + 2] \in Trail /\ s[i + 3] \in Trail =>
        (Admitted4(Point4(s[i], s[i + 1], s[i + 2], s[i + 3])) <=>
            FourBytes(s[i], s[i + 1], s[i + 2], s[i + 3]))
  BY Zenon, FourAdmitted
<1>6. /\ ThreeBytes(s[i], s[i + 1], s[i + 2]) =>
            s[i + 1] \in Trail /\ s[i + 2] \in Trail
      /\ FourBytes(s[i], s[i + 1], s[i + 2], s[i + 3]) =>
            s[i + 1] \in Trail /\ s[i + 2] \in Trail /\ s[i + 3] \in Trail
  BY Zenon, ThreeForm, FourForm
<1>7. s[i] \in Lead2 =>
        (valid_sequence(s, i, 1) <=>
            /\ 1 <= Len(s) - i /\ s[i + 1] \in Trail
            /\ ~IsC1(s[i], s[i + 1]))
  BY Zenon, <1>1, <1>2, <1>3
<1>8. s[i] \in Lead3 =>
        (valid_sequence(s, i, 2) <=>
            2 <= Len(s) - i /\ ThreeBytes(s[i], s[i + 1], s[i + 2]))
  BY Zenon, <1>1, <1>2, <1>4, <1>6
<1>9. s[i] \in Lead4 =>
        (valid_sequence(s, i, 3) <=>
            3 <= Len(s) - i /\ FourBytes(s[i], s[i + 1], s[i + 2], s[i + 3]))
  BY Zenon, <1>1, <1>2, <1>5, <1>6
<1> QED
  BY Zenon, <1>7, <1>8, <1>9

(* What the first character of a text is, by its first byte.               *)
LEMMA HeadForms ==
    ASSUME NEW t, t[1] \in Byte
    PROVE  /\ t[1] <= 127 => WellFormedHead(t) = 1
           /\ t[1] \in Lead2 =>
                WellFormedHead(t) = IF Len(t) >= 2 /\ t[2] \in Trail THEN 2 ELSE 0
           /\ t[1] \in Lead3 =>
                WellFormedHead(t) =
                    IF Len(t) >= 3 /\ ThreeBytes(t[1], t[2], t[3]) THEN 3 ELSE 0
           /\ t[1] \in Lead4 =>
                WellFormedHead(t) =
                    IF Len(t) >= 4 /\ FourBytes(t[1], t[2], t[3], t[4]) THEN 4 ELSE 0
           /\ t[1] > 127 /\ t[1] \notin Lead2 \cup Lead3 \cup Lead4 =>
                WellFormedHead(t) = 0
<1>1. /\ t[1] <= 127 => t[1] \in 0 .. 127
      /\ t[1] > 127 => t[1] \notin 0 .. 127
  BY DEF Byte
<1> QED
  BY ZenonT(60), <1>1, TwoForm, ThreeForm, FourForm, ClassesApart DEF WellFormedHead

(* The two agree on every character but the C1 controls.                   *)
LEMMA SequenceIsHead ==
    ASSUME NEW s \in Seq(Byte), NEW i \in 1 .. Len(s), s[i] > 127,
           NEW n, n = continuations(s[i]),
           NEW h, h = WellFormedHead(SubSeq(s, i, Len(s)))
    PROVE  /\ valid_sequence(s, i, n) <=> h > 0 /\ ~IsC1(s[i], s[i + 1])
           /\ h > 0 => /\ h = n + 1 /\ n \in 1 .. 3 /\ n <= Len(s) - i
                       /\ \A k \in 1 .. n : s[i + k] \in Trail
           /\ h \in 0 .. 4
<1>1. PICK t : t = SubSeq(s, i, Len(s))
  BY Zenon
<1>2. PICK L : L = Len(s) - i
  BY Zenon
<1>3. Len(t) = L + 1 /\ \A k \in 1 .. L + 1 : t[k] = s[i + k - 1]
  <2>1. i \in 1 .. Len(s) + 1 /\ Len(s) \in i - 1 .. Len(s)
    OBVIOUS
  <2>2. Len(s) - i + 1 = L + 1
    BY Zenon, <1>2
  <2> QED
    BY ZenonT(60), <1>1, <2>1, <2>2, Slice
<1>4. L \in Nat /\ s[i] \in Byte
  BY <1>2
<1>5. /\ t[1] = s[i]
      /\ L >= 1 => t[2] = s[i + 1]
      /\ L >= 2 => t[3] = s[i + 2]
      /\ L >= 3 => t[4] = s[i + 3]
  <2>1. /\ i + 1 - 1 = i /\ i + 2 - 1 = i + 1 /\ i + 3 - 1 = i + 2 /\ i + 4 - 1 = i + 3
        /\ 1 \in 1 .. L + 1 /\ (L >= 1 => 2 \in 1 .. L + 1)
        /\ (L >= 2 => 3 \in 1 .. L + 1) /\ (L >= 3 => 4 \in 1 .. L + 1)
    BY <1>4
  <2> QED
    BY Zenon, <1>3, <2>1
<1>6. /\ Len(t) >= 2 <=> L >= 1 /\ 1 <= Len(s) - i
      /\ Len(t) >= 3 <=> L >= 2 /\ 2 <= Len(s) - i
      /\ Len(t) >= 4 <=> L >= 3 /\ 3 <= Len(s) - i
  BY <1>2, <1>3, <1>4
<1>7. t[1] \in Byte /\ t[1] > 127
  BY Zenon, <1>4, <1>5
<1>8. CASE s[i] \in Lead2
  <2>1. n = 1
    BY <1>4, <1>8, Classes, Zenon
  <2>2. h = IF 1 <= L /\ s[i + 1] \in Trail THEN 2 ELSE 0
    <3>1. h = IF Len(t) >= 2 /\ t[2] \in Trail THEN 2 ELSE 0
      BY ZenonT(60), <1>1, <1>5, <1>7, <1>8, HeadForms
    <3> QED
      BY Zenon, <1>2, <1>5, <1>6, <3>1
  <2>3. valid_sequence(s, i, 1) <=> /\ 1 <= L /\ s[i + 1] \in Trail
                                    /\ ~IsC1(s[i], s[i + 1])
    BY Zenon, <1>2, <1>8, SequenceForms
  <2>4. \A k \in 1 .. 1 : k = 1
    OBVIOUS
  <2>5. CASE 1 <= L /\ s[i + 1] \in Trail
    <3>1. h = 2
      BY Zenon, <2>2, <2>5
    <3>2. h > 0 /\ h = n + 1 /\ n \in 1 .. 3 /\ h \in 0 .. 4
      BY <2>1, <3>1
    <3>3. n <= Len(s) - i /\ \A k \in 1 .. n : s[i + k] \in Trail
      BY ZenonT(60), <1>2, <2>1, <2>4, <2>5
    <3> QED
      BY Zenon, <2>1, <2>3, <2>5, <3>2, <3>3
  <2>6. CASE ~(1 <= L /\ s[i + 1] \in Trail)
    <3>1. h = 0
      BY Zenon, <2>2, <2>6
    <3>2. ~(h > 0) /\ h \in 0 .. 4
      BY <3>1
    <3> QED
      BY ZenonT(60), <2>1, <2>3, <2>6, <3>2
  <2> QED
    BY Zenon, <2>5, <2>6
<1>9. CASE s[i] \in Lead3
  <2> DEFINE Good == 2 <= L /\ ThreeBytes(s[i], s[i + 1], s[i + 2])
  <2>1. n = 2 /\ ~IsC1(s[i], s[i + 1])
    BY <1>4, <1>9, Classes, SMTT(30) DEF Lead3, IsC1
  <2>2. h = IF Good THEN 3 ELSE 0
    <3>1. h = IF Len(t) >= 3 /\ ThreeBytes(t[1], t[2], t[3]) THEN 3 ELSE 0
      BY ZenonT(60), <1>1, <1>5, <1>7, <1>9, HeadForms
    <3>2. L >= 2 => L >= 1
      BY <1>4
    <3> QED
      BY Zenon, <1>2, <1>5, <1>6, <3>1, <3>2
  <2>3. valid_sequence(s, i, 2) <=> Good
    BY ZenonT(60), <1>2, <1>9, SequenceForms
  <2>4. \A k \in 1 .. 2 : k = 1 \/ k = 2
    OBVIOUS
  <2>5. Good => s[i + 1] \in Trail /\ s[i + 2] \in Trail
    BY Zenon, ThreeForm
  <2>6. CASE Good
    <3>1. h = 3
      BY Zenon, <2>2, <2>6
    <3>2. h > 0 /\ h = n + 1 /\ n \in 1 .. 3 /\ h \in 0 .. 4
      BY <2>1, <3>1
    <3> QED
      BY ZenonT(60), <1>2, <2>1, <2>3, <2>4, <2>5, <2>6, <3>2
  <2>7. CASE ~Good
    <3>1. h = 0
      BY Zenon, <2>2, <2>7
    <3>2. ~(h > 0) /\ h \in 0 .. 4
      BY <3>1
    <3> QED
      BY ZenonT(60), <2>1, <2>3, <2>7, <3>2
  <2> QED
    BY Zenon, <2>6, <2>7
<1>10. CASE s[i] \in Lead4
  <2> DEFINE Good == 3 <= L /\ FourBytes(s[i], s[i + 1], s[i + 2], s[i + 3])
  <2>1. n = 3 /\ ~IsC1(s[i], s[i + 1])
    BY <1>4, <1>10, Classes DEF Lead4, IsC1
  <2>2. h = IF Good THEN 4 ELSE 0
    <3>1. h = IF Len(t) >= 4 /\ FourBytes(t[1], t[2], t[3], t[4]) THEN 4 ELSE 0
      BY ZenonT(60), <1>1, <1>5, <1>7, <1>10, HeadForms
    <3>2. L >= 3 => L >= 1 /\ L >= 2
      BY <1>4
    <3> QED
      BY ZenonT(60), <1>2, <1>5, <1>6, <3>1, <3>2
  <2>3. valid_sequence(s, i, 3) <=> Good
    BY Zenon, <1>2, <1>10, SequenceForms
  <2>4. \A k \in 1 .. 3 : k = 1 \/ k = 2 \/ k = 3
    OBVIOUS
  <2>5. Good => s[i + 1] \in Trail /\ s[i + 2] \in Trail /\ s[i + 3] \in Trail
    BY Zenon, FourForm
  <2>6. CASE Good
    <3>1. h = 4
      BY Zenon, <2>2, <2>6
    <3>2. h > 0 /\ h = n + 1 /\ n \in 1 .. 3 /\ h \in 0 .. 4
      BY <2>1, <3>1
    <3> QED
      BY ZenonT(60), <1>2, <2>1, <2>3, <2>4, <2>5, <2>6, <3>2
  <2>7. CASE ~Good
    <3>1. h = 0
      BY Zenon, <2>2, <2>7
    <3>2. ~(h > 0) /\ h \in 0 .. 4
      BY <3>1
    <3> QED
      BY ZenonT(60), <2>1, <2>3, <2>7, <3>2
  <2> QED
    BY Zenon, <2>6, <2>7
<1>11. CASE s[i] \notin Lead2 /\ s[i] \notin Lead3 /\ s[i] \notin Lead4
  <2>1. n = -1
    BY <1>4, <1>11, Classes, ZenonT(60)
  <2>2. ~valid_sequence(s, i, n)
    BY <2>1 DEF valid_sequence
  <2>3. h = 0
    BY <1>1, <1>5, <1>7, <1>11, HeadForms, ZenonT(60)
  <2>4. ~(h > 0) /\ h \in 0 .. 4
    BY <2>3
  <2> QED
    BY Zenon, <2>2, <2>4
<1> QED
  BY ZenonT(60), <1>8, <1>9, <1>10, <1>11

(* One turn of the loop of valid_utf8, and one of the reference.           *)
Utf8Turn(f, s, i) ==
    IF i > Len(s) THEN TRUE
    ELSE IF s[i] <= 127 THEN s[i] \notin Control /\ f[i + 1]
    ELSE LET n == continuations(s[i])
         IN  valid_sequence(s, i, n) /\ f[i + n + 1]

WellFormedTurn(f, s, i) ==
    i > Len(s) \/ LET n == WellFormedHead(SubSeq(s, i, Len(s)))
                  IN  n > 0 /\ f[i + n]

\* A byte is an ASCII character or it is not.
LEMMA Ascii == \A a \in Byte : a > 127 <=> ~(a <= 127)
  BY SMT DEF Byte

\* An accepted sequence is within the text.
LEMMA SequenceWithin ==
    ASSUME NEW s, NEW i, NEW n, valid_sequence(s, i, n)
    PROVE  n > 0 /\ n <= Len(s) - i
  BY SMT DEF valid_sequence

(* valid_utf8 and WellFormed are what the loops come to.                   *)
LEMMA Utf8Solved ==
    ASSUME NEW s \in Seq(Byte)
    PROVE  \E f : /\ \A i \in 1 .. Len(s) + 1 : f[i] = Utf8Turn(f, s, i)
                  /\ valid_utf8(s) = f[1]
<1> DEFINE D == 1 .. Len(s) + 1
           Go(i) == /\ ~(i > Len(s))
                    /\ IF s[i] <= 127 THEN s[i] \notin Control
                       ELSE valid_sequence(s, i, continuations(s[i]))
           Jump(i) == IF s[i] <= 127 THEN i + 1 ELSE i + continuations(s[i]) + 1
<1>1. valid_utf8(s) = (CHOOSE f : f = [i \in D |-> Utf8Turn(f, s, i)])[1]
  BY Zenon DEF valid_utf8, Utf8Turn
<1>2. PICK rank, go, jump, base :
        /\ rank = [i \in D |-> Len(s) + 1 - i] /\ go = [i \in D |-> Go(i)]
        /\ jump = [i \in D |-> Jump(i)] /\ base = [i \in D |-> IF i > Len(s) THEN TRUE ELSE FALSE]
  BY Zenon
<1>3. rank \in [D -> 0 .. Len(s)] /\ Len(s) \in Nat
  <2>1. \A i \in D : Len(s) + 1 - i \in 0 .. Len(s)
    OBVIOUS
  <2> QED
    BY <1>2, <2>1
<1>4. ASSUME NEW i \in D, Go(i)
      PROVE  Jump(i) \in D /\ Len(s) + 1 - Jump(i) < Len(s) + 1 - i
  <2>1. i \in 1 .. Len(s)
    <3>1. ~(i > Len(s))
      BY Zenon, <1>4
    <3> QED
      BY <1>3, <3>1
  <2>2. CASE s[i] <= 127
    BY <2>1, <2>2
  <2>3. CASE ~(s[i] <= 127)
    <3>1. PICK n : n = continuations(s[i])
      BY Zenon
    <3>2. n > 0 /\ n <= Len(s) - i
      BY Zenon, <1>4, <2>3, <3>1, SequenceWithin
    <3>3. n \in Int
      BY <2>1, <3>1, Classes
    <3>4. Jump(i) = i + n + 1
      BY Zenon, <2>3, <3>1
    <3> QED
      BY <2>1, <3>2, <3>3, <3>4, SMTT(30)
  <2> QED
    BY Zenon, <2>2, <2>3
<1>5. \A i \in D : go[i] => jump[i] \in D /\ rank[jump[i]] < rank[i]
  BY Zenon, <1>2, <1>4
<1>6. \A i \in D : ~go[i] => base[i] \in BOOLEAN
  BY Zenon, <1>2
<1>7. PICK f \in [D -> BOOLEAN] :
            \A i \in D : f[i] = IF go[i] THEN f[jump[i]] ELSE base[i]
  <2>1. Loop(D, BOOLEAN, Len(s), rank, go, jump, base)
    BY Zenon, <1>3, <1>5, <1>6 DEF Loop
  <2>2. \E f : Computes(f, D, BOOLEAN, go, jump, base)
    BY Zenon, <2>1, LoopExists
  <2> QED
    BY ZenonT(60), <2>2 DEF Computes
<1>8. ASSUME NEW i \in D PROVE f[i] = Utf8Turn(f, s, i)
  <2>1. f[i] = IF Go(i) THEN f[Jump(i)] ELSE IF i > Len(s) THEN TRUE ELSE FALSE
    BY Zenon, <1>2, <1>7
  <2>2. Go(i) => f[Jump(i)] \in BOOLEAN
    BY Zenon, <1>4, <1>7
  <2> QED
    BY Zenon, <2>1, <2>2 DEF Utf8Turn
<1>9. f = [i \in D |-> Utf8Turn(f, s, i)]
  BY Zenon, <1>7, <1>8
<1>10. PICK g : g = CHOOSE h : h = [i \in D |-> Utf8Turn(h, s, i)]
  BY Zenon
<1>11. g = [i \in D |-> Utf8Turn(g, s, i)]
  BY Zenon, <1>9, <1>10
<1>12. \A i \in D : g[i] = Utf8Turn(g, s, i)
  BY Zenon, <1>11
<1> QED
  BY Zenon, <1>1, <1>10, <1>12

(* The character that a text starts with is within it.                     *)
LEMMA HeadWithin ==
    ASSUME NEW s \in Seq(Byte), NEW i \in 1 .. Len(s), NEW h,
           h = WellFormedHead(SubSeq(s, i, Len(s)))
    PROVE  /\ h \in 0 .. 4 /\ i + h <= Len(s) + 1
           /\ s[i] <= 127 => h = 1
<1>0. s[i] \in Byte
  OBVIOUS
<1>1. CASE s[i] > 127
  <2>1. PICK n : n = continuations(s[i])
    BY Zenon
  <2>2. /\ h > 0 => h = n + 1 /\ n \in 1 .. 3 /\ n <= Len(s) - i
        /\ h \in 0 .. 4
    BY Zenon, <1>1, <2>1, SequenceIsHead
  <2>3. ~(s[i] <= 127)
    BY Zenon, <1>0, <1>1, Ascii
  <2>4. i + h <= Len(s) + 1
    BY <2>2
  <2> QED
    BY Zenon, <2>2, <2>3, <2>4
<1>2. CASE s[i] <= 127
  <2>1. PICK t : t = SubSeq(s, i, Len(s))
    BY Zenon
  <2>2. t[1] = s[i]
    <3>1. i \in 1 .. Len(s) + 1 /\ Len(s) \in i - 1 .. Len(s) /\ 1 \in 1 .. Len(s) - i + 1
          /\ i + 1 - 1 = i
      OBVIOUS
    <3> QED
      BY Zenon, <2>1, <3>1, Slice
  <2>3. s[i] \in Byte
    OBVIOUS
  <2>4. h = 1
    BY <1>2, <2>1, <2>2, <2>3, HeadForms, Zenon
  <2> QED
    BY <2>4
<1>3. s[i] > 127 \/ s[i] <= 127
  BY ZenonT(60), <1>0, Ascii
<1> QED
  BY Zenon, <1>1, <1>2, <1>3

\* The same for the reference.
LEMMA WellFormedSolved ==
    ASSUME NEW s \in Seq(Byte)
    PROVE  \E f : /\ \A i \in 1 .. Len(s) + 1 : f[i] = WellFormedTurn(f, s, i)
                  /\ WellFormed(s) = f[1]
<1> DEFINE D == 1 .. Len(s) + 1
           First(i) == WellFormedHead(SubSeq(s, i, Len(s)))
           Go(i) == ~(i > Len(s)) /\ First(i) > 0
<1>1. WellFormed(s) = (CHOOSE f : f = [i \in D |-> WellFormedTurn(f, s, i)])[1]
  BY Zenon DEF WellFormed, WellFormedTurn
<1>2. PICK rank, go, jump, base :
        /\ rank = [i \in D |-> Len(s) + 1 - i] /\ go = [i \in D |-> Go(i)]
        /\ jump = [i \in D |-> i + First(i)] /\ base = [i \in D |-> IF i > Len(s) THEN TRUE ELSE FALSE]
  BY Zenon
<1>3. rank \in [D -> 0 .. Len(s)] /\ Len(s) \in Nat
  <2>1. \A i \in D : Len(s) + 1 - i \in 0 .. Len(s)
    OBVIOUS
  <2> QED
    BY <1>2, <2>1
<1>4. ASSUME NEW i \in D, Go(i)
      PROVE  i + First(i) \in D /\ Len(s) + 1 - (i + First(i)) < Len(s) + 1 - i
  <2>1. i \in 1 .. Len(s)
    BY <1>3, <1>4
  <2>2. PICK h : h = First(i)
    BY Zenon
  <2>3. h \in 0 .. 4 /\ i + h <= Len(s) + 1 /\ h > 0
    BY Zenon, <1>4, <2>1, <2>2, HeadWithin
  <2>4. i + h \in D /\ Len(s) + 1 - (i + h) < Len(s) + 1 - i
    BY <1>3, <2>1, <2>3
  <2> QED
    BY Zenon, <2>2, <2>4
<1>5. \A i \in D : go[i] => jump[i] \in D /\ rank[jump[i]] < rank[i]
  BY Zenon, <1>2, <1>4
<1>6. \A i \in D : ~go[i] => base[i] \in BOOLEAN
  BY ZenonT(60), <1>2
<1>7. PICK f \in [D -> BOOLEAN] :
            \A i \in D : f[i] = IF go[i] THEN f[jump[i]] ELSE base[i]
  <2>1. Loop(D, BOOLEAN, Len(s), rank, go, jump, base)
    BY Zenon, <1>3, <1>5, <1>6 DEF Loop
  <2>2. \E f : Computes(f, D, BOOLEAN, go, jump, base)
    BY Zenon, <2>1, LoopExists
  <2> QED
    BY Zenon, <2>2 DEF Computes
<1>8. ASSUME NEW i \in D PROVE f[i] = WellFormedTurn(f, s, i)
  <2>1. f[i] = IF Go(i) THEN f[i + First(i)] ELSE IF i > Len(s) THEN TRUE ELSE FALSE
    BY Zenon, <1>2, <1>7
  <2>2. Go(i) => f[i + First(i)] \in BOOLEAN
    BY ZenonT(60), <1>4, <1>7
  <2> QED
    BY Zenon, <2>1, <2>2 DEF WellFormedTurn
<1>9. f = [i \in D |-> WellFormedTurn(f, s, i)]
  BY Zenon, <1>7, <1>8
<1>10. PICK g : g = CHOOSE h : h = [i \in D |-> WellFormedTurn(h, s, i)]
  BY Zenon
<1>11. g = [i \in D |-> WellFormedTurn(g, s, i)]
  BY Zenon, <1>9, <1>10
<1>12. \A i \in D : g[i] = WellFormedTurn(g, s, i)
  BY Zenon, <1>11
<1> QED
  BY Zenon, <1>1, <1>10, <1>12

(* No control character at position j, and none from position i on.        *)
PlainAt(s, j) ==
    s[j] \notin Control /\ ~(s[j] = 194 /\ j < Len(s) /\ s[j + 1] \in 128 .. 159)
PlainFrom(s, i) == \A j \in i .. Len(s) : PlainAt(s, j)

\* Trailing bytes are no controls.
LEMMA TrailPlain ==
    ASSUME NEW s, NEW j, s[j] \in Trail
    PROVE  PlainAt(s, j)
<1> PICK a : a = s[j]
  BY Zenon
<1>1. a \in Trail => a \notin Control /\ a # 194
  BY SMT DEF Trail, Control
<1> QED
  BY Zenon, <1>1 DEF PlainAt

\* ASCII characters are plain when they are no controls.
LEMMA AsciiPlain ==
    ASSUME NEW s, NEW j, s[j] \in Byte, s[j] <= 127
    PROVE  PlainAt(s, j) <=> s[j] \notin Control
<1> PICK a : a = s[j]
  BY Zenon
<1>1. a <= 127 /\ a \in Byte => a # 194
  BY SMT DEF Byte
<1> QED
  BY Zenon, <1>1 DEF PlainAt

\* A byte that is not ASCII is no control character.
LEMMA HighPlain == \A a \in Byte : a > 127 => a \notin Control
  BY SMT DEF Byte, Control

\* Other bytes are plain when they do not lead to a C1 control.
LEMMA LeadPlain ==
    ASSUME NEW s, NEW j, s[j] \in Byte, s[j] > 127, j < Len(s)
    PROVE  PlainAt(s, j) <=> ~IsC1(s[j], s[j + 1])
<1>1. s[j] \notin Control
  BY Zenon, HighPlain
<1> QED
  BY Zenon, <1>1 DEF PlainAt, IsC1

(* The loop accepts what is left of a text exactly when that is well-formed *)
(* and has no controls.                                                    *)
LEMMA Utf8Exact ==
    ASSUME NEW s \in Seq(Byte)
    PROVE  valid_utf8(s) <=> WellFormed(s) /\ NoControls(s)
<1>1. PICK f : /\ \A i \in 1 .. Len(s) + 1 : f[i] = Utf8Turn(f, s, i)
               /\ valid_utf8(s) = f[1]
  BY Zenon, Utf8Solved
<1>2. PICK g : /\ \A i \in 1 .. Len(s) + 1 : g[i] = WellFormedTurn(g, s, i)
               /\ WellFormed(s) = g[1]
  BY Zenon, WellFormedSolved
<1> DEFINE Agree(i) == f[i] <=> g[i] /\ PlainFrom(s, i)
           S == {m \in Nat : \A i \in 1 .. Len(s) + 1 :
                                Len(s) + 1 - i <= m => Agree(i)}
<1>3. Len(s) \in Nat
  OBVIOUS
<1>4. Agree(Len(s) + 1)
  <2>1. Len(s) + 1 > Len(s) /\ Len(s) + 1 \in 1 .. Len(s) + 1
    BY <1>3
  <2>2. f[Len(s) + 1] = TRUE
    BY Zenon, <1>1, <2>1 DEF Utf8Turn
  <2>3. g[Len(s) + 1] = TRUE
    BY Zenon, <1>2, <2>1 DEF WellFormedTurn
  <2>4. \A j : j \notin Len(s) + 1 .. Len(s)
    BY <1>3
  <2> QED
    BY Zenon, <2>2, <2>3, <2>4 DEF PlainFrom
<1>5. 0 \in S
  <2>1. ASSUME NEW i \in 1 .. Len(s) + 1, Len(s) + 1 - i <= 0 PROVE i = Len(s) + 1
    BY <1>3, <2>1
  <2> QED
    BY <1>4, <2>1, Zenon
<1>6. ASSUME NEW m \in Nat, m \in S PROVE m + 1 \in S
  <2>1. \A i \in 1 .. Len(s) + 1 : Len(s) + 1 - i <= m => Agree(i)
    BY Zenon, <1>6
  <2>2. ASSUME NEW i \in 1 .. Len(s), Len(s) + 1 - i <= m + 1 PROVE Agree(i)
    <3>1. /\ ~(i > Len(s)) /\ i \in 1 .. Len(s) + 1
          /\ i \in i .. Len(s) /\ s[i] \in Byte
      BY <1>3
    <3>2. PICK h : h = WellFormedHead(SubSeq(s, i, Len(s)))
      BY Zenon
    <3>3. h \in 0 .. 4 /\ i + h <= Len(s) + 1 /\ (s[i] <= 127 => h = 1)
      BY <3>2, HeadWithin
    <3>4. g[i] <=> h > 0 /\ g[i + h]
      BY Zenon, <1>2, <3>1, <3>2 DEF WellFormedTurn
    <3>5. h > 0 => Agree(i + h)
      <4>1. h > 0 => i + h \in 1 .. Len(s) + 1 /\ Len(s) + 1 - (i + h) <= m
        BY <1>3, <2>2, <3>3, SMTT(30)
      <4> QED
        BY Zenon, <2>1, <4>1
    <3>6. CASE s[i] <= 127
      <4>1. f[i] <=> s[i] \notin Control /\ f[i + 1]
        BY Zenon, <1>1, <3>1, <3>6 DEF Utf8Turn
      <4>2. h = 1 /\ h > 0
        BY <3>3, <3>6
      <4>3. PlainFrom(s, i) <=> PlainAt(s, i) /\ PlainFrom(s, i + 1)
        <5>1. \A j \in i .. Len(s) : j = i \/ j \in i + 1 .. Len(s)
          BY <1>3
        <5>2. \A j \in i + 1 .. Len(s) : j \in i .. Len(s)
          BY <1>3
        <5> QED
          BY Zenon, <3>1, <5>1, <5>2 DEF PlainFrom
      <4>4. PlainAt(s, i) <=> s[i] \notin Control
        BY Zenon, <3>1, <3>6, AsciiPlain
      <4> QED
        BY ZenonT(60), <3>4, <3>5, <4>1, <4>2, <4>3, <4>4
    <3>7. CASE s[i] > 127
      <4>1. PICK n : n = continuations(s[i])
        BY Zenon
      <4>2. f[i] <=> valid_sequence(s, i, n) /\ f[i + n + 1]
        <5>1. ~(s[i] <= 127)
          BY Zenon, <3>1, <3>7, Ascii
        <5> QED
          BY Zenon, <1>1, <3>1, <4>1, <5>1 DEF Utf8Turn
      <4>3. /\ valid_sequence(s, i, n) <=> h > 0 /\ ~IsC1(s[i], s[i + 1])
            /\ h > 0 => /\ h = n + 1 /\ n \in 1 .. 3 /\ n <= Len(s) - i
                        /\ \A k \in 1 .. n : s[i + k] \in Trail
        BY Zenon, <3>2, <3>7, <4>1, SequenceIsHead
      <4>4. CASE ~(h > 0)
        BY ZenonT(60), <3>4, <4>2, <4>3, <4>4
      <4>5. CASE h > 0
        <5>1. i + n + 1 = i + h /\ i < Len(s)
          BY <1>3, <4>3, <4>5
        <5>2. PlainAt(s, i) <=> ~IsC1(s[i], s[i + 1])
          BY Zenon, <3>1, <3>7, <5>1, LeadPlain
        <5>3. PlainFrom(s, i) <=> PlainAt(s, i) /\ PlainFrom(s, i + h)
          <6>1. ASSUME NEW j \in i .. Len(s), j # i, j \notin i + h .. Len(s)
                PROVE  PlainAt(s, j)
            <7>1. j - i \in 1 .. n /\ i + (j - i) = j
              BY <1>3, <4>3, <4>5, <6>1, SMTT(30)
            <7>2. s[j] \in Trail
              BY Zenon, <4>3, <4>5, <7>1
            <7> QED
              BY Zenon, <7>2, TrailPlain
          <6>2. \A j \in i + h .. Len(s) : j \in i .. Len(s)
            BY <1>3, <3>3
          <6> QED
            BY Zenon, <3>1, <6>1, <6>2 DEF PlainFrom
        <5> QED
          BY ZenonT(60), <3>4, <3>5, <4>2, <4>3, <4>5, <5>1, <5>2, <5>3
      <4> QED
        BY Zenon, <4>4, <4>5
    <3> QED
      BY Zenon, <3>1, <3>6, <3>7, Ascii
  <2>3. \A i \in 1 .. Len(s) + 1 : i \in 1 .. Len(s) \/ i = Len(s) + 1
    BY <1>3
  <2>4. m + 1 \in Nat
    OBVIOUS
  <2> QED
    BY Zenon, <1>4, <2>2, <2>3, <2>4
<1> HIDE DEF S
<1>7. Len(s) \in S
  BY Zenon, <1>3, <1>5, <1>6, Induction
<1>8. Agree(1)
  <2>1. 1 \in 1 .. Len(s) + 1 /\ Len(s) + 1 - 1 <= Len(s)
    BY <1>3
  <2> QED
    BY Zenon, <1>7, <2>1 DEF S
<1>9. PlainFrom(s, 1) <=> NoControls(s)
  BY Zenon DEF PlainFrom, PlainAt, NoControls
<1> QED
  BY Zenon, <1>1, <1>2, <1>8, <1>9

(* identity.c accepts exactly the well-formed texts without controls, and  *)
(* claims.c agrees with it on well-formed texts.                           *)
LEMMA Identities == InputOK => IdentityExact
<1> SUFFICES ASSUME InputOK PROVE IdentityExact
  OBVIOUS
<1>1. text \in Seq(Byte)
  BY Zenon DEF InputOK
<1>2. valid_utf8(text) <=> WellFormed(text) /\ NoControls(text)
  BY Zenon, <1>1, Utf8Exact
<1>3. valid_identity_string(text) <=> text # <<>> /\ NoControls(text)
  BY Zenon DEF valid_identity_string, NoControls
<1> QED
  BY Zenon, <1>2, <1>3 DEF IdentityExact

-----------------------------------------------------------------------------
(* The invariants                                                          *)

(* identity.c accepts exactly the well-formed UTF-8 texts without control  *)
(* characters, and claims.c accepts no control character that it refuses.  *)
THEOREM InputsIdentityExact == Spec => []IdentityExact
  BY InputTypes, Identities, PTL

(* A list that policy.c accepts means the same to claims.c, and a host is  *)
(* allowed by http_transport.c only when it is an entry.                   *)
THEOREM InputsListsAgree == Spec => []ListsAgree
  BY InputTypes, Lists, PTL

(* scope_string_contains accepts at most max_scopes different tokens, one  *)
(* blank apart, finds exactly those and never writes past its arrays.      *)
THEOREM InputsScopesExact == Spec => []ScopesExact
  BY InputTypes, Scopes, PTL

(* A jwks_uri that metadata.c accepts is one that the transport fetches.   *)
THEOREM InputsUrlChecksAgree == Spec => []UrlChecksAgree
  BY InputTypes, UrlsAgree, PTL

(* The metadata URL of an accepted issuer is at the issuer's authority.    *)
THEOREM InputsIssuerAuthorityKept == Spec => []IssuerAuthorityKept
  BY InputTypes, AuthorityKept, PTL
=============================================================================
