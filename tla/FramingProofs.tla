--------------------------- MODULE FramingProofs ---------------------------
(***************************************************************************)
(* Theorems about the messages between client and server, for every set of *)
(* characters and ports, all limits that fit into a byte, lines of any     *)
(* length and pieces of any size: a request arrives as it was typed, the   *)
(* parsers accept what a builder makes and nothing else, and a reply is    *)
(* understood as it was meant.                                             *)
(***************************************************************************)
EXTENDS Framing, ListLemmas

-----------------------------------------------------------------------------
(***************************************************************************)
(* Strings, and the two halves of one.                                     *)
(***************************************************************************)
LEMMA StringsAre ==
  ASSUME NEW S, NEW n \in Nat
  PROVE  \A s : s \in Strings(S, n) <=> s \in Seq(S) /\ Len(s) <= n
<1>1. ASSUME NEW s \in Strings(S, n)
      PROVE  s \in Seq(S) /\ Len(s) <= n
  <2>1. PICK k \in 0 .. n : s \in [1 .. k -> S]
    BY <1>1 DEF Strings
  <2>2. s \in Seq(S)
    BY <2>1, SeqDef
  <2>3. Len(s) = k
    BY <2>1, <2>2, LenProperties
  <2> QED
    BY <2>2, <2>3
<1>2. ASSUME NEW s \in Seq(S), Len(s) <= n
      PROVE  s \in Strings(S, n)
  <2>1. s \in [1 .. Len(s) -> S] /\ Len(s) \in 0 .. n
    BY <1>2, LenProperties
  <2> QED
    BY <2>1 DEF Strings
<1> QED
  BY <1>1, <1>2

LEMMA HalvesOf ==
  ASSUME NEW S, NEW s \in Seq(S), NEW n \in DOMAIN s
  PROVE  Prefix(s, n) \in Seq(S) /\ Suffix(s, n) \in Seq(S) /\ Prefix(s, n) \o Suffix(s, n) = s
<1>1. DOMAIN s = 1 .. Len(s) /\ Len(s) \in Nat
  BY LenProperties
<1>2. \A i \in 1 .. Len(s) : s[i] \in S
  BY ElementOfSeq
<1>3. Prefix(s, n) \in Seq(S) /\ Suffix(s, n) \in Seq(S)
  <2>1. n \in Int /\ n + 1 \in Int /\ Len(s) \in Int
    BY <1>1
  <2>2. (\A i \in 1 .. n : s[i] \in S) /\ \A i \in n + 1 .. Len(s) : s[i] \in S
    BY <1>1, <1>2
  <2> QED
    BY <2>1, <2>2, SubSeqProperties DEF Prefix, Suffix
<1>4. SubSeq(s, 1, n) \o SubSeq(s, n + 1, Len(s)) = SubSeq(s, 1, Len(s))
  <2>1. 1 \in 1 .. Len(s) + 1 /\ n \in 1 - 1 .. Len(s) /\ Len(s) \in n .. Len(s)
    BY <1>1
  <2> QED
    BY <2>1, ConcatAdjacentSubSeq
<1> QED
  BY <1>3, <1>4, SubSeqFull DEF Prefix, Suffix

LEMMA JoinIs ==
  ASSUME NEW S, NEW s \in Seq(S), NEW t \in Seq(S)
  PROVE  /\ s \o t \in Seq(S)
         /\ Len(s) \in Nat /\ Len(t) \in Nat /\ Len(s \o t) = Len(s) + Len(t)
         /\ \A i \in 1 .. Len(s) : (s \o t)[i] = s[i]
         /\ \A i \in 1 .. Len(t) : (s \o t)[Len(s) + i] = t[i]
<1> DEFINE v == s \o t
<1>1. /\ v \in Seq(S) /\ Len(v) = Len(s) + Len(t)
      /\ \A i \in 1 .. Len(s) + Len(t) : v[i] = IF i <= Len(s) THEN s[i] ELSE t[i - Len(s)]
  BY ConcatProperties
<1>2. Len(s) \in Nat /\ Len(t) \in Nat
  BY LenProperties
<1> HIDE DEF v
<1>3. \A i \in 1 .. Len(s) : v[i] = s[i]
  BY <1>1, <1>2
<1>4. ASSUME NEW i \in 1 .. Len(t)
      PROVE  v[Len(s) + i] = t[i]
  <2>1. v[Len(s) + i] = t[Len(s) + i - Len(s)]
    BY <1>1, <1>2
  <2>2. Len(s) + i - Len(s) = i
    BY <1>2
  <2> QED
    BY <2>1, <2>2
<1> QED
  BY <1>1, <1>2, <1>3, <1>4 DEF v

LEMMA PieceIs ==
  ASSUME NEW S, NEW s \in Seq(S), NEW m \in Nat \ {0}, NEW k \in Nat, m + k <= Len(s) + 1
  PROVE  /\ SubSeq(s, m, m + k - 1) \in Seq(S)
         /\ Len(SubSeq(s, m, m + k - 1)) = k
         /\ \A i \in 1 .. k : SubSeq(s, m, m + k - 1)[i] = s[m + i - 1]
<1> DEFINE n == m + k - 1
<1>1. Len(s) \in Nat /\ m \in Int /\ n \in Int /\ n <= Len(s) /\ n - m + 1 = k
      /\ (m <= n <=> k # 0)
  BY LenProperties
<1>2. \A i \in m .. n : s[i] \in S
  BY <1>1, ElementOfSeq
<1> HIDE DEF n
<1>3. /\ SubSeq(s, m, n) \in Seq(S)
      /\ Len(SubSeq(s, m, n)) = IF m <= n THEN n - m + 1 ELSE 0
      /\ \A i \in 1 .. n - m + 1 : SubSeq(s, m, n)[i] = s[m + i - 1]
  BY <1>1, <1>2, SubSeqProperties
<1>4. Len(SubSeq(s, m, n)) = k /\ \A i \in 1 .. k : SubSeq(s, m, n)[i] = s[m + i - 1]
  BY <1>1, <1>3
<1> QED
  BY <1>3, <1>4 DEF n

\* The numbers are kept out of the proofs behind the set Bytes: these are the facts
\* about it that they use.
LEMMA OneByte ==
  /\ 0 \in Bytes /\ 1 \in Bytes /\ 2 \in Bytes
  /\ \A n \in Bytes : n \in Nat /\ uint8(n) = n /\ 0 .. n \subseteq Bytes
<1>1. 0 \in Bytes /\ 1 \in Bytes /\ 2 \in Bytes
  BY SMT DEF Bytes
<1>2. ASSUME NEW n \in Bytes
      PROVE  n \in Nat /\ uint8(n) = n /\ 0 .. n \subseteq Bytes
  <2>1. n \in Nat /\ n <= 255
    BY SMT DEF Bytes
  <2>2. uint8(n) = n
    BY <2>1, SMT DEF uint8
  <2>3. 0 .. n \subseteq Bytes
    BY <2>1, SMT DEF Bytes
  <2> QED
    BY <2>1, <2>2, <2>3
<1> QED
  BY <1>1, <1>2

\* Whatever fits into the fields fits into a message, and a character is a byte.
LEMMA LimitsAre ==
  /\ MaxUser \in Nat \ {0} /\ MaxPass \in Nat \ {0} /\ MaxGroup \in Nat \ {0} /\ MaxIp \in Nat \ {0}
  /\ 2 + (MaxUser + MaxPass) \in Bytes /\ 2 + (MaxGroup + 1) \in Bytes /\ 2 + (MaxIp + 3) \in Bytes
  /\ Chars \subseteq Bytes /\ RawBytes \subseteq Bytes
  /\ NUL \notin Chars /\ Newline \notin Chars
  /\ MaxLine \in Nat /\ MaxRaw \in Bytes
<1>1. /\ MaxUser \in Nat \ {0} /\ MaxPass \in Nat \ {0} /\ MaxGroup \in Nat \ {0} /\ MaxIp \in Nat \ {0}
      /\ 2 + (MaxUser + MaxPass) < 256 /\ 2 + (MaxGroup + 1) < 256 /\ 2 + (MaxIp + 3) < 256
  BY FitsAssumption
<1>2. \A n \in Nat : n < 256 => n \in Bytes
  BY DEF Bytes
<1>3. /\ 2 + (MaxUser + MaxPass) \in Bytes /\ 2 + (MaxGroup + 1) \in Bytes
      /\ 2 + (MaxIp + 3) \in Bytes
  BY <1>1, <1>2
<1> QED
  BY <1>1, <1>3, CharsAssumption, BoundsAssumption

LEMMA LengthsAre ==
  /\ \A n \in 0 .. MaxUser : n \in Bytes
  /\ \A n \in 0 .. MaxPass : n \in Bytes
  /\ \A n \in 0 .. MaxGroup : n \in Bytes
  /\ \A n \in 0 .. MaxIp : n \in Bytes
<1> DEFINE a == 2 + (MaxUser + MaxPass)
           b == 2 + (MaxGroup + 1)
           c == 2 + (MaxIp + 3)
<1>1. 0 .. a \subseteq Bytes /\ 0 .. b \subseteq Bytes /\ 0 .. c \subseteq Bytes
  BY LimitsAre, OneByte
<1>2. /\ 0 .. MaxUser \subseteq 0 .. a /\ 0 .. MaxPass \subseteq 0 .. a
      /\ 0 .. MaxGroup \subseteq 0 .. b /\ 0 .. MaxIp \subseteq 0 .. c
  BY LimitsAre
<1> HIDE DEF a, b, c
<1> QED
  BY <1>1, <1>2

-----------------------------------------------------------------------------
(***************************************************************************)
(* The values that the builders make, byte by byte.                        *)
(***************************************************************************)
LEMMA SizedIs ==
  ASSUME NEW s \in Seq(Bytes), Len(s) \in Bytes
  PROVE  /\ Sized(s) \in Seq(Bytes)
         /\ Len(s) \in Nat /\ Len(Sized(s)) = 1 + Len(s)
         /\ Sized(s)[1] = Len(s)
         /\ \A i \in 1 .. Len(s) : Sized(s)[1 + i] = s[i]
<1> DEFINE h == <<Len(s)>>
<1>1. Len(s) \in Nat /\ Len(s) \in Bytes /\ uint8(Len(s)) = Len(s)
  BY OneByte
<1>2. h \in Seq(Bytes) /\ Len(h) = 1 /\ h[1] = Len(s)
  BY <1>1
<1>3. Sized(s) = h \o s
  BY <1>1 DEF Sized
<1> HIDE DEF h
<1>4. /\ h \o s \in Seq(Bytes) /\ Len(h \o s) = Len(h) + Len(s)
      /\ \A i \in 1 .. Len(h) : (h \o s)[i] = h[i]
      /\ \A i \in 1 .. Len(s) : (h \o s)[Len(h) + i] = s[i]
  BY <1>2, JoinIs
<1>5. (h \o s)[1] = h[1]
  BY <1>2, <1>4
<1> QED
  BY <1>1, <1>2, <1>3, <1>4, <1>5

LEMMA GroupIs ==
  ASSUME NEW s \in Seq(Bytes), Len(s) \in Bytes
  PROVE  /\ GroupValue(s) \in Seq(Bytes)
         /\ Len(s) \in Nat /\ Len(GroupValue(s)) = 1 + Len(s)
         /\ GroupValue(s)[1] = Len(s)
         /\ \A i \in 1 .. Len(s) : GroupValue(s)[1 + i] = s[i]
BY SizedIs DEF GroupValue

LEMMA AuthIs ==
  ASSUME NEW user \in Seq(Bytes), NEW pass \in Seq(Bytes), Len(user) \in Bytes, Len(pass) \in Bytes
  PROVE  /\ AuthValue(user, pass) \in Seq(Bytes)
         /\ Len(user) \in Nat /\ Len(pass) \in Nat
         /\ Len(AuthValue(user, pass)) = 2 + Len(user) + Len(pass)
         /\ AuthValue(user, pass)[1] = Len(user)
         /\ \A i \in 1 .. Len(user) : AuthValue(user, pass)[1 + i] = user[i]
         /\ AuthValue(user, pass)[2 + Len(user)] = Len(pass)
         /\ \A i \in 1 .. Len(pass) : AuthValue(user, pass)[2 + Len(user) + i] = pass[i]
<1> DEFINE a == Sized(user)
           b == Sized(pass)
<1>1. /\ a \in Seq(Bytes) /\ Len(user) \in Nat /\ Len(a) = 1 + Len(user)
      /\ a[1] = Len(user) /\ \A i \in 1 .. Len(user) : a[1 + i] = user[i]
  BY SizedIs
<1>2. /\ b \in Seq(Bytes) /\ Len(pass) \in Nat /\ Len(b) = 1 + Len(pass)
      /\ b[1] = Len(pass) /\ \A i \in 1 .. Len(pass) : b[1 + i] = pass[i]
  BY SizedIs
<1> HIDE DEF a, b
<1>3. AuthValue(user, pass) = a \o b
  BY DEF AuthValue, a, b
<1>a. a \in Seq(Bytes) /\ b \in Seq(Bytes)
  BY <1>1, <1>2
<1>4. /\ a \o b \in Seq(Bytes) /\ Len(a \o b) = Len(a) + Len(b)
      /\ \A i \in 1 .. Len(a) : (a \o b)[i] = a[i]
      /\ \A i \in 1 .. Len(b) : (a \o b)[Len(a) + i] = b[i]
  BY <1>a, JoinIs
<1> DEFINE v == a \o b
<1> HIDE DEF v
<1>5. v[1] = Len(user) /\ \A i \in 1 .. Len(user) : v[1 + i] = user[i]
  BY <1>1, <1>4 DEF v
<1>6. v[2 + Len(user)] = Len(pass)
  <2>1. v[Len(a) + 1] = b[1] /\ Len(a) + 1 = 2 + Len(user)
    BY <1>1, <1>2, <1>4 DEF v
  <2> QED
    BY <1>2, <2>1
<1>7. ASSUME NEW i \in 1 .. Len(pass)
      PROVE  v[2 + Len(user) + i] = pass[i]
  <2>1. v[Len(a) + (1 + i)] = b[1 + i] /\ Len(a) + (1 + i) = 2 + Len(user) + i
    BY <1>1, <1>2, <1>4 DEF v
  <2> QED
    BY <1>2, <2>1
<1>8. v \in Seq(Bytes) /\ Len(v) = 2 + Len(user) + Len(pass)
  BY <1>1, <1>2, <1>4 DEF v
<1>9. AuthValue(user, pass) = v
  BY <1>3 DEF v
<1> QED
  BY <1>1, <1>2, <1>5, <1>6, <1>7, <1>8, <1>9

\* ntohs (htons (port)).
LEMMA PortIs ==
  ASSUME NEW port \in Words
  PROVE  port \div 256 \in Bytes /\ port % 256 \in Bytes /\ Port(port \div 256, port % 256) = port
<1>1. \A n \in Nat : n % 256 \in 0 .. 255 /\ (n \div 256) * 256 + (n % 256) = n
  BY SMT
<1>2. port \in Nat /\ port <= 65535
  BY SMT DEF Words
<1>3. port \div 256 \in 0 .. 255
  BY <1>2, SMT
<1> QED
  BY <1>1, <1>2, <1>3, SMT DEF Bytes, Port

LEMMA InfoIs ==
  ASSUME NEW ip \in Seq(Bytes), Len(ip) \in Bytes, NEW port \in Words
  PROVE  /\ InfoValue(ip, port) \in Seq(Bytes)
         /\ Len(ip) \in Nat /\ Len(InfoValue(ip, port)) = 3 + Len(ip)
         /\ InfoValue(ip, port)[1] = Len(ip)
         /\ \A i \in 1 .. Len(ip) : InfoValue(ip, port)[1 + i] = ip[i]
         /\ InfoValue(ip, port)[2 + Len(ip)] = port \div 256
         /\ InfoValue(ip, port)[3 + Len(ip)] = port % 256
<1> DEFINE a == Sized(ip)
           b == <<port \div 256, port % 256>>
<1>1. /\ a \in Seq(Bytes) /\ Len(ip) \in Nat /\ Len(a) = 1 + Len(ip)
      /\ a[1] = Len(ip) /\ \A i \in 1 .. Len(ip) : a[1 + i] = ip[i]
  BY SizedIs
<1>2. b \in Seq(Bytes) /\ Len(b) = 2 /\ b[1] = port \div 256 /\ b[2] = port % 256
  BY PortIs
<1> HIDE DEF a, b
<1>3. InfoValue(ip, port) = a \o b
  BY DEF InfoValue, a, b
<1>a. a \in Seq(Bytes) /\ b \in Seq(Bytes)
  BY <1>1, <1>2
<1>4. /\ a \o b \in Seq(Bytes) /\ Len(a \o b) = Len(a) + Len(b)
      /\ \A i \in 1 .. Len(a) : (a \o b)[i] = a[i]
      /\ \A i \in 1 .. Len(b) : (a \o b)[Len(a) + i] = b[i]
  BY <1>a, JoinIs
<1> DEFINE v == a \o b
<1> HIDE DEF v
<1>5. v[1] = Len(ip) /\ \A i \in 1 .. Len(ip) : v[1 + i] = ip[i]
  BY <1>1, <1>4 DEF v
<1>6. v[2 + Len(ip)] = b[1] /\ v[3 + Len(ip)] = b[2]
  <2>1. v[Len(a) + 1] = b[1] /\ v[Len(a) + 2] = b[2]
    BY <1>2, <1>4 DEF v
  <2>2. Len(a) + 1 = 2 + Len(ip) /\ Len(a) + 2 = 3 + Len(ip)
    BY <1>1
  <2> QED
    BY <2>1, <2>2
<1> QED
  BY <1>1, <1>2, <1>3, <1>4, <1>5, <1>6 DEF v
-----------------------------------------------------------------------------
(***************************************************************************)
(* The parsers of the server: a value is accepted if and only if it is put *)
(* together from fields of the right lengths, and for these fields only.   *)
(***************************************************************************)
LEMMA AuthUnique ==
  ASSUME NEW user \in Seq(Bytes), NEW pass \in Seq(Bytes), Len(user) \in Bytes, Len(pass) \in Bytes,
         NEW user2 \in Seq(Bytes), NEW pass2 \in Seq(Bytes), Len(user2) \in Bytes, Len(pass2) \in Bytes,
         AuthValue(user, pass) = AuthValue(user2, pass2)
  PROVE  user = user2 /\ pass = pass2
<1> DEFINE v == AuthValue(user, pass)
<1>1. /\ Len(user) \in Nat /\ Len(pass) \in Nat
      /\ v[1] = Len(user)
      /\ \A i \in 1 .. Len(user) : v[1 + i] = user[i]
      /\ v[2 + Len(user)] = Len(pass)
      /\ \A i \in 1 .. Len(pass) : v[2 + Len(user) + i] = pass[i]
  BY AuthIs
<1>2. /\ v[1] = Len(user2)
      /\ \A i \in 1 .. Len(user2) : v[1 + i] = user2[i]
      /\ v[2 + Len(user2)] = Len(pass2)
      /\ \A i \in 1 .. Len(pass2) : v[2 + Len(user2) + i] = pass2[i]
  <2> DEFINE w == AuthValue(user2, pass2)
  <2>1. /\ w[1] = Len(user2)
        /\ \A i \in 1 .. Len(user2) : w[1 + i] = user2[i]
        /\ w[2 + Len(user2)] = Len(pass2)
        /\ \A i \in 1 .. Len(pass2) : w[2 + Len(user2) + i] = pass2[i]
    BY AuthIs
  <2>2. v = w
    OBVIOUS
  <2> HIDE DEF v, w
  <2> QED
    BY <2>1, <2>2
<1> HIDE DEF v
<1>3. user = user2
  <2>1. Len(user) = Len(user2) /\ \A i \in 1 .. Len(user) : user[i] = user2[i]
    BY <1>1, <1>2
  <2> QED
    BY <2>1, SeqEqual
<1>4. pass = pass2
  <2>1. Len(pass) = Len(pass2) /\ \A i \in 1 .. Len(pass) : pass[i] = pass2[i]
    BY <1>1, <1>2, <1>3
  <2> QED
    BY <2>1, SeqEqual
<1> QED
  BY <1>3, <1>4

LEMMA AuthParsed ==
  ASSUME NEW user \in Seq(Bytes), NEW pass \in Seq(Bytes),
         Len(user) \in 1 .. MaxUser - 1, Len(pass) \in 1 .. MaxPass - 1
  PROVE  parse_auth_value(AuthValue(user, pass)) = <<CString(user), CString(pass)>>
<1> DEFINE v == AuthValue(user, pass)
           u == SubSeq(v, 2, 1 + v[1])
           p == SubSeq(v, v[1] + 3, v[1] + 2 + v[v[1] + 2])
<1>1. /\ v \in Seq(Bytes) /\ Len(user) \in Nat /\ Len(pass) \in Nat
      /\ Len(v) = 2 + Len(user) + Len(pass)
      /\ v[1] = Len(user)
      /\ \A i \in 1 .. Len(user) : v[1 + i] = user[i]
      /\ v[2 + Len(user)] = Len(pass)
      /\ \A i \in 1 .. Len(pass) : v[2 + Len(user) + i] = pass[i]
  <2>1. Len(user) \in Bytes /\ Len(pass) \in Bytes
    BY LengthsAre, LimitsAre
  <2> QED
    BY <2>1, AuthIs
<1> HIDE DEF v
<1>2. u = user
  <2> DEFINE k == Len(user)
             x == SubSeq(v, 2, 2 + k - 1)
  <2>1. x \in Seq(Bytes) /\ Len(x) = k /\ \A i \in 1 .. k : x[i] = v[2 + i - 1]
    <3>1. 2 \in Nat \ {0} /\ k \in Nat /\ 2 + k <= Len(v) + 1 /\ v \in Seq(Bytes)
      BY <1>1
    <3> QED
      BY <3>1, PieceIs, SMTT(30)
  <2>2. x = u
    BY <1>1
  <2> HIDE DEF x
  <2>3. \A i \in 1 .. k : x[i] = user[i]
    BY <1>1, <2>1
  <2>4. x = user
    BY <2>1, <2>3, SeqEqual
  <2> QED
    BY <2>2, <2>4
<1>3. p = pass
  <2> DEFINE k == Len(pass)
             m == Len(user) + 3
             x == SubSeq(v, m, m + k - 1)
  <2>1. x \in Seq(Bytes) /\ Len(x) = k /\ \A i \in 1 .. k : x[i] = v[m + i - 1]
    <3>1. m \in Nat \ {0} /\ k \in Nat /\ m + k <= Len(v) + 1 /\ v \in Seq(Bytes)
      BY <1>1
    <3> HIDE DEF m, k
    <3> QED
      BY <3>1, PieceIs, SMTT(30)
  <2>2. x = p
    BY <1>1
  <2> HIDE DEF x
  <2>3. \A i \in 1 .. k : x[i] = pass[i]
    BY <1>1, <2>1
  <2>4. x = pass
    BY <2>1, <2>3, SeqEqual
  <2> QED
    BY <2>2, <2>4
<1>4. /\ Len(v) >= 2 /\ v[1] + 2 <= Len(v) /\ v[1] + 2 + v[v[1] + 2] = Len(v)
      /\ v[1] \in 1 .. MaxUser - 1 /\ v[v[1] + 2] \in 1 .. MaxPass - 1
  <2>1. v[1] + 2 = 2 + Len(user)
    BY <1>1
  <2>2. v[v[1] + 2] = Len(pass)
    BY <1>1, <2>1
  <2> QED
    BY <1>1, <2>1, <2>2
<1>5. parse_auth_value(v) = <<CString(u), CString(p)>>
  BY <1>4 DEF parse_auth_value, Ends
<1> QED
  BY <1>2, <1>3, <1>5 DEF v

LEMMA AuthAccepted ==
  ASSUME NEW S \in SUBSET Bytes, NEW v \in Seq(S), parse_auth_value(v) # Malformed
  PROVE  \E user, pass \in Seq(S) :
           /\ Len(user) \in 1 .. MaxUser - 1 /\ Len(pass) \in 1 .. MaxPass - 1
           /\ v = AuthValue(user, pass)
<1> DEFINE n == v[1]
           k == v[n + 2]
           u == SubSeq(v, 2, 2 + n - 1)
           p == SubSeq(v, n + 3, n + 3 + k - 1)
<1>1. /\ Len(v) \in Nat /\ n + 2 <= Len(v) /\ n + 2 + k = Len(v)
      /\ n \in 1 .. MaxUser - 1 /\ k \in 1 .. MaxPass - 1
  BY LenProperties DEF parse_auth_value, Ends
<1> HIDE DEF n, k
<1>2. n \in Nat /\ k \in Nat /\ n \in Bytes /\ k \in Bytes
  <2>1. MaxUser \in Nat /\ MaxPass \in Nat
    BY LimitsAre
  <2>2. n \in 0 .. MaxUser /\ k \in 0 .. MaxPass
    BY <1>1, <2>1
  <2> QED
    BY <2>1, <2>2, LengthsAre
<1>3. u \in Seq(S) /\ Len(u) = n /\ \A i \in 1 .. n : u[i] = v[2 + i - 1]
  <2>1. 2 \in Nat \ {0} /\ 2 + n <= Len(v) + 1
    BY <1>1, <1>2
  <2> QED
    BY <1>2, <2>1, PieceIs
<1>4. p \in Seq(S) /\ Len(p) = k /\ \A i \in 1 .. k : p[i] = v[n + 3 + i - 1]
  <2>1. n + 3 \in Nat \ {0} /\ n + 3 + k <= Len(v) + 1
    BY <1>1, <1>2
  <2> QED
    BY <1>2, <2>1, PieceIs
<1> HIDE DEF u, p
<1> DEFINE w == AuthValue(u, p)
<1>5. /\ w \in Seq(Bytes) /\ Len(w) = 2 + n + k
      /\ w[1] = n /\ \A i \in 1 .. n : w[1 + i] = u[i]
      /\ w[2 + n] = k /\ \A i \in 1 .. k : w[2 + n + i] = p[i]
  <2>1. u \in Seq(Bytes) /\ p \in Seq(Bytes) /\ Len(u) \in Bytes /\ Len(p) \in Bytes
    BY <1>2, <1>3, <1>4, SeqMonotonic
  <2>2. /\ w \in Seq(Bytes) /\ Len(w) = 2 + Len(u) + Len(p)
        /\ w[1] = Len(u) /\ \A i \in 1 .. Len(u) : w[1 + i] = u[i]
        /\ w[2 + Len(u)] = Len(p) /\ \A i \in 1 .. Len(p) : w[2 + Len(u) + i] = p[i]
    BY <2>1, AuthIs
  <2> HIDE DEF w
  <2> QED
    BY <1>3, <1>4, <2>2
<1> HIDE DEF w
<1>6. v = w
  <2>1. Len(v) = Len(w) /\ v \in Seq(Bytes)
    <3>1. Len(v) = Len(w)
      BY <1>1, <1>2, <1>5
    <3> QED
      BY <3>1, SeqMonotonic
  <2>2. ASSUME NEW i \in 1 .. Len(v)
        PROVE  v[i] = w[i]
    <3>1. CASE i = 1
      BY <1>5, <3>1 DEF n
    <3>2. CASE i \in 2 .. n + 1
      <4>1. i - 1 \in 1 .. n /\ 1 + (i - 1) = i /\ 2 + (i - 1) - 1 = i
        BY <1>2, <3>2
      <4>2. w[1 + (i - 1)] = u[i - 1] /\ u[i - 1] = v[2 + (i - 1) - 1]
        BY <1>3, <1>5, <4>1
      <4> QED
        BY <4>1, <4>2
    <3>3. CASE i = n + 2
      <4>1. w[2 + n] = v[n + 2] /\ 2 + n = n + 2
        BY <1>2, <1>5 DEF k
      <4> QED
        BY <3>3, <4>1
    <3>4. CASE i > n + 2
      <4> DEFINE j == i - n - 2
      <4>1. j \in 1 .. k /\ 2 + n + j = i /\ n + 3 + j - 1 = i
        BY <1>1, <1>2, <3>4
      <4> HIDE DEF j
      <4>2. w[2 + n + j] = p[j] /\ p[j] = v[n + 3 + j - 1]
        BY <1>4, <1>5, <4>1
      <4> QED
        BY <4>1, <4>2
    <3> QED
      BY <1>1, <1>2, <3>1, <3>2, <3>3, <3>4
  <2> QED
    BY <1>5, <2>1, <2>2, SeqEqual
<1>7. Len(u) \in 1 .. MaxUser - 1 /\ Len(p) \in 1 .. MaxPass - 1
  BY <1>1, <1>3, <1>4
<1> QED
  BY <1>3, <1>4, <1>6, <1>7 DEF w

LEMMA GroupUnique ==
  ASSUME NEW name \in Seq(Bytes), Len(name) \in Bytes,
         NEW name2 \in Seq(Bytes), Len(name2) \in Bytes, GroupValue(name) = GroupValue(name2)
  PROVE  name = name2
<1> DEFINE v == GroupValue(name)
           w == GroupValue(name2)
<1>1. Len(name) \in Nat /\ v[1] = Len(name) /\ \A i \in 1 .. Len(name) : v[1 + i] = name[i]
  BY GroupIs
<1>2. w[1] = Len(name2) /\ \A i \in 1 .. Len(name2) : w[1 + i] = name2[i]
  BY GroupIs
<1>3. v = w
  OBVIOUS
<1> HIDE DEF v, w
<1>4. Len(name) = Len(name2) /\ \A i \in 1 .. Len(name) : name[i] = name2[i]
  BY <1>1, <1>2, <1>3
<1> QED
  BY <1>4, SeqEqual

LEMMA GroupParsed ==
  ASSUME NEW name \in Seq(Bytes), Len(name) \in 1 .. MaxGroup - 1
  PROVE  parse_group_value(GroupValue(name)) = <<CString(name)>>
<1> DEFINE v == GroupValue(name)
           k == Len(name)
           x == SubSeq(v, 2, 2 + k - 1)
<1>1. /\ v \in Seq(Bytes) /\ k \in Nat /\ Len(v) = 1 + k
      /\ v[1] = k /\ \A i \in 1 .. k : v[1 + i] = name[i]
  <2>1. k \in Bytes
    BY LengthsAre, LimitsAre
  <2> QED
    BY <2>1, GroupIs
<1> HIDE DEF v
<1>2. x \in Seq(Bytes) /\ Len(x) = k /\ \A i \in 1 .. k : x[i] = v[2 + i - 1]
  <2>1. 2 \in Nat \ {0} /\ 2 + k <= Len(v) + 1
    BY <1>1
  <2> HIDE DEF k
  <2> QED
    BY <1>1, <2>1, PieceIs
<1>3. Suffix(v, 1) = x
  <2>1. 1 + 1 = 2 /\ 2 + k - 1 = Len(v)
    BY <1>1
  <2> QED
    BY <2>1 DEF Suffix
<1> HIDE DEF x
<1>4. x = name
  <2>1. \A i \in 1 .. k : x[i] = name[i]
    BY <1>1, <1>2
  <2> QED
    BY <1>2, <2>1, SeqEqual
<1>5. Len(v) >= 1 /\ 1 + v[1] = Len(v) /\ v[1] \in 1 .. MaxGroup - 1
  BY <1>1
<1>6. parse_group_value(v) = <<CString(Suffix(v, 1))>>
  BY <1>5 DEF parse_group_value
<1> QED
  BY <1>3, <1>4, <1>6 DEF v

LEMMA GroupAccepted ==
  ASSUME NEW S \in SUBSET Bytes, NEW v \in Seq(S), parse_group_value(v) # Malformed
  PROVE  \E name \in Seq(S) : Len(name) \in 1 .. MaxGroup - 1 /\ v = GroupValue(name)
<1> DEFINE n == v[1]
           x == SubSeq(v, 2, 2 + n - 1)
<1>1. Len(v) \in Nat /\ 1 + n = Len(v) /\ n \in 1 .. MaxGroup - 1
  BY LenProperties DEF parse_group_value
<1> HIDE DEF n
<1>2. n \in Nat /\ n \in Bytes
  <2>1. MaxGroup \in Nat
    BY LimitsAre
  <2>2. n \in 0 .. MaxGroup
    BY <1>1, <2>1
  <2> QED
    BY <2>1, <2>2, LengthsAre
<1>3. x \in Seq(S) /\ Len(x) = n /\ \A i \in 1 .. n : x[i] = v[2 + i - 1]
  <2>1. 2 \in Nat \ {0} /\ 2 + n <= Len(v) + 1
    BY <1>1, <1>2
  <2> QED
    BY <1>2, <2>1, PieceIs
<1> HIDE DEF x
<1> DEFINE w == GroupValue(x)
<1>4. w \in Seq(Bytes) /\ Len(w) = 1 + n /\ w[1] = n /\ \A i \in 1 .. n : w[1 + i] = x[i]
  <2>1. x \in Seq(Bytes) /\ Len(x) \in Bytes
    BY <1>2, <1>3, SeqMonotonic
  <2>2. w \in Seq(Bytes) /\ Len(w) = 1 + Len(x) /\ w[1] = Len(x)
        /\ \A i \in 1 .. Len(x) : w[1 + i] = x[i]
    BY <2>1, GroupIs
  <2> HIDE DEF w
  <2> QED
    BY <1>3, <2>2
<1> HIDE DEF w
<1>5. v = w
  <2>1. Len(v) = Len(w)
    BY <1>1, <1>4
  <2>2. v \in Seq(Bytes)
    BY SeqMonotonic
  <2>3. ASSUME NEW i \in 1 .. Len(v)
        PROVE  v[i] = w[i]
    <3>1. CASE i = 1
      BY <1>4, <3>1 DEF n
    <3>2. CASE i \in 2 .. n + 1
      <4>1. i - 1 \in 1 .. n /\ 1 + (i - 1) = i /\ 2 + (i - 1) - 1 = i
        BY <1>2, <3>2
      <4>2. w[1 + (i - 1)] = x[i - 1] /\ x[i - 1] = v[2 + (i - 1) - 1]
        BY <1>3, <1>4, <4>1
      <4> QED
        BY <4>1, <4>2
    <3> QED
      BY <1>1, <1>2, <3>1, <3>2
  <2> QED
    BY <1>4, <2>1, <2>2, <2>3, SeqEqual
<1> QED
  BY <1>1, <1>3, <1>5 DEF w

\* A value is accepted if and only if it is made of fields, and for these.
Strict(t, v) ==
  {Understood(t, v)} \ {Malformed} = {[k \in DOMAIN m |-> CString(m[k])] : m \in Made(v, t)}

Alphabet == RawBytes \cup Chars

LEMMA AlphabetIs ==
  /\ Alphabet \in SUBSET Bytes
  /\ Seq(Chars) \subseteq Seq(Alphabet) /\ Seq(RawBytes) \subseteq Seq(Alphabet)
  /\ Seq(Alphabet) \subseteq Seq(Bytes)
BY LimitsAre, SeqMonotonic DEF Alphabet

LEMMA TupleImages ==
  ASSUME NEW a, NEW b
  PROVE  /\ [k \in DOMAIN <<a, b>> |-> CString(<<a, b>>[k])] = <<CString(a), CString(b)>>
         /\ [k \in DOMAIN <<a>> |-> CString(<<a>>[k])] = <<CString(a)>>
<1>1. [k \in DOMAIN <<a, b>> |-> CString(<<a, b>>[k])] = <<CString(a), CString(b)>>
  OBVIOUS
<1>2. [k \in DOMAIN <<a>> |-> CString(<<a>>[k])] = <<CString(a)>>
  OBVIOUS
<1> QED
  BY <1>1, <1>2

LEMMA AuthIsStrict ==
  ASSUME NEW v,
         parse_auth_value(v) # Malformed =>
           \E user, pass \in Seq(Alphabet) :
             /\ Len(user) \in 1 .. MaxUser - 1 /\ Len(pass) \in 1 .. MaxPass - 1
             /\ v = AuthValue(user, pass)
  PROVE  Strict(MSG_REGISTER, v)
<1> DEFINE P == Strings(Alphabet, MaxUser - 1) \X Strings(Alphabet, MaxPass - 1)
           M == {m \in P : << >> \notin {m[1], m[2]} /\ v = AuthValue(m[1], m[2])}
           I == {[k \in DOMAIN m |-> CString(m[k])] : m \in M}
<1>1. Understood(MSG_REGISTER, v) = parse_auth_value(v)
  BY DEF Understood, MSG_REGISTER, MSG_JOIN_GROUP
<1>2. Made(v, MSG_REGISTER) = M
  BY DEF Made, Alphabet, MSG_REGISTER, MSG_JOIN_GROUP
<1>3. \A m \in P : << >> \notin {m[1], m[2]} =>
        /\ m = <<m[1], m[2]>>
        /\ m[1] \in Seq(Bytes) /\ Len(m[1]) \in 1 .. MaxUser - 1
        /\ m[2] \in Seq(Bytes) /\ Len(m[2]) \in 1 .. MaxPass - 1
  <2>1. MaxUser - 1 \in Nat /\ MaxPass - 1 \in Nat
    BY LimitsAre
  <2>2. \A s \in Strings(Alphabet, MaxUser - 1) :
          s # << >> => s \in Seq(Bytes) /\ Len(s) \in 1 .. MaxUser - 1
    <3>1. \A s \in Strings(Alphabet, MaxUser - 1) : s \in Seq(Bytes) /\ Len(s) <= MaxUser - 1
      BY <2>1, StringsAre, AlphabetIs
    <3> QED
      BY <2>1, <3>1, EmptySeq
  <2>3. \A s \in Strings(Alphabet, MaxPass - 1) :
          s # << >> => s \in Seq(Bytes) /\ Len(s) \in 1 .. MaxPass - 1
    <3>1. \A s \in Strings(Alphabet, MaxPass - 1) : s \in Seq(Bytes) /\ Len(s) <= MaxPass - 1
      BY <2>1, StringsAre, AlphabetIs
    <3> QED
      BY <2>1, <3>1, EmptySeq
  <2> QED
    BY <2>2, <2>3
<1>4. CASE parse_auth_value(v) = Malformed
  <2>1. ASSUME NEW m \in M
        PROVE  FALSE
    <3>1. parse_auth_value(v) = <<CString(m[1]), CString(m[2])>>
      BY <1>3, AuthParsed
    <3> QED
      BY <1>4, <3>1 DEF Malformed
  <2>2. I = {}
    BY <2>1
  <2> QED
    BY <1>1, <1>2, <1>4, <2>2 DEF Strict
<1>5. CASE parse_auth_value(v) # Malformed
  <2>1. PICK user, pass \in Seq(Alphabet) :
          /\ Len(user) \in 1 .. MaxUser - 1 /\ Len(pass) \in 1 .. MaxPass - 1
          /\ v = AuthValue(user, pass)
    BY <1>5
  <2>2. user \in Seq(Bytes) /\ pass \in Seq(Bytes) /\ Len(user) \in Bytes /\ Len(pass) \in Bytes
    BY <2>1, AlphabetIs, LengthsAre, LimitsAre
  <2>3. parse_auth_value(v) = <<CString(user), CString(pass)>>
    BY <2>1, <2>2, AuthParsed
  <2>4. <<user, pass>> \in M
    <3>1. MaxUser - 1 \in Nat /\ MaxPass - 1 \in Nat
      BY LimitsAre
    <3>2. user \in Strings(Alphabet, MaxUser - 1) /\ pass \in Strings(Alphabet, MaxPass - 1)
      BY <2>1, <3>1, StringsAre
    <3>3. user # << >> /\ pass # << >>
      BY <2>1
    <3> QED
      BY <2>1, <3>2, <3>3
  <2>5. ASSUME NEW m \in M
        PROVE  m = <<user, pass>>
    <3>1. /\ m = <<m[1], m[2]>> /\ v = AuthValue(m[1], m[2])
          /\ m[1] \in Seq(Bytes) /\ Len(m[1]) \in 1 .. MaxUser - 1
          /\ m[2] \in Seq(Bytes) /\ Len(m[2]) \in 1 .. MaxPass - 1
      BY <1>3
    <3>2. Len(m[1]) \in Bytes /\ Len(m[2]) \in Bytes
      BY <3>1, LengthsAre, LimitsAre
    <3> DEFINE a == m[1]
               b == m[2]
    <3>3. a \in Seq(Bytes) /\ b \in Seq(Bytes) /\ Len(a) \in Bytes /\ Len(b) \in Bytes
          /\ AuthValue(user, pass) = AuthValue(a, b)
      BY <2>1, <3>1, <3>2
    <3> HIDE DEF a, b
    <3>4. user = a /\ pass = b
      BY <2>2, <3>3, AuthUnique
    <3> QED
      BY <3>1, <3>4 DEF a, b
  <2>6. M = {<<user, pass>>}
    BY <2>4, <2>5
  <2> HIDE DEF M
  <2>7. I = {[k \in DOMAIN <<user, pass>> |-> CString(<<user, pass>>[k])]}
    BY <2>6
  <2>8. I = {<<CString(user), CString(pass)>>}
    BY <2>7, TupleImages
  <2> QED
    BY <1>1, <1>2, <1>5, <2>3, <2>8 DEF Strict
<1> QED
  BY <1>4, <1>5

LEMMA GroupIsStrict ==
  ASSUME NEW v,
         parse_group_value(v) # Malformed =>
           \E name \in Seq(Alphabet) : Len(name) \in 1 .. MaxGroup - 1 /\ v = GroupValue(name)
  PROVE  Strict(MSG_JOIN_GROUP, v)
<1> DEFINE N == {n \in Strings(Alphabet, MaxGroup - 1) \ {<< >>} : v = GroupValue(n)}
           M == {<<name>> : name \in N}
           I == {[k \in DOMAIN m |-> CString(m[k])] : m \in M}
<1>1. Understood(MSG_JOIN_GROUP, v) = parse_group_value(v)
  BY DEF Understood, MSG_REGISTER, MSG_JOIN_GROUP
<1>2. Made(v, MSG_JOIN_GROUP) = M
  BY DEF Made, Alphabet, MSG_REGISTER, MSG_JOIN_GROUP
<1>3. \A n \in N : n \in Seq(Bytes) /\ Len(n) \in 1 .. MaxGroup - 1 /\ v = GroupValue(n)
  <2>1. MaxGroup - 1 \in Nat
    BY LimitsAre
  <2>2. \A n \in N : n \in Seq(Bytes) /\ Len(n) <= MaxGroup - 1
    BY <2>1, StringsAre, AlphabetIs
  <2> QED
    BY <2>1, <2>2, EmptySeq
<1>4. CASE parse_group_value(v) = Malformed
  <2>1. ASSUME NEW n \in N
        PROVE  FALSE
    <3>1. parse_group_value(v) = <<CString(n)>>
      BY <1>3, GroupParsed
    <3> QED
      BY <1>4, <3>1 DEF Malformed
  <2>2. I = {}
    BY <2>1
  <2> QED
    BY <1>1, <1>2, <1>4, <2>2 DEF Strict
<1>5. CASE parse_group_value(v) # Malformed
  <2>1. PICK name \in Seq(Alphabet) : Len(name) \in 1 .. MaxGroup - 1 /\ v = GroupValue(name)
    BY <1>5
  <2>2. name \in Seq(Bytes) /\ Len(name) \in Bytes
    BY <2>1, AlphabetIs, LengthsAre, LimitsAre
  <2>3. parse_group_value(v) = <<CString(name)>>
    BY <2>1, <2>2, GroupParsed
  <2>4. name \in N
    <3>1. MaxGroup - 1 \in Nat
      BY LimitsAre
    <3>2. name \in Strings(Alphabet, MaxGroup - 1)
      BY <2>1, <3>1, StringsAre
    <3>3. name # << >>
      BY <2>1
    <3> QED
      BY <2>1, <3>2, <3>3
  <2>5. ASSUME NEW n \in N
        PROVE  n = name
    <3>1. n \in Seq(Bytes) /\ Len(n) \in 1 .. MaxGroup - 1 /\ v = GroupValue(n)
      BY <1>3
    <3>2. Len(n) \in Bytes
      BY <3>1, LengthsAre, LimitsAre
    <3> QED
      BY <2>1, <2>2, <3>1, <3>2, GroupUnique
  <2>6. N = {name}
    BY <2>4, <2>5
  <2> HIDE DEF N
  <2>7. M = {<<name>>}
    BY <2>6
  <2> HIDE DEF M
  <2>8. I = {[k \in DOMAIN <<name>> |-> CString(<<name>>[k])]}
    BY <2>7
  <2>9. I = {<<CString(name)>>}
    BY <2>8, TupleImages
  <2> QED
    BY <1>1, <1>2, <1>5, <2>3, <2>9 DEF Strict
<1> QED
  BY <1>4, <1>5

-----------------------------------------------------------------------------
(***************************************************************************)
(* The parser of the client.                                               *)
(***************************************************************************)
\* An address and a port are read as they were written.
LEMMA InfoParsed ==
  ASSUME NEW ip \in Seq(Bytes), Len(ip) \in 0 .. MaxIp - 1, NEW port \in Words
  PROVE  parse_group_info(InfoValue(ip, port)) = <<"info", ip, port>>
<1> DEFINE v == InfoValue(ip, port)
           k == Len(ip)
           x == SubSeq(v, 2, 2 + k - 1)
<1>1. /\ v \in Seq(Bytes) /\ k \in Nat /\ k \in Bytes /\ Len(v) = 3 + k
      /\ v[1] = k /\ \A i \in 1 .. k : v[1 + i] = ip[i]
      /\ v[2 + k] = port \div 256 /\ v[3 + k] = port % 256
  <2>1. k \in Bytes
    BY LengthsAre, LimitsAre
  <2> QED
    BY <2>1, InfoIs
<1>2. Port(v[v[1] + 2], v[v[1] + 3]) = port
  <2>1. v[1] + 2 = 2 + k /\ v[1] + 3 = 3 + k
    BY <1>1
  <2>2. Port(v[2 + k], v[3 + k]) = port
    BY <1>1, PortIs
  <2> HIDE DEF v
  <2> QED
    BY <2>1, <2>2
<1> HIDE DEF v
<1>3. x \in Seq(Bytes) /\ Len(x) = k /\ \A i \in 1 .. k : x[i] = v[2 + i - 1]
  <2>1. 2 \in Nat \ {0} /\ 2 + k <= Len(v) + 1
    BY <1>1
  <2> HIDE DEF k
  <2> QED
    BY <1>1, <2>1, PieceIs
<1>4. SubSeq(v, 2, 1 + v[1]) = x
  <2>1. 2 + k - 1 = 1 + v[1]
    BY <1>1
  <2> QED
    BY <2>1
<1> HIDE DEF x
<1>5. x = ip
  <2>1. \A i \in 1 .. k : x[i] = ip[i]
    BY <1>1, <1>3
  <2> QED
    BY <1>3, <2>1, SeqEqual
<1>6. ~(Len(v) < 3 \/ uint8(1 + v[1] + 2) > Len(v) \/ v[1] >= MaxIp)
  <2>1. MaxIp \in Nat /\ 2 + (MaxIp + 3) \in Bytes
    BY LimitsAre
  <2> DEFINE m == 2 + (MaxIp + 3)
  <2>2. 1 + v[1] + 2 = 3 + k /\ 3 + k \in 0 .. m /\ v[1] < MaxIp /\ Len(v) >= 3
    BY <1>1, <2>1
  <2> HIDE DEF m
  <2>3. 3 + k \in Bytes
    BY <2>1, <2>2, OneByte DEF m
  <2>4. uint8(3 + k) = 3 + k
    BY <2>3, OneByte
  <2>5. Len(v) \in Nat /\ v[1] \in Nat /\ uint8(1 + v[1] + 2) = Len(v)
    BY <1>1, <2>2, <2>4
  <2> QED
    BY <2>1, <2>2, <2>5
<1>7. parse_group_info(v) = <<"info", SubSeq(v, 2, 1 + v[1]), Port(v[v[1] + 2], v[v[1] + 3])>>
  BY <1>6 DEF parse_group_info
<1> QED
  BY <1>2, <1>4, <1>5, <1>7 DEF v

\* What is accepted lies within the value, although its length is computed in a byte.
LEMMA InfoIsStrict ==
  ASSUME NEW v \in Seq(Bytes), parse_group_info(v) # <<"error">>
  PROVE  v[1] + 3 <= Len(v) /\ v[1] < MaxIp
<1>1. Len(v) >= 3 /\ uint8(1 + v[1] + 2) <= Len(v) /\ v[1] < MaxIp
  <2>1. ~(Len(v) < 3 \/ uint8(1 + v[1] + 2) > Len(v) \/ v[1] >= MaxIp)
    BY DEF parse_group_info
  <2>2. Len(v) \in Nat /\ MaxIp \in Nat
    BY LenProperties, LimitsAre
  <2>3. Len(v) >= 3
    BY <2>1, <2>2
  <2>4. v[1] \in Bytes
    BY <2>2, <2>3, ElementOfSeq
  <2>5. v[1] \in Nat
    BY <2>4, OneByte
  <2>6. uint8(1 + v[1] + 2) \in Nat
    BY <2>5 DEF uint8
  <2> QED
    BY <2>1, <2>2, <2>3, <2>5, <2>6
<1>2. v[1] \in Nat /\ MaxIp \in Nat /\ 2 + (MaxIp + 3) \in Bytes /\ Len(v) \in Nat
  <2>1. 1 \in 1 .. Len(v)
    BY <1>1, LenProperties
  <2> QED
    BY <2>1, ElementOfSeq, OneByte, LimitsAre, LenProperties
<1>3. uint8(1 + v[1] + 2) = 1 + v[1] + 2
  <2> DEFINE m == 2 + (MaxIp + 3)
  <2>1. 1 + v[1] + 2 \in 0 .. m
    BY <1>1, <1>2
  <2> HIDE DEF m
  <2>2. m \in Bytes
    BY <1>2 DEF m
  <2> QED
    BY <2>1, <2>2, OneByte
<1> QED
  BY <1>1, <1>2, <1>3

-----------------------------------------------------------------------------
(***************************************************************************)
(* An input field: what fits of the line, and the line itself if it does.  *)
(***************************************************************************)
\* A character that is typed ends no string.
LEMMA CStringIs ==
  ASSUME NEW s \in Seq(Chars)
  PROVE  CString(s) = s
<1>1. {k \in DOMAIN s : s[k] = NUL} = {}
  BY LenProperties, ElementOfSeq, LimitsAre
<1> QED
  BY <1>1 DEF CString

LEMMA LineIs ==
  ASSUME NEW line \in Seq(Chars)
  PROVE  /\ Line(line) \in Seq(Chars \cup {Newline})
         /\ Len(line) \in Nat /\ Len(Line(line)) = Len(line) + 1
         /\ \A i \in 1 .. Len(line) : Line(line)[i] = line[i] /\ line[i] \in Chars
         /\ Line(line)[Len(line) + 1] = Newline
<1> DEFINE T == Chars \cup {Newline}
<1>1. line \in Seq(T) /\ Newline \in T
  BY SeqMonotonic
<1> HIDE DEF T
<1>2. /\ Append(line, Newline) \in Seq(T)
      /\ Len(Append(line, Newline)) = Len(line) + 1
      /\ \A i \in 1.. Len(line) : Append(line, Newline)[i] = line[i]
      /\ Append(line, Newline)[Len(line) + 1] = Newline
  BY <1>1, AppendProperties
<1>3. Len(line) \in Nat /\ \A i \in 1 .. Len(line) : line[i] \in Chars
  BY LenProperties, ElementOfSeq
<1> QED
  BY <1>2, <1>3 DEF Line, T

\* The next prompt finds the rest of the line, if it was too long, and then what came
\* after it.
LEMMA ReadLineIs ==
  ASSUME NEW line \in Seq(Chars), NEW more \in Seq(Chars \cup {Newline}), NEW max \in Nat \ {0}
  PROVE  LET r == read_input(Line(line) \o more, max)
         IN  /\ r.field \in Seq(Chars) /\ Len(r.field) <= max - 1
             /\ Len(line) + 1 < max => r.field = line /\ r.rest = more
             /\ r.rest = more \/ \E left \in Seq(Chars) : r.rest = Line(left) \o more
<1> DEFINE T == Chars \cup {Newline}
           n == Len(line) + 1
           s == Line(line) \o more
           N == {k \in DOMAIN s : s[k] = Newline}
           taken == Min({max - 1} \cup N)
           r == read_input(s, max)
<1>1. /\ Line(line) \in Seq(T) /\ Len(line) \in Nat /\ n \in Nat \ {0} /\ Len(Line(line)) = n
      /\ \A i \in 1 .. Len(line) : Line(line)[i] = line[i] /\ line[i] \in Chars
      /\ Line(line)[n] = Newline
  BY LineIs
<1> HIDE DEF T, n
<1>2. /\ s \in Seq(T) /\ Len(more) \in Nat /\ Len(s) = n + Len(more)
      /\ \A i \in 1 .. n : s[i] = Line(line)[i]
      /\ \A i \in 1 .. Len(more) : s[n + i] = more[i]
  <2>1. /\ s \in Seq(T)
        /\ Len(more) \in Nat /\ Len(s) = Len(Line(line)) + Len(more)
        /\ \A i \in 1 .. Len(Line(line)) : s[i] = Line(line)[i]
        /\ \A i \in 1 .. Len(more) : s[Len(Line(line)) + i] = more[i]
    <3>1. Line(line) \in Seq(T) /\ more \in Seq(T)
      BY <1>1 DEF T
    <3> QED
      BY <3>1, JoinIs
  <2> HIDE DEF s
  <2> QED
    BY <1>1, <2>1
<1>3. r = [field |-> SubSeq(s, 1, IF taken \in N THEN taken - 1 ELSE taken),
           rest |-> SubSeq(s, taken + 1, Len(s))]
  BY DEF read_input
<1> HIDE DEF s, r
<1>4. DOMAIN s = 1 .. Len(s)
  BY <1>2, LenProperties
<1>5. \A i \in 1 .. n - 1 : s[i] = line[i] /\ s[i] \in Chars /\ s[i] # Newline
  <2>1. \A i \in 1 .. n - 1 : i \in 1 .. Len(line) /\ i \in 1 .. n
    BY <1>1 DEF n
  <2> QED
    BY <1>1, <1>2, <2>1, LimitsAre
<1>6. N \in SUBSET (Nat \ {0}) /\ n \in N /\ \A k \in N : k >= n
  <2>1. n \in 1 .. Len(s) /\ s[n] = Newline
    BY <1>1, <1>2
  <2>2. \A k \in N : k \in 1 .. Len(s) /\ s[k] = Newline
    BY <1>4
  <2>3. \A k \in 1 .. Len(s) : k < n => k \in 1 .. n - 1
    BY <1>1, <1>2
  <2>4. n \in N
    BY <1>4, <2>1
  <2> HIDE DEF N
  <2> QED
    BY <1>1, <1>2, <1>5, <2>2, <2>3, <2>4
<1> HIDE DEF N
<1>7. taken \in {max - 1} \cup N /\ \A k \in {max - 1} \cup N : taken <= k
  <2>1. max - 1 \in Nat
    OBVIOUS
  <2> DEFINE I == {max - 1} \cup N
  <2>2. I \in SUBSET Nat /\ I # {}
    BY <1>6, <2>1
  <2> HIDE DEF I
  <2>3. Min(I) \in I /\ \A k \in I : Min(I) <= k
    BY <2>2, SmallestIs
  <2> QED
    BY <2>3 DEF I
<1> HIDE DEF taken
<1>8. CASE max - 1 < n
  <2>1. taken = max - 1 /\ taken \notin N /\ taken \in Nat /\ taken + 1 <= n
    <3> DEFINE m == max - 1
    <3>1. m \in Nat /\ m < n /\ n \in Nat
      BY <1>1, <1>8
    <3>2. taken \in {m} \cup N /\ \A k \in {m} \cup N : taken <= k
      BY <1>7
    <3> HIDE DEF m
    <3>3. m \notin N
      BY <1>6, <3>1
    <3>4. taken \notin N
      <4>1. taken <= m
        BY <3>2
      <4>2. \A k \in N : k \in Nat /\ k >= n
        BY <1>6
      <4> QED
        BY <3>1, <4>1, <4>2
    <3>5. taken = m
      BY <3>2, <3>4
    <3> QED
      BY <3>1, <3>4, <3>5 DEF m
  <2> DEFINE k == max - 1
             f == SubSeq(s, 1, 1 + k - 1)
             left == SubSeq(line, k + 1, k + 1 + (n - 1 - k) - 1)
             t == SubSeq(s, k + 1, k + 1 + (Len(s) - k) - 1)
  <2>2. k \in Nat /\ k + 1 \in Nat \ {0} /\ n - 1 - k \in Nat /\ Len(s) - k \in Nat
        /\ 1 + k <= Len(s) + 1 /\ k + 1 + (n - 1 - k) <= Len(line) + 1
        /\ k + 1 + (Len(s) - k) <= Len(s) + 1 /\ 1 \in Nat \ {0} /\ n - 1 = Len(line)
        /\ 1 + k - 1 = k /\ k + 1 + (Len(s) - k) - 1 = Len(s)
    <3>1. /\ max \in Nat \ {0} /\ n \in Nat /\ max - 1 < n /\ Len(more) \in Nat
          /\ Len(s) = n + Len(more) /\ Len(line) = n - 1
      BY <1>1, <1>2, <1>8 DEF n
    <3>2. k \in Nat /\ k <= n - 1 /\ n - 1 <= Len(s) /\ Len(s) \in Nat
      BY <3>1
    <3> HIDE DEF k
    <3>3. k + 1 \in Nat \ {0} /\ n - 1 - k \in Nat /\ Len(s) - k \in Nat /\ 1 + k <= Len(s) + 1
      BY <3>1, <3>2
    <3>4. /\ k + 1 + (n - 1 - k) <= Len(line) + 1 /\ k + 1 + (Len(s) - k) <= Len(s) + 1
          /\ 1 + k - 1 = k /\ k + 1 + (Len(s) - k) - 1 = Len(s)
      BY <3>1, <3>2
    <3> QED
      BY <3>1, <3>2, <3>3, <3>4
  <2>3. r.field = f /\ r.rest = t
    BY <1>3, <2>1, <2>2
  <2> HIDE DEF k
  <2>4. f \in Seq(T) /\ Len(f) = k /\ \A i \in 1 .. k : f[i] = s[1 + i - 1]
    <3>1. s \in Seq(T) /\ 1 \in Nat \ {0} /\ k \in Nat /\ 1 + k <= Len(s) + 1
      BY <1>2, <2>2
    <3> QED
      BY <3>1, PieceIs, SMTT(30)
  <2>5. left \in Seq(Chars) /\ Len(left) = n - 1 - k
        /\ \A i \in 1 .. n - 1 - k : left[i] = line[k + 1 + i - 1]
    <3> DEFINE m == k + 1
               j == n - 1 - k
    <3>1. m \in Nat \ {0} /\ j \in Nat /\ m + j <= Len(line) + 1
      BY <2>2
    <3> HIDE DEF m, j
    <3>2. LET x == SubSeq(line, m, m + j - 1)
          IN  x \in Seq(Chars) /\ Len(x) = j /\ \A i \in 1 .. j : x[i] = line[m + i - 1]
      BY <3>1, PieceIs, SMTT(30)
    <3> QED
      BY <3>2 DEF m, j
  <2>6. t \in Seq(T) /\ Len(t) = Len(s) - k /\ \A i \in 1 .. Len(s) - k : t[i] = s[k + 1 + i - 1]
    <3> DEFINE m == k + 1
               j == Len(s) - k
    <3>1. s \in Seq(T) /\ m \in Nat \ {0} /\ j \in Nat /\ m + j <= Len(s) + 1
      BY <1>2, <2>2
    <3> HIDE DEF m, j
    <3>2. LET x == SubSeq(s, m, m + j - 1)
          IN  x \in Seq(T) /\ Len(x) = j /\ \A i \in 1 .. j : x[i] = s[m + i - 1]
      BY <3>1, PieceIs, SMTT(30)
    <3> QED
      BY <3>2 DEF m, j
  <2> HIDE DEF f, left, t
  <2>7. f \in Seq(Chars)
    <3>1. \A i \in 1 .. k : f[i] \in Chars
      <4>1. \A i \in 1 .. k : 1 + i - 1 = i /\ i \in 1 .. n - 1
        BY <1>1, <1>8, <2>2 DEF k
      <4> QED
        BY <1>5, <2>4, <4>1
    <3>2. f \in [1 .. k -> Chars]
      BY <2>4, <3>1, LenProperties
    <3> QED
      BY <2>2, <3>2, SeqDef
  <2> DEFINE w == Line(left) \o more
  <2>8. /\ w \in Seq(T) /\ Len(w) = n - k + Len(more)
        /\ \A i \in 1 .. n - 1 - k : w[i] = left[i]
        /\ w[n - k] = Newline
        /\ \A i \in 1 .. Len(more) : w[n - k + i] = more[i]
    <3> DEFINE l == Line(left)
    <3>1. l \in Seq(T) /\ Len(left) \in Nat /\ Len(l) = Len(left) + 1
          /\ (\A i \in 1 .. Len(left) : l[i] = left[i]) /\ l[Len(left) + 1] = Newline
      BY <2>5, LineIs DEF T
    <3>2. more \in Seq(T)
      BY DEF T
    <3> HIDE DEF l
    <3>3. l \o more \in Seq(T) /\ Len(l \o more) = Len(l) + Len(more)
          /\ (\A i \in 1 .. Len(l) : (l \o more)[i] = l[i])
          /\ \A i \in 1 .. Len(more) : (l \o more)[Len(l) + i] = more[i]
      <4>1. l \in Seq(T) /\ more \in Seq(T)
        BY <3>1, <3>2
      <4> QED
        BY <4>1, JoinIs
    <3>4. w = l \o more
      BY DEF l
    <3>5. Len(l) = n - k /\ Len(left) + 1 = n - k /\ n - k \in Nat
      BY <1>1, <2>2, <2>5, <3>1
    <3> HIDE DEF w
    <3>6. w \in Seq(T) /\ Len(w) = n - k + Len(more)
      BY <3>3, <3>4, <3>5
    <3>7. ASSUME NEW i \in 1 .. n - 1 - k
          PROVE  w[i] = left[i]
      <4>1. i \in 1 .. Len(left) /\ i \in 1 .. Len(l)
        BY <2>2, <2>5, <3>5
      <4> QED
        BY <3>1, <3>3, <3>4, <4>1
    <3>8. w[n - k] = Newline
      <4>1. Len(l) \in 1 .. Len(l)
        BY <1>1, <2>2, <2>5, <3>1, <3>5
      <4>2. w[Len(l)] = l[Len(l)] /\ l[Len(l)] = Newline
        BY <3>1, <3>3, <3>4, <4>1
      <4> QED
        BY <3>5, <4>2
    <3>9. \A i \in 1 .. Len(more) : w[n - k + i] = more[i]
      BY <3>3, <3>4, <3>5
    <3> QED
      BY <3>6, <3>7, <3>8, <3>9
  <2> HIDE DEF w
  <2>9. t = w
    <3>1. Len(t) = Len(w) /\ Len(t) \in Nat
      BY <1>1, <1>2, <2>2, <2>6, <2>8
    <3>2. ASSUME NEW i \in 1 .. Len(t)
          PROVE  t[i] = w[i]
      <4>1. t[i] = s[k + i] /\ i \in Nat /\ i >= 1 /\ i <= n - k + Len(more)
        <5>1. i \in 1 .. Len(s) - k /\ k + 1 + i - 1 = k + i
          BY <2>2, <2>6
        <5>2. i \in Nat /\ i >= 1 /\ i <= n - k + Len(more)
          BY <1>2, <2>2, <2>8, <3>1
        <5> QED
          BY <2>6, <5>1, <5>2
      <4>2. CASE i <= n - 1 - k
        <5>1. i \in 1 .. n - 1 - k /\ k + 1 + i - 1 = k + i /\ k + i \in 1 .. n - 1
          BY <1>1, <2>2, <4>1, <4>2
        <5>2. w[i] = line[k + i]
          BY <2>5, <2>8, <5>1
        <5> QED
          BY <1>5, <4>1, <5>1, <5>2
      <4>3. CASE i = n - k
        <5>1. k + i = n
          BY <1>1, <2>2, <4>3
        <5>2. s[n] = Newline
          BY <1>1, <1>2
        <5> QED
          BY <2>8, <4>1, <4>3, <5>1, <5>2
      <4>4. CASE i > n - k
        <5> DEFINE j == i - (n - k)
        <5>1. j \in 1 .. Len(more) /\ n - k + j = i /\ n + j = k + i
          BY <1>1, <1>2, <2>2, <4>1, <4>4
        <5> HIDE DEF j
        <5>2. w[n - k + j] = more[j] /\ s[n + j] = more[j]
          BY <1>2, <2>8, <5>1
        <5> QED
          BY <4>1, <5>1, <5>2
      <4>5. i \in Int /\ n - k \in Int
        BY <1>1, <2>2, <4>1
      <4>6. i <= n - 1 - k \/ i = n - k \/ i > n - k
        BY <1>1, <2>2, <4>5
      <4> QED
        BY <4>2, <4>3, <4>4, <4>6
    <3> QED
      BY <2>6, <2>8, <3>1, <3>2, SeqEqual
  <2>10. ~(Len(line) + 1 < max)
    BY <1>1, <1>8 DEF n
  <2>11. Len(f) <= max - 1
    BY <2>2, <2>4 DEF k
  <2> QED
    BY <2>3, <2>5, <2>7, <2>9, <2>10, <2>11 DEF r, s, w
<1>9. CASE ~(max - 1 < n)
  <2>1. taken = n /\ taken \in N
    BY <1>1, <1>6, <1>7, <1>9
  <2> DEFINE f == SubSeq(s, 1, 1 + (n - 1) - 1)
             t == SubSeq(s, n + 1, n + 1 + Len(more) - 1)
  <2>2. /\ 1 \in Nat \ {0} /\ n - 1 \in Nat /\ 1 + (n - 1) <= Len(s) + 1 /\ n - 1 = Len(line)
        /\ n + 1 \in Nat \ {0} /\ Len(more) \in Nat /\ n + 1 + Len(more) <= Len(s) + 1
        /\ 1 + (n - 1) - 1 = n - 1 /\ n + 1 + Len(more) - 1 = Len(s)
    BY <1>1, <1>2 DEF n
  <2>3. r.field = f /\ r.rest = t
    BY <1>3, <2>1, <2>2
  <2>4. f \in Seq(T) /\ Len(f) = n - 1 /\ \A i \in 1 .. n - 1 : f[i] = s[1 + i - 1]
    BY <1>2, <2>2, PieceIs
  <2>5. t \in Seq(T) /\ Len(t) = Len(more) /\ \A i \in 1 .. Len(more) : t[i] = s[n + 1 + i - 1]
    <3> DEFINE m == n + 1
               j == Len(more)
    <3>1. s \in Seq(T) /\ m \in Nat \ {0} /\ j \in Nat /\ m + j <= Len(s) + 1
      BY <1>2, <2>2
    <3> HIDE DEF m, j
    <3>2. LET x == SubSeq(s, m, m + j - 1)
          IN  x \in Seq(T) /\ Len(x) = j /\ \A i \in 1 .. j : x[i] = s[m + i - 1]
      BY <3>1, PieceIs, SMTT(30)
    <3> QED
      BY <3>2 DEF m, j
  <2> HIDE DEF f, t
  <2>6. f = line
    <3>1. line \in Seq(T)
      BY SeqMonotonic DEF T
    <3>2. \A i \in 1 .. n - 1 : f[i] = line[i]
      <4>1. \A i \in 1 .. n - 1 : 1 + i - 1 = i
        BY <1>1
      <4> QED
        BY <1>5, <2>4, <4>1
    <3> QED
      BY <2>2, <2>4, <3>1, <3>2, SeqEqual
  <2>7. t = more
    <3>1. more \in Seq(T)
      BY DEF T
    <3>2. \A i \in 1 .. Len(more) : t[i] = more[i]
      <4>1. \A i \in 1 .. Len(more) : n + 1 + i - 1 = n + i
        BY <1>1
      <4> QED
        BY <1>2, <2>5, <4>1
    <3> QED
      BY <2>5, <3>1, <3>2, SeqEqual
  <2>8. Len(line) <= max - 1
    BY <1>1, <1>9 DEF n
  <2> QED
    BY <2>3, <2>6, <2>7, <2>8 DEF r, s
<1> QED
  BY <1>8, <1>9

-----------------------------------------------------------------------------
(***************************************************************************)
(* The bytes on their way: what the reader has, what is in the connection  *)
(* and what the writer has still to write are one message.                 *)
(***************************************************************************)
Stream == got \o (wire \o out)

Moving ==
  /\ value \in Seq(Bytes) /\ out \in Seq(Bytes) /\ wire \in Seq(Bytes) /\ got \in Seq(Bytes)
  /\ Len(value) \in Bytes
  /\ Len(Stream) = 2 + Len(value)
  /\ Stream[2] = Len(value)
  /\ \A i \in 1 .. Len(value) : Stream[2 + i] = value[i]

Tags == {MSG_REGISTER, MSG_LOGOUT, MSG_JOIN_GROUP, MSG_SUCCESS, MSG_ERROR, MSG_GROUP_INFO}

LEMMA TagsAre == Tags \subseteq Bytes /\ Codes \subseteq Bytes
BY DEF Tags, Codes, Bytes, MSG_REGISTER, MSG_LOGOUT, MSG_JOIN_GROUP, MSG_SUCCESS, MSG_ERROR,
       MSG_GROUP_INFO

LEMMA MessageIs ==
  ASSUME NEW t \in Bytes, NEW v \in Seq(Bytes), Len(v) \in Bytes
  PROVE  LET m == <<t, Len(v)>> \o v
         IN  /\ m \in Seq(Bytes) /\ Len(m) = 2 + Len(v) /\ m[1] = t /\ m[2] = Len(v)
             /\ \A i \in 1 .. Len(v) : m[2 + i] = v[i]
<1> DEFINE h == <<t, Len(v)>>
           m == h \o v
<1>1. h \in Seq(Bytes) /\ Len(h) = 2 /\ h[1] = t /\ h[2] = Len(v)
  OBVIOUS
<1> HIDE DEF h
<1>2. /\ m \in Seq(Bytes) /\ Len(m) = Len(h) + Len(v)
      /\ \A i \in 1 .. Len(h) : m[i] = h[i]
      /\ \A i \in 1 .. Len(v) : m[Len(h) + i] = v[i]
  <2>1. h \in Seq(Bytes) /\ v \in Seq(Bytes)
    BY <1>1
  <2> QED
    BY <2>1, JoinIs
<1> HIDE DEF m
<1>3. m[1] = t /\ m[2] = Len(v)
  BY <1>1, <1>2
<1>4. Len(m) = 2 + Len(v) /\ \A i \in 1 .. Len(v) : m[2 + i] = v[i]
  BY <1>1, <1>2
<1> QED
  BY <1>2, <1>3, <1>4 DEF m, h

LEMMA CarryMoves ==
  ASSUME NEW t \in Bytes, NEW v \in Seq(Bytes), Len(v) \in Bytes, Carry(v, <<t, Len(v)>> \o v)
  PROVE  Moving' /\ Stream'[1] = t /\ value' = v
<1> DEFINE m == <<t, Len(v)>> \o v
<1>1. /\ m \in Seq(Bytes) /\ Len(m) = 2 + Len(v) /\ m[1] = t /\ m[2] = Len(v)
      /\ \A i \in 1 .. Len(v) : m[2 + i] = v[i]
  BY MessageIs
<1>2. value' = v /\ out' = m /\ wire' = << >> /\ got' = << >>
  BY DEF Carry
<1> HIDE DEF m
<1>3. Stream' = m
  BY <1>1, <1>2, ConcatEmptySeq DEF Stream
<1>4. << >> \in Seq(Bytes)
  BY EmptySeq
<1> QED
  BY <1>1, <1>2, <1>3, <1>4 DEF Moving

\* The length of a message that fits is not cut down to eight bits.
LEMMA SendMoves ==
  ASSUME NEW t \in Bytes, NEW v \in Seq(Bytes), 2 + Len(v) \in Bytes, Send(t, v)
  PROVE  Moving' /\ Stream'[1] = t /\ value' = v
<1> DEFINE m == <<t, Len(v)>> \o v
<1>1. Len(v) \in Nat /\ Len(v) \in Bytes /\ uint8(Len(v)) = Len(v) /\ uint8(2 + Len(v)) = 2 + Len(v)
  <2>1. Len(v) \in Nat
    BY LenProperties
  <2> DEFINE n == 2 + Len(v)
  <2>2. Len(v) \in 0 .. n
    BY <2>1
  <2>3. n \in Bytes
    OBVIOUS
  <2> HIDE DEF n
  <2>4. Len(v) \in Bytes /\ uint8(n) = n
    BY <2>2, <2>3, OneByte
  <2> QED
    BY <2>1, <2>4, OneByte DEF n
<1>2. m \in Seq(Bytes) /\ Len(m) = 2 + Len(v)
  BY <1>1, MessageIs
<1>3. serialize_msg(t, v) = SubSeq(m, 1, Len(m))
  BY <1>1, <1>2 DEF serialize_msg, out_len
<1>4. serialize_msg(t, v) = m
  <2> HIDE DEF m
  <2> QED
    BY <1>2, <1>3, SubSeqFull
<1>5. Carry(v, m)
  BY <1>4 DEF Send
<1> QED
  BY <1>1, <1>5, CarryMoves

\* However the bytes are cut into pieces.
LEMMA WriteMoves ==
  ASSUME Moving, write_some
  PROVE  Moving' /\ Stream' = Stream /\ value' = value
<1>1. PICK n \in DOMAIN out : wire' = wire \o Prefix(out, n) /\ out' = Suffix(out, n)
  BY DEF write_some
<1> DEFINE p == Prefix(out, n)
           r == Suffix(out, n)
<1>2. got' = got /\ value' = value /\ wire' = wire \o p /\ out' = r
  BY <1>1 DEF write_some
<1>3. /\ out \in Seq(Bytes) /\ wire \in Seq(Bytes) /\ got \in Seq(Bytes)
      /\ p \in Seq(Bytes) /\ r \in Seq(Bytes) /\ p \o r = out
  BY HalvesOf DEF Moving
<1> HIDE DEF p, r
<1>4. (wire \o p) \o r = wire \o (p \o r)
  <2>1. wire \in Seq(Bytes) /\ p \in Seq(Bytes) /\ r \in Seq(Bytes)
    BY <1>3
  <2> QED
    BY <2>1, ConcatAssociative, SMTT(30)
<1>5. Stream' = Stream
  BY <1>2, <1>3, <1>4 DEF Stream
<1>6. wire \o p \in Seq(Bytes)
  BY <1>3, JoinIs
<1> QED
  BY <1>2, <1>3, <1>5, <1>6 DEF Moving

LEMMA ReadMoves ==
  ASSUME Moving, read_some
  PROVE  Moving' /\ Stream' = Stream /\ value' = value
<1>1. PICK n \in DOMAIN wire : got' = got \o Prefix(wire, n) /\ wire' = Suffix(wire, n)
  BY DEF read_some
<1> DEFINE p == Prefix(wire, n)
           r == Suffix(wire, n)
<1>2. out' = out /\ value' = value /\ got' = got \o p /\ wire' = r
  BY <1>1 DEF read_some
<1>3. /\ out \in Seq(Bytes) /\ wire \in Seq(Bytes) /\ got \in Seq(Bytes)
      /\ p \in Seq(Bytes) /\ r \in Seq(Bytes) /\ p \o r = wire
  BY HalvesOf DEF Moving
<1> HIDE DEF p, r
<1>4. (p \o r) \o out = p \o (r \o out)
  <2>1. out \in Seq(Bytes) /\ p \in Seq(Bytes) /\ r \in Seq(Bytes)
    BY <1>3
  <2> QED
    BY <2>1, ConcatAssociative, SMTT(30)
<1>5. r \o out \in Seq(Bytes) /\ got \o p \in Seq(Bytes)
  BY <1>3, JoinIs
<1>6. (got \o p) \o (r \o out) = got \o (p \o (r \o out))
  <2> DEFINE u == r \o out
  <2>1. got \in Seq(Bytes) /\ p \in Seq(Bytes) /\ u \in Seq(Bytes)
    BY <1>3, <1>5
  <2> HIDE DEF u
  <2>2. (got \o p) \o u = got \o (p \o u)
    BY <2>1, ConcatAssociative, SMTT(30)
  <2> QED
    BY <2>2 DEF u
<1>7. Stream' = Stream
  BY <1>2, <1>3, <1>4, <1>6 DEF Stream
<1> QED
  BY <1>2, <1>3, <1>5, <1>7 DEF Moving

\* Who has as many bytes as the second one says has the message, all of it.
LEMMA WholeIs ==
  ASSUME Moving, Whole
  PROVE  /\ Len(got) = 2 + Len(value) /\ got[1] = Stream[1] /\ got[2] = Len(value)
         /\ Suffix(got, 2) = value
         /\ SubSeq(got, 3, 2 + got[2]) = value
<1>1. value \in Seq(Bytes) /\ got \in Seq(Bytes) /\ wire \o out \in Seq(Bytes)
  BY JoinIs DEF Moving
<1> DEFINE w == wire \o out
<1>2. /\ Len(got) \in Nat /\ \A i \in 1 .. Len(got) : (got \o w)[i] = got[i]
      /\ Stream = got \o w
  <2>1. Stream = got \o w
    BY DEF Stream
  <2> HIDE DEF w
  <2>2. w \in Seq(Bytes)
    BY <1>1 DEF w
  <2> QED
    BY <1>1, <2>1, <2>2, JoinIs
<1> HIDE DEF w
<1>3. Len(got) >= 2 /\ Len(got) = 2 + got[2]
  BY <1>2 DEF Whole, Wanted
<1>4. got[1] = Stream[1] /\ got[2] = Stream[2]
  BY <1>2, <1>3
<1>5. /\ Stream[2] = Len(value) /\ \A i \in 1 .. Len(value) : Stream[2 + i] = value[i]
      /\ Len(value) \in Nat
  BY <1>1, LenProperties DEF Moving
<1>6. Len(got) = 2 + Len(value)
  BY <1>3, <1>4, <1>5
<1> DEFINE k == Len(value)
           x == SubSeq(got, 3, 3 + k - 1)
<1>7. x \in Seq(Bytes) /\ Len(x) = k /\ \A i \in 1 .. k : x[i] = got[3 + i - 1]
  <2>1. 3 \in Nat \ {0} /\ k \in Nat /\ 3 + k <= Len(got) + 1
    BY <1>5, <1>6
  <2> HIDE DEF k
  <2> QED
    BY <1>1, <2>1, PieceIs
<1>8. x = value
  <2>1. ASSUME NEW i \in 1 .. k
        PROVE  x[i] = value[i]
    <3>1. 3 + i - 1 = 2 + i /\ 2 + i \in 1 .. Len(got)
      BY <1>5, <1>6
    <3> HIDE DEF x
    <3>2. x[i] = got[2 + i] /\ got[2 + i] = Stream[2 + i] /\ Stream[2 + i] = value[i]
      BY <1>2, <1>5, <1>7, <3>1
    <3> QED
      BY <3>2
  <2> HIDE DEF x
  <2> QED
    BY <1>1, <1>7, <2>1, SeqEqual
<1>9. Suffix(got, 2) = x /\ SubSeq(got, 3, 2 + got[2]) = x
  <2>1. 3 + k - 1 = Len(got) /\ 3 + k - 1 = 2 + got[2] /\ 2 + 1 = 3
    BY <1>4, <1>5, <1>6
  <2> QED
    BY <2>1 DEF Suffix
<1> QED
  BY <1>4, <1>5, <1>6, <1>8, <1>9

-----------------------------------------------------------------------------
(***************************************************************************)
(* The inductive invariant.  While a message is under way its bytes are    *)
(* all there, in order; the request is one that the parsers treat as they  *)
(* should; and a reply is one that its length byte can announce.           *)
(***************************************************************************)
AsTyped == Shipped => Understood(asked[1], asked[2]) = fields /\ (Fit => fields = typed)

Reply ==
  /\ 2 + Len(value) \in Bytes
  /\ Stream[1] = MSG_GROUP_INFO => \E ip \in Ips, port \in Ports : value = InfoValue(ip, port)

FrameInv ==
  /\ pc \in {"menu", "server", "client", "told"}
  /\ pc \in {"server", "client"} => Moving /\ Strict(asked[1], asked[2]) /\ AsTyped
  /\ pc = "server" => Stream[1] = asked[1] /\ value = asked[2]
  /\ pc = "client" => parsed = Understood(asked[1], asked[2]) /\ Reply
  /\ RepliesArrive

LEMMA FrameStart == WireInit => FrameInv
BY DEF WireInit, FrameInv, RepliesArrive

LEMMA AskIsGood ==
  ASSUME NEW t, NEW lines, NEW read, NEW v, Ask(t, lines, read, v),
         Moving', Stream'[1] = t, value' = v, Strict(t, v),
         read # <<"raw">> => Understood(t, v) = read /\ (Fit' => read = lines)
  PROVE  FrameInv'
<1>1. /\ asked' = <<t, v>> /\ typed' = lines /\ fields' = read /\ pc' = "server"
  BY DEF Ask
<1>2. asked'[1] = t /\ asked'[2] = v
  BY <1>1
<1>3. AsTyped'
  BY <1>1, <1>2 DEF AsTyped, Shipped
<1>4. RepliesArrive'
  BY <1>1 DEF RepliesArrive
<1> QED
  BY <1>1, <1>2, <1>3, <1>4 DEF FrameInv

LEMMA AuthFields ==
  ASSUME NEW line1 \in Seq(Chars), NEW line2 \in Seq(Chars)
  PROVE  LET first == read_input(Line(line1) \o Line(line2), MaxUser)
             pass == read_input(first.rest, MaxPass).field
         IN  /\ first.field \in Seq(Chars) /\ pass \in Seq(Chars)
             /\ Len(line1) + 1 < MaxUser /\ Len(line2) + 1 < MaxPass =>
                  first.field = line1 /\ pass = line2
<1> DEFINE first == read_input(Line(line1) \o Line(line2), MaxUser)
           T == Chars \cup {Newline}
           second == read_input(first.rest, MaxPass)
<1>1. MaxUser \in Nat \ {0} /\ MaxPass \in Nat \ {0}
  BY LimitsAre
<1>2. Line(line2) \in Seq(T) /\ << >> \in Seq(T)
  BY LineIs, EmptySeq
<1>3. /\ first.field \in Seq(Chars)
      /\ Len(line1) + 1 < MaxUser => first.field = line1 /\ first.rest = Line(line2)
      /\ \/ first.rest = Line(line2)
         \/ \E left \in Seq(Chars) : first.rest = Line(left) \o Line(line2)
  BY <1>1, <1>2, ReadLineIs
<1>4. Line(line2) \o << >> = Line(line2)
  <2> HIDE DEF T
  <2> QED
    BY <1>2, ConcatEmptySeq
<1> DEFINE one == read_input(Line(line2) \o << >>, MaxPass)
<1>5. one.field \in Seq(Chars) /\ (Len(line2) + 1 < MaxPass => one.field = line2)
  BY <1>1, <1>2, ReadLineIs
<1>6. first.rest = Line(line2) => second = one
  BY <1>4
<1>7. second.field \in Seq(Chars)
  <2>1. CASE first.rest = Line(line2)
    <3> HIDE DEF second, one
    <3> QED
      BY <1>5, <1>6, <2>1
  <2>2. ASSUME NEW left \in Seq(Chars), first.rest = Line(left) \o Line(line2)
        PROVE  second.field \in Seq(Chars)
    <3> DEFINE two == read_input(Line(left) \o Line(line2), MaxPass)
    <3>1. two.field \in Seq(Chars)
      BY <1>1, <1>2, ReadLineIs
    <3>2. second = two
      BY <2>2
    <3> HIDE DEF second, two
    <3> QED
      BY <3>1, <3>2
  <2> HIDE DEF first, second
  <2> QED
    BY <1>3, <2>1, <2>2
<1>8. Len(line1) + 1 < MaxUser /\ Len(line2) + 1 < MaxPass =>
        first.field = line1 /\ second.field = line2
  <2> HIDE DEF first, second, one
  <2> QED
    BY <1>3, <1>5, <1>6
<1> QED
  BY <1>3, <1>7, <1>8

\* A request to register, as the shipped client builds it.
LEMMA AuthStep ==
  ASSUME NEW line1 \in Seq(Chars), NEW line2 \in Seq(Chars), build_auth_msg(line1, line2)
  PROVE  FrameInv'
<1> DEFINE first == read_input(Line(line1) \o Line(line2), MaxUser)
           user == first.field
           pass == read_input(first.rest, MaxPass).field
           v == AuthValue(user, pass)
<1>1. /\ Len(user) \in 1 .. MaxUser - 1 /\ Len(pass) \in 1 .. MaxPass - 1
      /\ Ask(MSG_REGISTER, <<line1, line2>>, <<user, pass>>, v)
      /\ Send(MSG_REGISTER, v)
  BY DEF build_auth_msg, is_valid_str
<1>2. /\ user \in Seq(Chars) /\ pass \in Seq(Chars)
      /\ Len(line1) + 1 < MaxUser /\ Len(line2) + 1 < MaxPass => user = line1 /\ pass = line2
  BY AuthFields
<1> HIDE DEF user, pass
<1>3. /\ user \in Seq(Alphabet) /\ pass \in Seq(Alphabet)
      /\ user \in Seq(Bytes) /\ pass \in Seq(Bytes)
  BY <1>2, AlphabetIs
<1>4. v \in Seq(Bytes) /\ 2 + Len(v) \in Bytes
  <2>1. /\ Len(user) \in Bytes /\ Len(pass) \in Bytes
    BY <1>1, LengthsAre, LimitsAre
  <2>2. v \in Seq(Bytes) /\ Len(v) = 2 + Len(user) + Len(pass)
    BY <1>3, <2>1, AuthIs
  <2> HIDE DEF v
  <2> DEFINE m == 2 + (MaxUser + MaxPass)
  <2>3. 2 + Len(v) \in 0 .. m
    BY <1>1, <2>2, LimitsAre
  <2>4. m \in Bytes
    BY LimitsAre
  <2> HIDE DEF m
  <2> QED
    BY <2>2, <2>3, <2>4, OneByte
<1>5. Understood(MSG_REGISTER, v) = <<user, pass>>
  <2>1. parse_auth_value(v) = <<CString(user), CString(pass)>>
    BY <1>1, <1>3, AuthParsed
  <2>2. CString(user) = user /\ CString(pass) = pass
    BY <1>2, CStringIs
  <2>3. Understood(MSG_REGISTER, v) = parse_auth_value(v)
    BY DEF Understood, MSG_REGISTER, MSG_JOIN_GROUP
  <2> QED
    BY <2>1, <2>2, <2>3
<1>6. Strict(MSG_REGISTER, v)
  <2>1. \E u, p \in Seq(Alphabet) :
          Len(u) \in 1 .. MaxUser - 1 /\ Len(p) \in 1 .. MaxPass - 1 /\ v = AuthValue(u, p)
    BY <1>1, <1>3
  <2> HIDE DEF v
  <2> QED
    BY <2>1, AuthIsStrict
<1> HIDE DEF v
<1>7. Moving' /\ Stream'[1] = MSG_REGISTER /\ value' = v
  <2>1. MSG_REGISTER \in Bytes
    BY TagsAre DEF Tags
  <2> QED
    BY <1>1, <1>4, <2>1, SendMoves
<1>8. Fit' => <<user, pass>> = <<line1, line2>>
  <2>1. typed' = <<line1, line2>>
    BY <1>1 DEF Ask
  <2>2. Fit' => Len(line1) + 1 < MaxUser /\ Len(line2) + 1 < MaxPass
    BY <2>1 DEF Fit, Limit
  <2> QED
    BY <1>2, <2>2
<1> QED
  BY <1>1, <1>5, <1>6, <1>7, <1>8, AskIsGood

\* A request to join a group.
LEMMA GroupStep ==
  ASSUME NEW line \in Seq(Chars), build_group_msg(line)
  PROVE  FrameInv'
<1> DEFINE name == read_input(Line(line), MaxGroup).field
           v == GroupValue(name)
<1>1. /\ Len(name) \in 1 .. MaxGroup - 1
      /\ Ask(MSG_JOIN_GROUP, <<line>>, <<name>>, v)
      /\ Send(MSG_JOIN_GROUP, v)
  BY DEF build_group_msg, is_valid_str
<1>2. name \in Seq(Chars) /\ (Len(line) + 1 < MaxGroup => name = line)
  <2> DEFINE T == Chars \cup {Newline}
             one == read_input(Line(line) \o << >>, MaxGroup)
  <2>1. Line(line) \in Seq(T) /\ << >> \in Seq(T)
    BY LineIs, EmptySeq
  <2>2. Line(line) \o << >> = Line(line)
    <3> HIDE DEF T
    <3> QED
      BY <2>1, ConcatEmptySeq
  <2>3. one.field \in Seq(Chars) /\ (Len(line) + 1 < MaxGroup => one.field = line)
    BY <2>1, LimitsAre, ReadLineIs
  <2>4. name = one.field
    BY <2>2
  <2> HIDE DEF name, one
  <2> QED
    BY <2>3, <2>4
<1> HIDE DEF name
<1>3. name \in Seq(Alphabet) /\ name \in Seq(Bytes)
  BY <1>2, AlphabetIs
<1>4. v \in Seq(Bytes) /\ 2 + Len(v) \in Bytes
  <2>1. Len(name) \in Bytes
    BY <1>1, LengthsAre, LimitsAre
  <2>2. v \in Seq(Bytes) /\ Len(v) = 1 + Len(name)
    BY <1>3, <2>1, GroupIs
  <2> HIDE DEF v
  <2> DEFINE m == 2 + (MaxGroup + 1)
  <2>3. 2 + Len(v) \in 0 .. m
    BY <1>1, <2>2, LimitsAre
  <2>4. m \in Bytes
    BY LimitsAre
  <2> HIDE DEF m
  <2> QED
    BY <2>2, <2>3, <2>4, OneByte
<1>5. Understood(MSG_JOIN_GROUP, v) = <<name>>
  <2>1. parse_group_value(v) = <<CString(name)>>
    BY <1>1, <1>3, GroupParsed
  <2>2. CString(name) = name
    BY <1>2, CStringIs
  <2>3. Understood(MSG_JOIN_GROUP, v) = parse_group_value(v)
    BY DEF Understood, MSG_REGISTER, MSG_JOIN_GROUP
  <2> QED
    BY <2>1, <2>2, <2>3
<1>6. Strict(MSG_JOIN_GROUP, v)
  <2>1. \E n \in Seq(Alphabet) : Len(n) \in 1 .. MaxGroup - 1 /\ v = GroupValue(n)
    BY <1>1, <1>3
  <2> HIDE DEF v
  <2> QED
    BY <2>1, GroupIsStrict
<1> HIDE DEF v
<1>7. Moving' /\ Stream'[1] = MSG_JOIN_GROUP /\ value' = v
  <2>1. MSG_JOIN_GROUP \in Bytes
    BY TagsAre DEF Tags
  <2> QED
    BY <1>1, <1>4, <2>1, SendMoves
<1>8. Fit' => <<name>> = <<line>>
  <2>1. typed' = <<line>>
    BY <1>1 DEF Ask
  <2>2. Fit' => Len(line) + 1 < MaxGroup
    BY <2>1 DEF Fit, Limit
  <2> QED
    BY <1>2, <2>2
<1> QED
  BY <1>1, <1>5, <1>6, <1>7, <1>8, AskIsGood

\* A request without a value.
LEMMA SimpleStep ==
  ASSUME build_simple_msg
  PROVE  FrameInv'
<1>1. Ask(MSG_LOGOUT, << >>, << >>, << >>) /\ Send(MSG_LOGOUT, << >>)
  BY DEF build_simple_msg
<1>2. << >> \in Seq(Bytes) /\ 2 + Len(<< >>) \in Bytes /\ MSG_LOGOUT \in Bytes
  <2>1. Len(<< >>) = 0 /\ 2 + 0 = 2
    BY EmptySeq
  <2> QED
    BY <2>1, EmptySeq, OneByte, TagsAre DEF Tags
<1>3. Moving' /\ Stream'[1] = MSG_LOGOUT /\ value' = << >>
  BY <1>1, <1>2, SendMoves
<1>4. Understood(MSG_LOGOUT, << >>) = Malformed /\ Made(<< >>, MSG_LOGOUT) = {}
  BY DEF Understood, Made, MSG_LOGOUT, MSG_REGISTER, MSG_JOIN_GROUP
<1>5. Strict(MSG_LOGOUT, << >>)
  BY <1>4 DEF Strict
<1>6. Understood(MSG_LOGOUT, << >>) = << >>
  BY <1>4 DEF Malformed
<1> QED
  BY <1>1, <1>3, <1>5, <1>6, AskIsGood

\* A request of another client, whatever its value.
LEMMA RawStep ==
  ASSUME Raw
  PROVE  FrameInv'
<1>1. PICK t \in {MSG_REGISTER, MSG_JOIN_GROUP}, v \in Strings(RawBytes, MaxRaw) :
        Ask(t, << >>, <<"raw">>, v) /\ Carry(v, <<t, Len(v)>> \o v)
  BY DEF Raw
<1>2. /\ v \in Seq(RawBytes) /\ v \in Seq(Alphabet) /\ v \in Seq(Bytes) /\ Len(v) \in Bytes
  <2>1. MaxRaw \in Nat /\ MaxRaw \in Bytes
    BY LimitsAre, OneByte
  <2>2. v \in Seq(RawBytes) /\ Len(v) <= MaxRaw
    BY <2>1, StringsAre
  <2>3. Len(v) \in 0 .. MaxRaw
    BY <2>1, <2>2, LenProperties
  <2> QED
    BY <2>1, <2>2, <2>3, AlphabetIs, OneByte
<1>3. Moving' /\ Stream'[1] = t /\ value' = v
  <2>1. t \in Bytes
    BY TagsAre DEF Tags
  <2> QED
    BY <1>1, <1>2, <2>1, CarryMoves
<1>4. Strict(t, v)
  <2>1. CASE t = MSG_REGISTER
    <3>1. parse_auth_value(v) # Malformed =>
            \E user, pass \in Seq(Alphabet) :
              /\ Len(user) \in 1 .. MaxUser - 1 /\ Len(pass) \in 1 .. MaxPass - 1
              /\ v = AuthValue(user, pass)
      BY <1>2, AlphabetIs, AuthAccepted
    <3> QED
      BY <2>1, <3>1, AuthIsStrict
  <2>2. CASE t = MSG_JOIN_GROUP
    <3>1. parse_group_value(v) # Malformed =>
            \E name \in Seq(Alphabet) : Len(name) \in 1 .. MaxGroup - 1 /\ v = GroupValue(name)
      BY <1>2, AlphabetIs, GroupAccepted
    <3> QED
      BY <2>2, <3>1, GroupIsStrict
  <2> QED
    BY <2>1, <2>2
<1> QED
  BY <1>1, <1>3, <1>4, AskIsGood

\* Bytes that move on change nothing else.
LEMMA MoveStep ==
  ASSUME FrameInv, write_some \/ read_some
  PROVE  FrameInv'
<1>1. UNCHANGED <<pc, asked, typed, fields, value, parsed, told>>
  BY DEF write_some, read_some
<1>2. Moving => Moving' /\ Stream' = Stream
  BY WriteMoves, ReadMoves
<1>3. AsTyped => AsTyped'
  BY <1>1 DEF AsTyped, Shipped, Fit, Limit
<1>4. RepliesArrive'
  BY <1>1 DEF FrameInv, RepliesArrive
<1>5. CASE pc \in {"server", "client"}
  <2>1. Moving' /\ Stream' = Stream /\ Strict(asked[1], asked[2])' /\ AsTyped'
    BY <1>1, <1>2, <1>3, <1>5 DEF FrameInv
  <2>2. Reply => Reply'
    BY <1>1, <2>1 DEF Reply
  <2> QED
    BY <1>1, <1>4, <2>1, <2>2 DEF FrameInv
<1>6. CASE pc \notin {"server", "client"}
  BY <1>1, <1>4, <1>6 DEF FrameInv
<1> QED
  BY <1>5, <1>6

LEMMA InfoFits ==
  ASSUME NEW ip \in Ips, NEW port \in Ports
  PROVE  /\ ip \in Seq(Bytes) /\ Len(ip) \in 0 .. MaxIp - 1 /\ port \in Words
         /\ InfoValue(ip, port) \in Seq(Bytes) /\ 2 + Len(InfoValue(ip, port)) \in Bytes
<1>1. ip \in Seq(Bytes) /\ Len(ip) \in 0 .. MaxIp - 1
  <2>1. MaxIp - 1 \in Nat
    BY LimitsAre
  <2>2. ip \in Seq(Chars) /\ Len(ip) <= MaxIp - 1
    BY <2>1, StringsAre DEF Ips
  <2>3. ip \in Seq(Bytes)
    BY <2>2, SeqMonotonic, LimitsAre
  <2> QED
    BY <2>1, <2>2, <2>3, LenProperties
<1>2. port \in Words
  BY PortsAssumption
<1>3. Len(ip) \in Bytes
  BY <1>1, LengthsAre, LimitsAre
<1> DEFINE v == InfoValue(ip, port)
<1>4. v \in Seq(Bytes) /\ Len(v) = 3 + Len(ip)
  BY <1>1, <1>2, <1>3, InfoIs
<1> HIDE DEF v
<1>5. 2 + Len(v) \in Bytes
  <2> DEFINE m == 2 + (MaxIp + 3)
  <2>1. 2 + Len(v) \in 0 .. m
    BY <1>1, <1>4, LimitsAre
  <2>2. m \in Bytes
    BY LimitsAre
  <2> HIDE DEF m
  <2> QED
    BY <2>1, <2>2, OneByte
<1> QED
  BY <1>1, <1>2, <1>4, <1>5 DEF v

LEMMA DispatchStep ==
  ASSUME FrameInv, dispatch_message
  PROVE  FrameInv'
<1>1. /\ pc = "server" /\ pc' = "client" /\ Whole
      /\ UNCHANGED <<asked, typed, fields, told>>
  BY DEF dispatch_message
<1>2. Moving /\ Strict(asked[1], asked[2]) /\ AsTyped /\ Stream[1] = asked[1] /\ value = asked[2]
  BY <1>1 DEF FrameInv
<1>3. got[1] = asked[1] /\ Suffix(got, 2) = asked[2]
  BY <1>1, <1>2, WholeIs
<1>4. parsed' = Understood(asked'[1], asked'[2])
  BY <1>1, <1>3 DEF dispatch_message
<1>5. Moving' /\ Reply'
  <2>0. PICK t \in {MSG_ERROR, MSG_SUCCESS, MSG_GROUP_INFO} : \E v :
          /\ Send(t, v)
          /\ \/ t # MSG_GROUP_INFO /\ \E b \in Codes \cup {0} : v = <<b>>
             \/ \E ip \in Ips, port \in Ports : v = InfoValue(ip, port)
    <3>1. \/ \E code \in Codes : Send(MSG_ERROR, <<code>>)
          \/ Send(MSG_SUCCESS, <<0>>)
          \/ \E ip \in Ips, port \in Ports : Send(MSG_GROUP_INFO, InfoValue(ip, port))
      BY DEF dispatch_message
    <3>2. MSG_ERROR # MSG_GROUP_INFO /\ MSG_SUCCESS # MSG_GROUP_INFO
      BY DEF MSG_ERROR, MSG_SUCCESS, MSG_GROUP_INFO
    <3> QED
      BY <3>1, <3>2
  <2>1. PICK v : /\ Send(t, v)
                 /\ \/ t # MSG_GROUP_INFO /\ \E b \in Codes \cup {0} : v = <<b>>
                    \/ \E ip \in Ips, port \in Ports : v = InfoValue(ip, port)
    BY <2>0
  <2>2. v \in Seq(Bytes) /\ 2 + Len(v) \in Bytes
    <3>1. CASE \E b \in Codes \cup {0} : v = <<b>>
      <4>1. PICK b \in Codes \cup {0} : v = <<b>>
        BY <3>1
      <4>2. b \in Bytes
        BY TagsAre, OneByte
      <4>3. <<b>> \in Seq(Bytes) /\ Len(<<b>>) = 1
        BY <4>2
      <4>4. 2 + 1 \in Bytes
        BY DEF Bytes
      <4> QED
        BY <4>1, <4>3, <4>4
    <3>2. CASE \E ip \in Ips, port \in Ports : v = InfoValue(ip, port)
      BY <3>2, InfoFits
    <3> QED
      BY <2>1, <3>1, <3>2
  <2>3. t \in Bytes
    BY TagsAre DEF Tags
  <2>4. Moving' /\ Stream'[1] = t /\ value' = v
    BY <2>1, <2>2, <2>3, SendMoves
  <2>5. Reply'
    BY <2>1, <2>2, <2>4 DEF Reply
  <2> QED
    BY <2>4, <2>5
<1>6. AsTyped' /\ Strict(asked[1], asked[2])'
  BY <1>1, <1>2 DEF AsTyped, Shipped, Fit, Limit
<1>7. RepliesArrive'
  BY <1>1 DEF RepliesArrive
<1> QED
  BY <1>1, <1>4, <1>5, <1>6, <1>7 DEF FrameInv

\* The reply is whole, and its length has not wrapped.
LEMMA ReturnStep ==
  ASSUME FrameInv, net_send_recv_returns
  PROVE  FrameInv'
<1> DEFINE reply == deserialize_msg(got, uint8(2 + got[2]))
<1>1. /\ pc = "client" /\ pc' = "told" /\ Whole /\ value' = value
      /\ told' = IF reply # <<"error">> /\ got[1] = MSG_GROUP_INFO
                 THEN parse_group_info(reply[2]) ELSE reply
  BY DEF net_send_recv_returns
<1>2. Moving /\ Reply
  BY <1>1 DEF FrameInv
<1>3. /\ got[1] = Stream[1] /\ got[2] = Len(value) /\ SubSeq(got, 3, 2 + got[2]) = value
  BY <1>1, <1>2, WholeIs
<1>4. reply = <<"value", value>>
  <2>1. Len(value) \in Nat
    BY <1>2, LenProperties DEF Moving
  <2>2. uint8(2 + got[2]) = 2 + Len(value)
    BY <1>2, <1>3, OneByte DEF Reply
  <2> DEFINE n == 2 + Len(value)
  <2>3. ~(n < 2 \/ got[2] > n - 2)
    BY <1>3, <2>1
  <2>4. uint8(2 + got[2]) = n
    BY <2>2
  <2> HIDE DEF n
  <2>5. deserialize_msg(got, n) = <<"value", SubSeq(got, 3, 2 + got[2])>>
    BY <2>3 DEF deserialize_msg
  <2> QED
    BY <1>3, <2>4, <2>5
<1> HIDE DEF reply
<1>5. CASE got[1] = MSG_GROUP_INFO
  <2>1. PICK ip \in Ips, port \in Ports : value = InfoValue(ip, port)
    BY <1>2, <1>3, <1>5 DEF Reply
  <2>2. parse_group_info(value) = <<"info", ip, port>>
    BY <2>1, InfoFits, InfoParsed
  <2>3. told' = <<"info", ip, port>>
    <3>1. reply # <<"error">> /\ reply[2] = value
      BY <1>4
    <3> QED
      BY <1>1, <1>5, <2>2, <3>1
  <2>4. told'[1] = "info" /\ told'[2] = ip /\ told'[3] = port
    BY <2>3
  <2>5. RepliesArrive'
    BY <1>1, <2>1, <2>4 DEF RepliesArrive
  <2> QED
    BY <1>1, <2>5 DEF FrameInv
<1>6. CASE got[1] # MSG_GROUP_INFO
  <2>1. told' = <<"value", value>>
    BY <1>1, <1>4, <1>6
  <2>2. told'[1] = "value" /\ told'[2] = value
    BY <2>1
  <2>3. RepliesArrive'
    BY <1>1, <2>2 DEF RepliesArrive
  <2> QED
    BY <1>1, <2>3 DEF FrameInv
<1> QED
  BY <1>5, <1>6

LEMMA BackStep ==
  ASSUME back_to_menu
  PROVE  FrameInv'
BY DEF back_to_menu, FrameInv, RepliesArrive

LEMMA FrameStep == FrameInv /\ [WireNext]_wirevars => FrameInv'
<1> SUFFICES ASSUME FrameInv, [WireNext]_wirevars
             PROVE  FrameInv'
  OBVIOUS
<1>0. \A s \in Strings(Chars, MaxLine) : s \in Seq(Chars)
  BY LimitsAre, StringsAre
<1>1. ASSUME NEW s \in Strings(Chars, MaxLine), NEW t \in Strings(Chars, MaxLine),
             build_auth_msg(s, t)
      PROVE  FrameInv'
  BY <1>0, <1>1, AuthStep
<1>2. ASSUME NEW s \in Strings(Chars, MaxLine), build_group_msg(s)
      PROVE  FrameInv'
  BY <1>0, <1>2, GroupStep
<1>3. CASE build_simple_msg
  BY <1>3, SimpleStep
<1>4. CASE Raw
  BY <1>4, RawStep
<1>5. CASE Exchange
  BY <1>5, MoveStep, DispatchStep, ReturnStep, BackStep DEF Exchange
<1>6. CASE UNCHANGED wirevars
  <2>1. UNCHANGED <<pc, asked, typed, fields, value, out, wire, got, parsed, told>>
    BY <1>6 DEF wirevars
  <2>2. Stream' = Stream
    BY <2>1 DEF Stream
  <2>3. Moving => Moving'
    BY <2>1, <2>2 DEF Moving
  <2>4. (AsTyped => AsTyped') /\ (Reply => Reply') /\ (RepliesArrive => RepliesArrive')
    BY <2>1, <2>2 DEF AsTyped, Shipped, Fit, Limit, Reply, RepliesArrive
  <2>5. Strict(asked[1], asked[2]) => Strict(asked[1], asked[2])'
    BY <2>1
  <2> QED
    BY <2>1, <2>2, <2>3, <2>4, <2>5 DEF FrameInv
<1> QED
  BY <1>1, <1>2, <1>3, <1>4, <1>5, <1>6 DEF WireNext

\* The invariant holds for all characters, ports and limits of the code.
THEOREM FrameInvariance == WireSpec => []FrameInv
BY FrameStart, FrameStep, PTL DEF WireSpec

-----------------------------------------------------------------------------
(***************************************************************************)
(* The properties.                                                         *)
(***************************************************************************)
\* Whatever the pieces in which TCP delivers it, the server takes a request of the
\* shipped client for the fields it was built from, and these are the lines the user
\* typed, unless one was too long (get_input_safe, build_auth_msg, parse_auth_value).
THEOREM RequestsArrive == WireSpec => []RequestsArriveAsTyped
<1>1. FrameInv => RequestsArriveAsTyped
  BY DEF FrameInv, RequestsArriveAsTyped, AsTyped
<1> QED
  BY <1>1, FrameInvariance, PTL

\* The parsers of the server accept a value if and only if the builders make it, and
\* take it for what it was made of; the client reads nothing beyond a reply
\* (parse_auth_value, parse_group_value, parse_group_info).
THEOREM ParsersAcceptWhatIsBuilt == WireSpec => []ParsersAreStrict
<1>1. ASSUME NEW v \in Strings(RawBytes, MaxIp + 1), parse_group_info(v) # <<"error">>
      PROVE  v[1] + 3 <= Len(v) /\ v[1] < MaxIp
  <2>1. MaxIp + 1 \in Nat
    BY LimitsAre
  <2>2. v \in Seq(RawBytes)
    BY <2>1, StringsAre
  <2>3. v \in Seq(Bytes)
    BY <2>2, AlphabetIs
  <2> QED
    BY <1>1, <2>3, InfoIsStrict
<1>2. ASSUME FrameInv, pc = "client"
      PROVE  {parsed} \ {Malformed}
               = {[k \in DOMAIN m |-> CString(m[k])] : m \in Made(asked[2], asked[1])}
  BY <1>2 DEF FrameInv, Strict
<1>3. FrameInv => ParsersAreStrict
  BY <1>1, <1>2 DEF ParsersAreStrict
<1> QED
  BY <1>3, FrameInvariance, PTL

\* What the client has of a reply is what the server sent, and no length wraps on the
\* way (serialize_msg, net_send_recv, deserialize_msg).
THEOREM RepliesAreUnderstood == WireSpec => []RepliesArrive
<1>1. FrameInv => RepliesArrive
  BY DEF FrameInv
<1> QED
  BY <1>1, FrameInvariance, PTL
=============================================================================
