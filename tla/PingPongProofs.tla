--------------------------- MODULE PingPongProofs ---------------------------
(***************************************************************************)
(* The ping-pong server and its clients, for any number of clients, any    *)
(* lengths, and clients that are killed at any time.                       *)
(*                                                                         *)
(* Two things hold each other up.  The list and the walk over it: select   *)
(* and accept put no node twice, what is still to be visited is in the     *)
(* list, and write_set, which is as old as the last select, still tells    *)
(* the truth of the nodes not visited yet.  And the message of a client,   *)
(* which is at one place: on the way to the server, in its node, or on the *)
(* way back.  A node is sent from only when its message is complete, which *)
(* is known from write_set; and no live client is dropped, which is known  *)
(* from the place of its message.                                          *)
(***************************************************************************)
EXTENDS PingPong, FiniteSetTheorems, SequenceTheorems, TLAPS

-----------------------------------------------------------------------------
(* The invariant. *)

Members(s) == {s[j] : j \in 1 .. Len(s)}
Once(s) == \A j, k \in 1 .. Len(s) : s[j] = s[k] => j = k

Pairs == Nat \X Nat

\* The bytes a + 1 .. b of the n-th message.
Piece(n, a, b) == SubSeq(Message(n), a + 1, b)

Live(c) == c_pc[c] \in {"send", "recv"}

\* Every map has an entry for every client.
Shapes ==
  /\ DOMAIN c2s = Clients /\ DOMAIN s2c = Clients
  /\ DOMAIN c_pc = Clients /\ DOMAIN cnt = Clients
  /\ DOMAIN num_tests = Clients /\ DOMAIN cbuf = Clients
  /\ DOMAIN buffer = Clients /\ DOMAIN added_pos = Clients
  /\ DOMAIN len_buffer = Clients /\ DOMAIN pending_data = Clients

Lists ==
  /\ nodes \in Seq(Clients) /\ Once(nodes)
  /\ backlog \in Seq(Clients) /\ Once(backlog)
  /\ Members(nodes) \cap Members(backlog) = {}
  /\ \A c \in Clients : c_pc[c] = "start" => c \notin Members(nodes) \cup Members(backlog)
  /\ \A c \in Clients \ narrow :
       mode_flag = 0 /\ Live(c) => c \in Members(nodes) \cup Members(backlog)
  /\ mode_flag \in {0, 1} /\ (mode_flag = 1 => nodes = <<>>)
  /\ \A c \in Clients : c \in broken => Gone(c)

\* Of these nodes write_set tells the truth.
ToldRight(s) ==
  \A c \in Clients \ narrow : c \in write_set \cap Members(s) => pending_data[c]

Walk ==
  /\ s_pc \in {"write", "read"} =>
       /\ mode_flag = 0
       /\ todo \in Seq(Clients) /\ todo # <<>> /\ Once(todo)
       /\ Members(todo) \subseteq Members(nodes)
  /\ s_pc = "accept" =>
       backlog # <<>> /\ todo = nodes /\ write_set \subseteq Members(nodes)
  /\ s_pc \in {"accept", "write"} => ToldRight(todo)
  /\ s_pc = "read" => ToldRight(Tail(todo))

\* The message of c is on its way to the server, the first added_pos bytes of
\* it already in the node's buffer.
Coming(c) ==
  LET n    == num_tests[c] + 1
      sent == IF c_pc[c] = "send" THEN cnt[c] ELSE SIZE
      got  == added_pos[c]
  IN /\ ~ pending_data[c]
     /\ s2c[c] = <<>>
     /\ got \in Nat /\ got <= sent /\ got < SIZE /\ got # 1
     /\ sent # 1
     /\ c2s[c] = Piece(n, got, sent)
     /\ len_buffer[c] = IF got = 0 THEN 0 ELSE SIZE
     /\ \A p \in 1 .. got : buffer[c][p] = <<n, p>>

\* It is complete and to be sent back.
Complete(c) ==
  /\ pending_data[c]
  /\ c_pc[c] = "recv"
  /\ c2s[c] = <<>> /\ s2c[c] = <<>>
  /\ added_pos[c] = 0 /\ len_buffer[c] = SIZE
  /\ \A p \in 1 .. SIZE : buffer[c][p] = <<num_tests[c] + 1, p>>

\* It is on its way back.
Returning(c) ==
  /\ ~ pending_data[c]
  /\ c_pc[c] = "recv"
  /\ c2s[c] = <<>> /\ s2c[c] = Message(num_tests[c] + 1)
  /\ added_pos[c] = 0 /\ len_buffer[c] = 0

\* Nothing has happened to the node of c.
Fresh(c) == added_pos[c] = 0 /\ len_buffer[c] = 0 /\ ~ pending_data[c]

Unused(c) == Fresh(c) /\ c2s[c] = <<>> /\ s2c[c] = <<>>

\* One client.
Exchange(c) ==
  /\ c_pc[c] \in {"start", "send", "recv", "done", "killed"}
  /\ cnt[c] \in 0 .. SIZE - 1
  /\ mode_flag = 1 \/ c_pc[c] \in {"start", "recv"} => cnt[c] = 0
  /\ num_tests[c] \in Nat
  /\ mode_flag = 1 \/ c_pc[c] = "start" => num_tests[c] = 0
  /\ DOMAIN cbuf[c] = 1 .. SIZE
  /\ num_tests[c] > 0 /\ c_pc[c] \in {"send", "done"} => cbuf[c] = Message(num_tests[c])
  /\ ~ Gone(c) => buffer[c] \in [1 .. MSG_MAX -> Pairs]
  /\ c_pc[c] = "start" => Unused(c)
  /\ mode_flag = 0 /\ Live(c) => Coming(c) \/ Complete(c) \/ Returning(c)

\* Nobody visits the node of a client before it is accepted.
Waiting ==
  \A c \in Clients \ narrow : c \in Members(backlog) /\ mode_flag = 0 /\ Live(c) => Fresh(c)

IInv ==
  /\ Shapes
  /\ Lists
  /\ Walk
  /\ Waiting
  /\ \A c \in Clients \ narrow : Exchange(c)

-----------------------------------------------------------------------------
(* The bytes of a message. *)

LEMMA IsPair ==
  ASSUME NEW n \in Nat, NEW p \in Nat, NEW x, x = <<n, p>>
  PROVE  x \in Pairs
  BY DEF Pairs

LEMMA MessageSeq ==
  ASSUME NEW n \in Nat
  PROVE  /\ Message(n) \in Seq(Pairs)
         /\ Len(Message(n)) = SIZE
         /\ \A p \in 1 .. SIZE : Message(n)[p] = <<n, p>>
<1>1. SIZE \in Nat /\ \A p \in 1 .. SIZE : <<n, p>> \in Pairs
  BY PathAssumption DEF Pairs
<1>2. Message(n) \in Seq(Pairs)
  BY <1>1, IsASeq DEF Message
<1> QED BY <1>1, <1>2, LenProperties DEF Message

\* A piece of it.
LEMMA PieceIs ==
  ASSUME NEW n \in Nat, NEW a \in 0 .. SIZE, NEW b \in a .. SIZE
  PROVE  /\ Piece(n, a, b) \in Seq(Pairs)
         /\ Len(Piece(n, a, b)) = b - a
         /\ \A p \in 1 .. b - a : Piece(n, a, b)[p] = <<n, a + p>>
<1>1. a + 1 \in Int /\ b \in Int
  BY PathAssumption
<1>2. ASSUME NEW p \in a + 1 .. b
      PROVE  Message(n)[p] = <<n, p>> /\ Message(n)[p] \in Pairs
  <2>1. p \in 1 .. SIZE /\ p \in Nat
    BY PathAssumption
  <2>2. Message(n)[p] = <<n, p>>
    BY <2>1, MessageSeq
  <2> QED BY <2>1, <2>2, IsPair
<1>3. /\ Piece(n, a, b) \in Seq(Pairs)
      /\ Len(Piece(n, a, b)) = IF a + 1 <= b THEN b - (a + 1) + 1 ELSE 0
      /\ \A p \in 1 .. b - (a + 1) + 1 : Piece(n, a, b)[p] = Message(n)[a + 1 + p - 1]
  BY <1>1, <1>2, SubSeqProperties DEF Piece
<1>4. \A p \in 1 .. b - a : a + 1 + p - 1 = a + p /\ a + p \in a + 1 .. b
  BY <1>1, PathAssumption
<1>5. b - (a + 1) + 1 = b - a /\ (IF a + 1 <= b THEN b - a ELSE 0) = b - a
  BY <1>1, PathAssumption
<1> QED BY <1>2, <1>3, <1>4, <1>5

LEMMA NoPiece ==
  ASSUME NEW n \in Nat, NEW a \in 0 .. SIZE
  PROVE  Piece(n, a, a) = <<>>
<1>1. a + 1 \in Int /\ a \in Int /\ a < a + 1
  BY PathAssumption
<1> QED BY <1>1, SubSeqEmpty DEF Piece

LEMMA WholePiece ==
  ASSUME NEW n \in Nat
  PROVE  Piece(n, 0, SIZE) = Message(n)
<1>1. SubSeq(Message(n), 1, SIZE) = Message(n)
  BY MessageSeq, SubSeqFull
<1>2. 0 + 1 = 1
  OBVIOUS
<1> QED BY <1>1, <1>2 DEF Piece

\* What follows a piece is added to it.
LEMMA JoinPieces ==
  ASSUME NEW n \in Nat, NEW a \in 0 .. SIZE, NEW b \in a .. SIZE, NEW d \in b .. SIZE
  PROVE  Piece(n, a, b) \o Piece(n, b, d) = Piece(n, a, d)
<1>1. /\ Message(n) \in Seq(Pairs)
      /\ a + 1 \in 1 .. Len(Message(n)) + 1
      /\ b \in (a + 1) - 1 .. Len(Message(n))
      /\ d \in b .. Len(Message(n))
  BY PathAssumption, MessageSeq
<1> QED BY <1>1, ConcatAdjacentSubSeq DEF Piece

\* It is taken away in two parts.
LEMMA SplitPiece ==
  ASSUME NEW n \in Nat, NEW a \in 0 .. SIZE, NEW b \in a .. SIZE, NEW k \in 0 .. b - a
  PROVE  /\ Drop(Piece(n, a, b), k) = Piece(n, a + k, b)
         /\ SubSeq(Piece(n, a, b), 1, k) = Piece(n, a, a + k)
<1> DEFINE s == Piece(n, a, b)
<1>1. /\ a \in Int /\ b \in Int /\ k \in Int /\ a <= a + k /\ a + k <= b
      /\ a + k \in 0 .. SIZE /\ b \in a + k .. SIZE /\ a + k \in a .. SIZE
  BY PathAssumption
<1>2. s \in Seq(Pairs) /\ Len(s) = b - a /\ \A p \in 1 .. b - a : s[p] = <<n, a + p>>
  BY PieceIs
<1> HIDE DEF s
<1>3. \A p \in 1 .. b - a : s[p] \in Pairs
  BY <1>2, ElementOfSeq
<1>4. /\ SubSeq(s, k + 1, b - a) \in Seq(Pairs)
      /\ Len(SubSeq(s, k + 1, b - a)) = b - (a + k)
      /\ \A p \in 1 .. b - (a + k) : SubSeq(s, k + 1, b - a)[p] = <<n, (a + k) + p>>
  <2>1. \A p \in k + 1 .. b - a : s[p] \in Pairs
    BY <1>1, <1>3
  <2>2. /\ SubSeq(s, k + 1, b - a) \in Seq(Pairs)
        /\ Len(SubSeq(s, k + 1, b - a)) =
             IF k + 1 <= b - a THEN (b - a) - (k + 1) + 1 ELSE 0
        /\ \A p \in 1 .. (b - a) - (k + 1) + 1 :
             SubSeq(s, k + 1, b - a)[p] = s[(k + 1) + p - 1]
    BY <1>1, <2>1, SubSeqProperties
  <2>3. /\ (b - a) - (k + 1) + 1 = b - (a + k)
        /\ (IF k + 1 <= b - a THEN (b - a) - (k + 1) + 1 ELSE 0) = b - (a + k)
        /\ \A p \in 1 .. b - (a + k) :
             (k + 1) + p - 1 \in 1 .. b - a /\ a + ((k + 1) + p - 1) = (a + k) + p
    BY <1>1
  <2> QED BY <1>2, <2>2, <2>3
<1>5. /\ SubSeq(s, 1, k) \in Seq(Pairs)
      /\ Len(SubSeq(s, 1, k)) = (a + k) - a
      /\ \A p \in 1 .. (a + k) - a : SubSeq(s, 1, k)[p] = <<n, a + p>>
  <2>1. \A p \in 1 .. k : s[p] \in Pairs
    BY <1>1, <1>3
  <2>2. /\ SubSeq(s, 1, k) \in Seq(Pairs)
        /\ Len(SubSeq(s, 1, k)) = IF 1 <= k THEN k - 1 + 1 ELSE 0
        /\ \A p \in 1 .. k - 1 + 1 : SubSeq(s, 1, k)[p] = s[1 + p - 1]
    BY <1>1, <2>1, SubSeqProperties
  <2>3. /\ k - 1 + 1 = (a + k) - a
        /\ (IF 1 <= k THEN k - 1 + 1 ELSE 0) = (a + k) - a
        /\ \A p \in 1 .. (a + k) - a : 1 + p - 1 = p /\ p \in 1 .. b - a
    BY <1>1
  <2> QED BY <1>2, <2>2, <2>3
<1>6. SubSeq(s, k + 1, b - a) = Piece(n, a + k, b)
  <2>1. /\ Piece(n, a + k, b) \in Seq(Pairs)
        /\ Len(Piece(n, a + k, b)) = b - (a + k)
        /\ \A p \in 1 .. b - (a + k) : Piece(n, a + k, b)[p] = <<n, (a + k) + p>>
    BY <1>1, PieceIs
  <2> QED BY <1>4, <2>1, SeqEqual
<1>7. SubSeq(s, 1, k) = Piece(n, a, a + k)
  <2>1. /\ Piece(n, a, a + k) \in Seq(Pairs)
        /\ Len(Piece(n, a, a + k)) = (a + k) - a
        /\ \A p \in 1 .. (a + k) - a : Piece(n, a, a + k)[p] = <<n, a + p>>
    BY <1>1, PieceIs
  <2> QED BY <1>5, <2>1, SeqEqual
<1> QED BY <1>2, <1>6, <1>7 DEF s, Drop

\* A full buffer holds the message.
LEMMA BufferIs ==
  ASSUME NEW n \in Nat, NEW b, \A p \in 1 .. SIZE : b[p] = <<n, p>>
  PROVE  SubSeq(b, 0 + 1, 0 + SIZE) = Message(n)
<1>1. ASSUME NEW p \in 1 .. SIZE
      PROVE  b[p] \in Pairs
  <2>1. p \in Nat /\ b[p] = <<n, p>>
    BY PathAssumption
  <2> QED BY <2>1, IsPair
<1>2. SIZE \in Int /\ 1 \in Int /\ 1 <= SIZE /\ SIZE - 1 + 1 = SIZE /\ \A p \in 1 .. SIZE : 1 + p - 1 = p
  BY PathAssumption
<1>3. /\ SubSeq(b, 1, SIZE) \in Seq(Pairs)
      /\ Len(SubSeq(b, 1, SIZE)) = SIZE
      /\ \A p \in 1 .. SIZE : SubSeq(b, 1, SIZE)[p] = b[p]
  BY <1>1, <1>2, SubSeqProperties
<1>4. SubSeq(b, 1, SIZE) = Message(n)
  BY <1>3, MessageSeq, SeqEqual
<1> QED BY <1>2, <1>4

-----------------------------------------------------------------------------
(* Lists without repetition. *)

LEMMA TailMembers ==
  ASSUME NEW S, NEW s \in Seq(S), s # <<>>, Once(s)
  PROVE  /\ Tail(s) \in Seq(S) /\ Once(Tail(s))
         /\ Head(s) \in Members(s)
         /\ Members(Tail(s)) = Members(s) \ {Head(s)}
<1>1. Len(s) \in Nat \ {0} /\ Head(s) = s[1]
  BY EmptySeq
<1>2. /\ Tail(s) \in Seq(S) /\ Len(Tail(s)) = Len(s) - 1
      /\ \A i \in 1 .. Len(s) - 1 : Tail(s)[i] = s[i + 1]
  BY HeadTailProperties
<1>3. \A i \in 1 .. Len(s) - 1 : i + 1 \in 1 .. Len(s) /\ i + 1 # 1
  BY <1>1
<1>4. Once(Tail(s))
  BY <1>1, <1>2, <1>3 DEF Once
<1>5. Members(Tail(s)) \subseteq Members(s) \ {Head(s)}
  BY <1>1, <1>2, <1>3 DEF Once, Members
<1>6. ASSUME NEW j \in 1 .. Len(s), s[j] # Head(s)
      PROVE  s[j] \in Members(Tail(s))
  <2>1. j - 1 \in 1 .. Len(s) - 1 /\ (j - 1) + 1 = j
    BY <1>1, <1>6
  <2>2. Tail(s)[j - 1] = s[j]
    BY <1>2, <2>1
  <2> QED BY <1>2, <2>1, <2>2 DEF Members
<1>7. Head(s) \in Members(s)
  BY <1>1 DEF Members
<1> QED BY <1>2, <1>4, <1>5, <1>6, <1>7 DEF Members

LEMMA AppendMembers ==
  ASSUME NEW S, NEW s \in Seq(S), Once(s), NEW c \in S, c \notin Members(s)
  PROVE  /\ Append(s, c) \in Seq(S) /\ Once(Append(s, c))
         /\ Members(Append(s, c)) = Members(s) \cup {c}
<1> DEFINE t == Append(s, c)
<1>1. /\ Len(s) \in Nat /\ t \in Seq(S) /\ Len(t) = Len(s) + 1
      /\ \A i \in 1 .. Len(s) : t[i] = s[i]
      /\ t[Len(s) + 1] = c
  OBVIOUS
<1> HIDE DEF t
<1>2. \A i \in 1 .. Len(s) : s[i] # c
  BY DEF Members
<1>3. \A i \in 1 .. Len(t) : i \in 1 .. Len(s) \/ i = Len(s) + 1
  BY <1>1
<1>4. Once(t)
  BY <1>1, <1>2, <1>3 DEF Once
<1>5. Members(t) = Members(s) \cup {c}
  <2>1. Members(t) \subseteq Members(s) \cup {c}
    BY <1>1, <1>3 DEF Members
  <2>2. c \in Members(t)
    BY <1>1 DEF Members
  <2>3. Members(s) \subseteq Members(t)
    BY <1>1 DEF Members
  <2> QED BY <2>1, <2>2, <2>3
<1> QED BY <1>1, <1>4, <1>5 DEF t

LEMMA ConsMembers ==
  ASSUME NEW S, NEW s \in Seq(S), Once(s), NEW c \in S, c \notin Members(s)
  PROVE  /\ <<c>> \o s \in Seq(S) /\ Once(<<c>> \o s)
         /\ Members(<<c>> \o s) = Members(s) \cup {c}
         /\ <<c>> \o s # <<>>
<1> DEFINE t == <<c>> \o s
<1>1. <<c>> \in Seq(S) /\ Len(<<c>>) = 1 /\ <<c>>[1] = c /\ Len(s) \in Nat
  OBVIOUS
<1>2. /\ t \in Seq(S) /\ Len(t) = 1 + Len(s)
      /\ \A i \in 1 .. 1 + Len(s) : t[i] = IF i <= 1 THEN <<c>>[i] ELSE s[i - 1]
  BY <1>1, ConcatProperties
<1> HIDE DEF t
<1>3. t[1] = c /\ \A i \in 1 .. Len(s) : t[i + 1] = s[i]
  <2>1. 1 \in 1 .. 1 + Len(s) /\ 1 <= 1
    BY <1>1
  <2>2. \A i \in 1 .. Len(s) : i + 1 \in 1 .. 1 + Len(s) /\ ~ (i + 1 <= 1) /\ (i + 1) - 1 = i
    BY <1>1
  <2>3. t[1] = c
    BY <1>1, <1>2, <2>1
  <2> QED BY <1>2, <2>2, <2>3
<1>4. \A i \in 1 .. Len(t) : i = 1 \/ \E j \in 1 .. Len(s) : i = j + 1
  <2>1. \A i \in 1 .. Len(t) : i # 1 => i - 1 \in 1 .. Len(s) /\ i = (i - 1) + 1
    BY <1>1, <1>2
  <2> QED BY <2>1
<1>5. \A i \in 1 .. Len(s) : s[i] # c
  BY DEF Members
<1>6. Once(t)
  <2>1. ASSUME NEW i \in 1 .. Len(t), NEW k \in 1 .. Len(t), t[i] = t[k]
        PROVE  i = k
    <3>1. CASE i = 1 \/ k = 1
      BY <1>3, <1>4, <1>5, <2>1, <3>1
    <3>2. CASE i # 1 /\ k # 1
      <4>1. PICK x \in 1 .. Len(s), y \in 1 .. Len(s) : i = x + 1 /\ k = y + 1
        BY <1>4, <3>2
      <4>2. s[x] = s[y]
        BY <1>3, <2>1, <4>1
      <4>3. x = y
        BY <4>2 DEF Once
      <4> QED BY <4>1, <4>3
    <3> QED BY <3>1, <3>2
  <2> QED BY <2>1 DEF Once
<1>7. Members(t) = Members(s) \cup {c}
  <2>1. ASSUME NEW i \in 1 .. Len(t)
        PROVE  t[i] \in Members(s) \cup {c}
    <3>1. CASE i = 1
      BY <1>3, <3>1
    <3>2. CASE i # 1
      <4>1. PICK j \in 1 .. Len(s) : i = j + 1
        BY <1>4, <3>2
      <4> QED BY <1>3, <4>1 DEF Members
    <3> QED BY <3>1, <3>2
  <2>2. c \in Members(t)
    <3>1. 1 \in 1 .. Len(t)
      BY <1>1, <1>2
    <3> QED BY <1>3, <3>1 DEF Members
  <2>3. ASSUME NEW j \in 1 .. Len(s)
        PROVE  s[j] \in Members(t)
    <3>1. j + 1 \in 1 .. Len(t)
      BY <1>1, <1>2
    <3> QED BY <1>3, <3>1 DEF Members
  <2> QED BY <2>1, <2>2, <2>3 DEF Members
<1>8. t # <<>>
  BY <1>1, <1>2, EmptySeq
<1> QED BY <1>2, <1>6, <1>7, <1>8 DEF t

\* dump()
LEMMA DumpedMembers ==
  ASSUME NEW c, nodes \in Seq(Clients), Once(nodes), c \in Members(nodes)
  PROVE  /\ Dumped(c) \in Seq(Clients) /\ Once(Dumped(c))
         /\ Members(Dumped(c)) = Members(nodes) \ {c}
<1> DEFINE j == CHOOSE j \in 1 .. Len(nodes) : nodes[j] = c
           before == SubSeq(nodes, 1, j - 1)
           after == SubSeq(nodes, j + 1, Len(nodes))
           t == Dumped(c)
<1>1. j \in 1 .. Len(nodes) /\ nodes[j] = c
  <2>1. \E k \in 1 .. Len(nodes) : nodes[k] = c
    BY DEF Members
  <2> QED BY <2>1
<1>2. t = before \o after
  BY DEF Dumped, RemoveAt
<1> HIDE DEF j, t
<1>3. Len(nodes) \in Nat /\ j \in Int /\ \A i \in 1 .. Len(nodes) : nodes[i] \in Clients
  BY <1>1, ElementOfSeq, LenProperties
<1>4. /\ before \in Seq(Clients) /\ Len(before) = j - 1
      /\ \A i \in 1 .. j - 1 : before[i] = nodes[i]
  <2>1. \A i \in 1 .. j - 1 : nodes[i] \in Clients
    BY <1>1, <1>3
  <2>2. /\ before \in Seq(Clients)
        /\ Len(before) = IF 1 <= j - 1 THEN (j - 1) - 1 + 1 ELSE 0
        /\ \A i \in 1 .. (j - 1) - 1 + 1 : before[i] = nodes[1 + i - 1]
    BY <1>3, <2>1, SubSeqProperties
  <2>3. /\ (j - 1) - 1 + 1 = j - 1 /\ (IF 1 <= j - 1 THEN (j - 1) - 1 + 1 ELSE 0) = j - 1
        /\ \A i \in 1 .. j - 1 : 1 + i - 1 = i
    BY <1>1, <1>3
  <2> QED BY <2>2, <2>3
<1>5. /\ after \in Seq(Clients) /\ Len(after) = Len(nodes) - j
      /\ \A i \in 1 .. Len(nodes) - j : after[i] = nodes[j + i]
  <2>1. \A i \in j + 1 .. Len(nodes) : nodes[i] \in Clients
    BY <1>1, <1>3
  <2>2. /\ after \in Seq(Clients)
        /\ Len(after) = IF j + 1 <= Len(nodes) THEN Len(nodes) - (j + 1) + 1 ELSE 0
        /\ \A i \in 1 .. Len(nodes) - (j + 1) + 1 : after[i] = nodes[(j + 1) + i - 1]
    BY <1>3, <2>1, SubSeqProperties
  <2>3. /\ Len(nodes) - (j + 1) + 1 = Len(nodes) - j
        /\ (IF j + 1 <= Len(nodes) THEN Len(nodes) - (j + 1) + 1 ELSE 0) = Len(nodes) - j
        /\ \A i \in 1 .. Len(nodes) - j : (j + 1) + i - 1 = j + i
    BY <1>1, <1>3
  <2> QED BY <2>2, <2>3
<1> HIDE DEF before, after
<1> DEFINE at(i) == IF i < j THEN i ELSE i + 1
<1>6. /\ t \in Seq(Clients) /\ Len(t) = Len(nodes) - 1
      /\ \A i \in 1 .. Len(nodes) - 1 : t[i] = nodes[at(i)]
  <2>1. /\ before \o after \in Seq(Clients)
        /\ Len(before \o after) = (j - 1) + (Len(nodes) - j)
        /\ \A i \in 1 .. (j - 1) + (Len(nodes) - j) :
             (before \o after)[i] = IF i <= j - 1 THEN before[i] ELSE after[i - (j - 1)]
    <3>1. /\ before \o after \in Seq(Clients)
          /\ Len(before \o after) = Len(before) + Len(after)
          /\ \A i \in 1 .. Len(before) + Len(after) :
               (before \o after)[i] =
                  IF i <= Len(before) THEN before[i] ELSE after[i - Len(before)]
      BY <1>4, <1>5, ConcatProperties
    <3> QED BY <1>4, <1>5, <3>1
  <2>2. (j - 1) + (Len(nodes) - j) = Len(nodes) - 1
    BY <1>1, <1>3
  <2>3. ASSUME NEW i \in 1 .. Len(nodes) - 1
        PROVE  t[i] = nodes[at(i)]
    <3>1. CASE i < j
      <4>1. i <= j - 1 /\ i \in 1 .. j - 1
        BY <1>3, <2>3, <3>1
      <4> QED BY <1>2, <1>4, <2>1, <2>2, <3>1, <4>1
    <3>2. CASE ~ (i < j)
      <4>1. /\ ~ (i <= j - 1) /\ i - (j - 1) \in 1 .. Len(nodes) - j
            /\ j + (i - (j - 1)) = i + 1
        BY <1>1, <1>3, <2>3, <3>2
      <4>2. t[i] = after[i - (j - 1)]
        BY <1>2, <2>1, <2>2, <4>1
      <4>3. after[i - (j - 1)] = nodes[i + 1]
        BY <1>5, <4>1
      <4> QED BY <3>2, <4>2, <4>3
    <3> QED BY <3>1, <3>2
  <2> QED BY <1>2, <2>1, <2>2, <2>3
<1>7. \A i \in 1 .. Len(nodes) - 1 : at(i) \in 1 .. Len(nodes) /\ at(i) # j
  BY <1>1, <1>3
<1>8. \A i, k \in 1 .. Len(nodes) - 1 : at(i) = at(k) => i = k
  BY <1>1, <1>3
<1>9. \A m \in 1 .. Len(nodes) : m # j => \E i \in 1 .. Len(nodes) - 1 : at(i) = m
  <2>1. ASSUME NEW m \in 1 .. Len(nodes), m # j
        PROVE  \E i \in 1 .. Len(nodes) - 1 : at(i) = m
    <3>1. CASE m < j
      <4>1. m \in 1 .. Len(nodes) - 1 /\ at(m) = m
        BY <1>1, <1>3, <3>1
      <4> QED BY <4>1
    <3>2. CASE ~ (m < j)
      <4>1. m - 1 \in 1 .. Len(nodes) - 1 /\ at(m - 1) = m
        BY <1>1, <1>3, <2>1, <3>2
      <4> QED BY <4>1
    <3> QED BY <3>1, <3>2
  <2> QED BY <2>1
<1> HIDE DEF at
<1>10. Once(t)
  BY <1>6, <1>7, <1>8 DEF Once
<1>11. Members(t) \subseteq Members(nodes) \ {c}
  BY <1>1, <1>6, <1>7 DEF Once, Members
<1>12. ASSUME NEW m \in 1 .. Len(nodes), nodes[m] # c
       PROVE  nodes[m] \in Members(t)
  <2>1. PICK i \in 1 .. Len(nodes) - 1 : at(i) = m
    BY <1>1, <1>9, <1>12
  <2> QED BY <1>6, <2>1 DEF Members
<1> QED BY <1>6, <1>10, <1>11, <1>12 DEF t, Members

-----------------------------------------------------------------------------
(* What a step leaves alone. *)

\* The list, when no client connects, is accepted or dumped.
LEMMA SameLists ==
  ASSUME Lists, UNCHANGED <<nodes, backlog, setup>>,
         \A c \in Clients : /\ c_pc'[c] = "start" => c_pc[c] = "start"
                            /\ Live(c)' => Live(c)
                            /\ Gone(c) => Gone(c)'
                            /\ c \in broken' => c \in broken \/ Gone(c)'
  PROVE  Lists'
<1>1. nodes' = nodes /\ backlog' = backlog /\ mode_flag' = mode_flag /\ narrow' = narrow
  BY DEF setup
<1>2. /\ nodes' \in Seq(Clients) /\ Once(nodes')
      /\ backlog' \in Seq(Clients) /\ Once(backlog')
      /\ Members(nodes') \cap Members(backlog') = {}
      /\ mode_flag' \in {0, 1} /\ (mode_flag' = 1 => nodes' = <<>>)
  BY <1>1 DEF Lists
<1>3. \A c \in Clients : c_pc'[c] = "start" => c \notin Members(nodes') \cup Members(backlog')
  BY <1>1 DEF Lists
<1>4. \A c \in Clients \ narrow' :
        mode_flag' = 0 /\ Live(c)' => c \in Members(nodes') \cup Members(backlog')
  BY <1>1 DEF Lists
<1>5. \A c \in Clients : c \in broken' => Gone(c)'
  BY DEF Lists
<1> QED BY <1>2, <1>3, <1>4, <1>5 DEF Lists

\* A client of which nothing changes.
SameClient(c) ==
  /\ c_pc'[c] = c_pc[c] /\ cnt'[c] = cnt[c] /\ num_tests'[c] = num_tests[c]
  /\ cbuf'[c] = cbuf[c] /\ c2s'[c] = c2s[c] /\ s2c'[c] = s2c[c]

SameNode(c) ==
  /\ buffer'[c] = buffer[c] /\ added_pos'[c] = added_pos[c]
  /\ len_buffer'[c] = len_buffer[c] /\ (pending_data'[c] <=> pending_data[c])

LEMMA SameExchange ==
  ASSUME NEW c, Exchange(c), SameClient(c), SameNode(c), mode_flag' = mode_flag
  PROVE  Exchange(c)'
<1>1. Live(c)' = Live(c) /\ Gone(c)' = Gone(c)
  BY DEF SameClient, Live, Gone
<1>2. Coming(c) => Coming(c)'
  BY DEF SameClient, SameNode, Coming
<1>3. Complete(c) => Complete(c)'
  BY DEF SameClient, SameNode, Complete
<1>4. Returning(c) => Returning(c)'
  BY DEF SameClient, SameNode, Returning
<1>5. Unused(c) => Unused(c)'
  BY DEF SameClient, SameNode, Unused, Fresh
<1> QED BY <1>1, <1>2, <1>3, <1>4, <1>5 DEF SameClient, SameNode, Exchange

\* A step of the client x.
LEMMA ClientStep ==
  ASSUME IInv, NEW x \in Clients, UNCHANGED <<serverVars, setup>>, Shapes',
         \A c \in Clients \ {x} : SameClient(c),
         c_pc'[x] # "start", Live(x)' => Live(x), Gone(x) => Gone(x)',
         x \notin narrow => Exchange(x)'
  PROVE  IInv'
<1>1. \A c \in Clients : SameNode(c)
  BY DEF serverVars, nodeVars, SameNode
<1>2. Lists'
  <2>1. \A c \in Clients : /\ c_pc'[c] = "start" => c_pc[c] = "start"
                           /\ Live(c)' => Live(c)
                           /\ Gone(c) => Gone(c)'
    BY DEF SameClient, Live, Gone
  <2>2. broken' = broken /\ nodes' = nodes /\ backlog' = backlog
    BY DEF serverVars, loopVars
  <2> QED BY <2>1, <2>2, SameLists DEF IInv
<1>3. Walk'
  BY DEF IInv, Walk, ToldRight, serverVars, loopVars, nodeVars, setup
<1>4. Waiting'
  <2>1. \A c \in Clients : (Live(c)' => Live(c)) /\ (Fresh(c) => Fresh(c)')
    BY <1>1 DEF SameClient, SameNode, Live, Fresh
  <2> QED BY <2>1 DEF IInv, Waiting, serverVars, loopVars, setup
<1>5. \A c \in Clients \ narrow' : Exchange(c)'
  BY <1>1, SameExchange DEF IInv, setup
<1> QED BY <1>2, <1>3, <1>4, <1>5 DEF IInv

\* The walk goes on from a visit.
LEMMA WalkOn ==
  ASSUME Walk, s_pc \in {"write", "read"}, UNCHANGED <<setup, write_set>>,
         \A c \in Clients \ {Head(todo)} : pending_data'[c] <=> pending_data[c],
         \/ s_pc = "write" /\ s_pc' = "read" /\ UNCHANGED <<todo, nodes>>
         \/ Advance /\ Members(nodes) \ {Head(todo)} \subseteq Members(nodes')
         \/ s_pc' = "crashed"
  PROVE  Walk'
<1>1. /\ todo \in Seq(Clients) /\ todo # <<>> /\ Once(todo) /\ mode_flag = 0
      /\ Members(todo) \subseteq Members(nodes)
  BY DEF Walk
<1>2. /\ Tail(todo) \in Seq(Clients) /\ Once(Tail(todo))
      /\ Members(Tail(todo)) = Members(todo) \ {Head(todo)}
  BY <1>1, TailMembers
<1>3. ToldRight(Tail(todo)) /\ mode_flag' = 0 /\ narrow' = narrow /\ write_set' = write_set
  BY <1>1, <1>2 DEF Walk, ToldRight, setup
<1>4. CASE s_pc = "write" /\ s_pc' = "read" /\ UNCHANGED <<todo, nodes>>
  <2>1. ToldRight(Tail(todo))'
    BY <1>2, <1>3, <1>4 DEF ToldRight
  <2> QED BY <1>1, <1>3, <1>4, <2>1 DEF Walk
<1>5. CASE Advance /\ Members(nodes) \ {Head(todo)} \subseteq Members(nodes')
  <2>1. todo' = Tail(todo) /\ (s_pc' = "select" \/ (s_pc' = "write" /\ todo' # <<>>))
    BY <1>5 DEF Advance
  <2>2. ToldRight(todo)'
    BY <1>2, <1>3, <2>1 DEF ToldRight
  <2> QED BY <1>1, <1>2, <1>3, <1>5, <2>1, <2>2 DEF Walk
<1>6. CASE s_pc' = "crashed"
  BY <1>6 DEF Walk
<1> QED BY <1>4, <1>5, <1>6

\* The visit of the node of x.
LEMMA VisitStep ==
  ASSUME IInv, NEW x \in Clients, s_pc \in {"write", "read"}, x = Head(todo),
         UNCHANGED <<clientVars, setup, backlog, write_set>>, Shapes',
         \A c \in Clients \ {x} : c2s'[c] = c2s[c] /\ s2c'[c] = s2c[c] /\ SameNode(c),
         \A c \in Clients : c \in broken' => c \in broken \/ Gone(c),
         nodes' = nodes \/ (nodes' = Dumped(x) /\ (x \notin narrow => ~ Live(x))),
         \/ s_pc = "write" /\ s_pc' = "read" /\ UNCHANGED <<todo, nodes>>
         \/ Advance
         \/ s_pc' = "crashed",
         x \notin narrow => Exchange(x)'
  PROVE  IInv'
<1>1. /\ nodes \in Seq(Clients) /\ Once(nodes) /\ x \in Members(nodes)
      /\ x \notin Members(backlog) /\ mode_flag = 0
  <2>1. todo # <<>> /\ todo \in Seq(Clients) /\ Once(todo) /\ Members(todo) \subseteq Members(nodes) /\ mode_flag = 0
    BY DEF IInv, Walk
  <2>2. x \in Members(todo)
    BY <2>1, TailMembers
  <2> QED BY <2>1, <2>2 DEF IInv, Lists
<1>2. nodes' = Dumped(x) =>
        /\ nodes' \in Seq(Clients) /\ Once(nodes')
        /\ Members(nodes') = Members(nodes) \ {x}
  BY <1>1, DumpedMembers
<1>3. /\ mode_flag' = mode_flag /\ narrow' = narrow /\ backlog' = backlog
      /\ \A c \in Clients : Live(c)' = Live(c) /\ Gone(c)' = Gone(c) /\ c_pc'[c] = c_pc[c]
  BY DEF setup, clientVars, Live, Gone
<1>4. Lists'
  <2>1. CASE nodes' = nodes
    BY <1>3, <2>1, SameLists DEF IInv
  <2>2. CASE nodes' = Dumped(x) /\ (x \notin narrow => ~ Live(x))
    <3>1. /\ nodes' \in Seq(Clients) /\ Once(nodes')
          /\ backlog' \in Seq(Clients) /\ Once(backlog')
          /\ Members(nodes') \cap Members(backlog') = {}
          /\ mode_flag' \in {0, 1} /\ (mode_flag' = 1 => nodes' = <<>>)
      BY <1>1, <1>2, <1>3, <2>2 DEF IInv, Lists
    <3>2. \A c \in Clients : c_pc'[c] = "start" => c \notin Members(nodes') \cup Members(backlog')
      BY <1>2, <1>3, <2>2 DEF IInv, Lists
    <3>3. \A c \in Clients \ narrow' :
            mode_flag' = 0 /\ Live(c)' => c \in Members(nodes') \cup Members(backlog')
      BY <1>2, <1>3, <2>2 DEF IInv, Lists
    <3>4. \A c \in Clients : c \in broken' => Gone(c)'
      BY <1>3 DEF IInv, Lists
    <3> QED BY <3>1, <3>2, <3>3, <3>4 DEF Lists
  <2> QED BY <2>1, <2>2
<1>5. Walk'
  <2>1. \A c \in Clients \ {Head(todo)} : pending_data'[c] <=> pending_data[c]
    BY DEF SameNode
  <2>2. Members(nodes) \ {Head(todo)} \subseteq Members(nodes')
    BY <1>2
  <2> QED BY <2>1, <2>2, WalkOn DEF IInv
<1>6. Waiting'
  <2>1. \A c \in Clients \ {x} : Fresh(c) => Fresh(c)'
    BY DEF SameNode, Fresh
  <2> QED BY <1>1, <1>3, <2>1 DEF IInv, Waiting
<1>7. \A c \in Clients \ narrow' : Exchange(c)'
  <2>1. \A c \in Clients \ {x} : SameClient(c)
    BY DEF SameClient, clientVars
  <2> QED BY <1>3, <2>1, SameExchange DEF IInv
<1> QED BY <1>4, <1>5, <1>6, <1>7 DEF IInv

-----------------------------------------------------------------------------
(* The clients. *)

\* More of the message is sent.
LEMMA ClientSendInv ==
  ASSUME IInv, NEW x \in Clients, mode_flag = 0, ClientSend(x), UNCHANGED <<serverVars, setup>>
  PROVE  IInv'
<1> DEFINE n == num_tests[x] + 1
<1>1. PICK k \in 1 .. Lesser(SIZE - cnt[x], Room(x, c2s[x])) :
        LET upto == cnt[x] + k
        IN /\ upto > 1 \/ (SPLIT_HEADER /\ x \in narrow)
           /\ c2s' = [c2s EXCEPT ![x] = @ \o SubSeq(Message(n), cnt[x] + 1, upto)]
           /\ IF upto < SIZE
                THEN cnt' = [cnt EXCEPT ![x] = upto] /\ UNCHANGED c_pc
                ELSE /\ cnt' = [cnt EXCEPT ![x] = 0]
                     /\ c_pc' = [c_pc EXCEPT ![x] = "recv"]
  BY DEF ClientSend
<1> DEFINE upto == cnt[x] + k
<1>2. c_pc[x] = "send" /\ UNCHANGED <<s2c, num_tests, cbuf>>
  BY DEF ClientSend
<1>3. Shapes /\ UNCHANGED <<buffer, added_pos, len_buffer, pending_data, mode_flag, narrow>>
  BY DEF IInv, serverVars, nodeVars, setup
<1>4. Shapes'
  BY <1>1, <1>2, <1>3 DEF Shapes
<1>5. \A c \in Clients \ {x} : SameClient(c)
  BY <1>1, <1>2, <1>3 DEF Shapes, SameClient
<1>6. /\ c2s'[x] = c2s[x] \o Piece(n, cnt[x], upto)
      /\ upto < SIZE => cnt'[x] = upto /\ c_pc'[x] = "send"
      /\ ~ (upto < SIZE) => cnt'[x] = 0 /\ c_pc'[x] = "recv"
  BY <1>1, <1>2, <1>3 DEF Shapes, Piece
<1>7. ASSUME x \notin narrow
      PROVE  Exchange(x)'
  <2>1. Exchange(x) /\ Coming(x)
    BY <1>2, <1>7 DEF IInv, Exchange, Live, Complete, Returning
  <2>2. cnt[x] \in Nat /\ cnt[x] < SIZE /\ n \in Nat /\ SIZE \in Nat /\ SIZE >= 2
    BY <2>1, PathAssumption DEF Exchange
  <2>3. k \in Nat /\ upto \in Nat /\ 1 < upto /\ upto <= SIZE /\ cnt[x] <= upto
    <3>1. /\ added_pos[x] \in 0 .. SIZE /\ cnt[x] \in added_pos[x] .. SIZE
          /\ c2s[x] = Piece(n, added_pos[x], cnt[x])
      BY <1>2, <2>1, <2>2 DEF Coming
    <3>2. Len(c2s[x]) \in Nat
      BY <2>2, <3>1, PieceIs, LenProperties
    <3>3. k \in 1 .. SIZE - cnt[x]
      BY <1>7, <2>2, <3>2, PathAssumption DEF Lesser, Room, Width
    <3> QED BY <1>1, <1>7, <2>2, <3>3
  <2>4. /\ added_pos[x] \in Nat /\ added_pos[x] <= cnt[x] /\ added_pos[x] < SIZE /\ added_pos[x] # 1
        /\ c2s[x] = Piece(n, added_pos[x], cnt[x])
        /\ ~ pending_data[x] /\ s2c[x] = <<>>
        /\ len_buffer[x] = IF added_pos[x] = 0 THEN 0 ELSE SIZE
        /\ \A p \in 1 .. added_pos[x] : buffer[x][p] = <<n, p>>
    BY <1>2, <2>1 DEF Coming
  <2>5. c2s'[x] = Piece(n, added_pos[x], upto)
    <3>1. added_pos[x] \in 0 .. SIZE /\ cnt[x] \in added_pos[x] .. SIZE /\ upto \in cnt[x] .. SIZE
      BY <2>2, <2>3, <2>4
    <3>2. n \in Nat
      BY <2>2
    <3>3. Piece(n, added_pos[x], cnt[x]) \o Piece(n, cnt[x], upto) = Piece(n, added_pos[x], upto)
      BY <3>1, <3>2, JoinPieces
    <3> QED BY <1>6, <2>4, <3>3
  <2>6. Coming(x)'
    <3>1. upto = IF c_pc'[x] = "send" THEN cnt'[x] ELSE SIZE
      BY <1>6, <2>2, <2>3
    <3>2. num_tests'[x] + 1 = n
      BY <1>2
    <3> HIDE DEF n, upto
    <3> QED BY <1>2, <1>3, <2>2, <2>3, <2>4, <2>5, <3>1, <3>2 DEF Coming
  <2>7. Live(x)' /\ ~ Gone(x) /\ c_pc'[x] \in {"send", "recv"}
    BY <1>2, <1>6 DEF Live, Gone
  <2>8. cnt'[x] \in 0 .. SIZE - 1 /\ (c_pc'[x] = "recv" => cnt'[x] = 0)
    BY <1>6, <2>2, <2>3
  <2> QED BY <1>2, <1>3, <2>1, <2>6, <2>7, <2>8 DEF Exchange
<1>8. c_pc'[x] # "start" /\ Live(x) /\ ~ Gone(x)
  BY <1>2, <1>6 DEF Live, Gone
<1> QED BY <1>4, <1>5, <1>7, <1>8, ClientStep

\* The echo is received.
LEMMA ClientRecvInv ==
  ASSUME IInv, NEW x \in Clients, mode_flag = 0, ClientRecv(x), UNCHANGED <<serverVars, setup>>
  PROVE  IInv'
<1> DEFINE want == SIZE - cnt[x]
           n == num_tests[x] + 1
<1>1. PICK k \in IF x \in narrow THEN Portions(s2c[x], want) ELSE Whole(s2c[x], want) :
        /\ s2c' = [s2c EXCEPT ![x] = Drop(@, k)]
        /\ cbuf' = [cbuf EXCEPT ![x] = Written(@, cnt[x], SubSeq(s2c[x], 1, k))]
        /\ IF k < SIZE
             THEN cnt' = [cnt EXCEPT ![x] = k] /\ UNCHANGED <<c_pc, num_tests>>
             ELSE /\ cnt' = [cnt EXCEPT ![x] = 0]
                  /\ num_tests' = [num_tests EXCEPT ![x] = @ + 1]
                  /\ c_pc' = [c_pc EXCEPT ![x] =
                                IF num_tests'[x] < COUNT THEN "send" ELSE "done"]
  BY DEF ClientRecv
<1>2. c_pc[x] = "recv" /\ UNCHANGED c2s
  BY DEF ClientRecv
<1>3. Shapes /\ UNCHANGED <<buffer, added_pos, len_buffer, pending_data, mode_flag, narrow>>
  BY DEF IInv, serverVars, nodeVars, setup
<1>4. Shapes'
  BY <1>1, <1>2, <1>3 DEF Shapes
<1>5. \A c \in Clients \ {x} : SameClient(c)
  BY <1>1, <1>2, <1>3 DEF Shapes, SameClient
<1>6. /\ s2c'[x] = Drop(s2c[x], k)
      /\ cbuf'[x] = Written(cbuf[x], cnt[x], SubSeq(s2c[x], 1, k))
      /\ k < SIZE => cnt'[x] = k /\ num_tests'[x] = num_tests[x] /\ c_pc'[x] = "recv"
      /\ ~ (k < SIZE) => /\ cnt'[x] = 0 /\ num_tests'[x] = n
                         /\ c_pc'[x] \in {"send", "done"}
  BY <1>1, <1>2, <1>3 DEF Shapes
<1>7. ASSUME x \notin narrow
      PROVE  Exchange(x)'
  <2>1. Exchange(x) /\ cnt[x] = 0
    BY <1>2, <1>7 DEF IInv, Exchange
  <2>2. n \in Nat /\ n > 0 /\ SIZE \in Nat /\ SIZE >= 2
    BY <2>1, PathAssumption DEF Exchange
  <2>3. k = Lesser(SIZE, Len(s2c[x])) /\ k # 0
    BY <1>1, <1>7, <2>1, <2>2 DEF Whole
  <2>4. Returning(x)
    <3>1. s2c[x] # <<>>
      <4>1. Len(<<>>) = 0
        OBVIOUS
      <4> QED BY <2>2, <2>3, <4>1 DEF Lesser
    <3> QED BY <1>2, <2>1, <3>1 DEF Exchange, Live, Coming, Complete
  <2>5. s2c[x] = Message(n) /\ k = SIZE
    <3>1. s2c[x] = Message(n)
      BY <2>4 DEF Returning
    <3>2. Len(Message(n)) = SIZE
      BY <2>2, MessageSeq
    <3> QED BY <2>2, <2>3, <3>1, <3>2 DEF Lesser
  <2>6. s2c'[x] = <<>> /\ SubSeq(s2c[x], 1, k) = Message(n)
    <3>1. /\ Drop(Piece(n, 0, SIZE), SIZE) = Piece(n, 0 + SIZE, SIZE)
          /\ SubSeq(Piece(n, 0, SIZE), 1, SIZE) = Piece(n, 0, 0 + SIZE)
      <4>1. 0 \in 0 .. SIZE /\ SIZE \in 0 .. SIZE /\ SIZE \in 0 .. SIZE - 0
        BY <2>2
      <4> HIDE DEF n
      <4> QED BY <2>2, <4>1, SplitPiece
    <3>2. Piece(n, 0, SIZE) = Message(n) /\ Piece(n, SIZE, SIZE) = <<>> /\ 0 + SIZE = SIZE
      BY <2>2, WholePiece, NoPiece
    <3> QED BY <1>6, <2>5, <3>1, <3>2
  <2>7. cbuf'[x] = Message(n) /\ DOMAIN cbuf'[x] = 1 .. SIZE
    <3>1. DOMAIN cbuf[x] = 1 .. SIZE /\ Len(Message(n)) = SIZE
      BY <2>1, <2>2, MessageSeq DEF Exchange
    <3>2. cbuf'[x] = [p \in 1 .. SIZE |->
                        IF p \in 0 + 1 .. 0 + SIZE THEN Message(n)[p - 0] ELSE cbuf[x][p]]
      BY <1>6, <2>1, <2>6, <3>1 DEF Written
    <3>3. \A p \in 1 .. SIZE : p \in 0 + 1 .. 0 + SIZE /\ Message(n)[p - 0] = <<n, p>>
      BY <2>2, MessageSeq
    <3>4. cbuf'[x] = [p \in 1 .. SIZE |-> <<n, p>>]
      BY <3>2, <3>3
    <3> QED BY <3>4 DEF Message
  <2>8. cnt'[x] = 0 /\ num_tests'[x] = n /\ c_pc'[x] \in {"send", "done"}
    BY <1>6, <2>2, <2>5
  <2>9. c_pc'[x] = "send" => Coming(x)'
    <3>1. Piece(n + 1, 0, 0) = <<>>
      BY <2>2, NoPiece
    <3>2. c_pc'[x] = "send" => (IF c_pc'[x] = "send" THEN cnt'[x] ELSE SIZE) = 0
      BY <2>8
    <3>3. /\ ~ pending_data'[x] /\ s2c'[x] = <<>> /\ c2s'[x] = <<>> /\ added_pos'[x] = 0
          /\ len_buffer'[x] = 0
      BY <1>2, <1>3, <2>4, <2>6 DEF Returning
    <3>4. num_tests'[x] + 1 = n + 1
      BY <2>8
    <3> HIDE DEF n
    <3> QED BY <2>2, <3>1, <3>2, <3>3, <3>4 DEF Coming
  <2>10. ~ Gone(x)' => buffer'[x] \in [1 .. MSG_MAX -> Pairs]
    BY <1>2, <1>3, <2>1 DEF Exchange, Gone
  <2>11. mode_flag' = 0 /\ num_tests'[x] \in Nat /\ cnt'[x] \in 0 .. SIZE - 1
    BY <1>3, <2>2, <2>8
  <2>12. Live(x)' => c_pc'[x] = "send"
    BY <2>8 DEF Live
  <2> HIDE DEF n
  <2> QED BY <2>2, <2>7, <2>8, <2>9, <2>10, <2>11, <2>12 DEF Exchange
<1>8. c_pc'[x] # "start" /\ Live(x) /\ ~ Gone(x)
  BY <1>2, <1>6 DEF Live, Gone
<1> QED BY <1>4, <1>5, <1>7, <1>8, ClientStep

\* A client is killed, or meets the end of the server.
LEMMA ClientEndsInv ==
  ASSUME IInv, NEW x \in Clients, c_pc[x] \in {"start", "send", "recv"},
         NEW end \in {"killed", "done"}, end = "done" => mode_flag = 1,
         c_pc' = [c_pc EXCEPT ![x] = end],
         UNCHANGED <<pathVars, cnt, num_tests, cbuf, serverVars, setup>>
  PROVE  IInv'
<1>1. Shapes /\ UNCHANGED <<buffer, added_pos, len_buffer, pending_data, mode_flag, narrow, c2s, s2c>>
  BY DEF IInv, serverVars, nodeVars, setup, pathVars
<1>2. Shapes'
  BY <1>1 DEF Shapes
<1>3. \A c \in Clients \ {x} : SameClient(c)
  BY <1>1 DEF Shapes, SameClient
<1>4. Gone(x)' /\ ~ Live(x)' /\ c_pc'[x] \in {"killed", "done"} /\ (c_pc'[x] = "done" => mode_flag = 1)
  BY <1>1 DEF Shapes, Gone, Live
<1>5. x \notin narrow => Exchange(x)'
  BY <1>1, <1>4 DEF IInv, Exchange
<1> QED BY <1>2, <1>3, <1>4, <1>5, ClientStep

\* The server is gone when a client waits for its echo.
LEMMA ServerLostInv ==
  ASSUME IInv, NEW x \in Clients, ServerLost(x), UNCHANGED setup
  PROVE  IInv'
<1>1. UNCHANGED <<pathVars, num_tests, cbuf, serverVars>>
  BY DEF ServerLost
<1>2. CASE c_pc[x] \in {"start", "send"} /\ c_pc' = [c_pc EXCEPT ![x] = "killed"] /\ UNCHANGED cnt
  <2>1. c_pc[x] \in {"start", "send", "recv"}
    BY <1>2
  <2>2. UNCHANGED <<pathVars, cnt, num_tests, cbuf, serverVars, setup>>
    BY <1>1, <1>2
  <2>3. c_pc' = [c_pc EXCEPT ![x] = "killed"]
    BY <1>2
  <2> QED BY <2>1, <2>2, <2>3, ClientEndsInv
<1>3. CASE c_pc[x] = "recv" /\ cnt' = [cnt EXCEPT ![x] = 0] /\ UNCHANGED c_pc
  <2>1. Shapes /\ UNCHANGED <<buffer, added_pos, len_buffer, pending_data, mode_flag, narrow, c2s, s2c>>
    BY <1>1 DEF IInv, serverVars, nodeVars, setup, pathVars
  <2>2. Shapes'
    BY <1>1, <1>3, <2>1 DEF Shapes
  <2>3. \A c \in Clients \ {x} : SameClient(c)
    BY <1>1, <1>3, <2>1 DEF Shapes, SameClient
  <2>4. ASSUME x \notin narrow
        PROVE  Exchange(x)'
    <3>1. Exchange(x) /\ cnt[x] = 0
      BY <1>3, <2>4 DEF IInv, Exchange
    <3>2. SameClient(x) /\ SameNode(x)
      BY <1>1, <1>3, <2>1, <3>1 DEF Shapes, SameClient, SameNode
    <3> QED BY <2>1, <3>1, <3>2, SameExchange
  <2>5. c_pc'[x] # "start" /\ (Live(x)' => Live(x)) /\ (Gone(x) => Gone(x)')
    BY <1>3 DEF Live, Gone
  <2> QED BY <1>1, <2>2, <2>3, <2>4, <2>5, ClientStep
<1> QED BY <1>2, <1>3 DEF ServerLost

\* A browser sends.
LEMMA BrowserSendInv ==
  ASSUME IInv, NEW x \in Clients, BrowserSend(x), UNCHANGED setup
  PROVE  IInv'
<1>1. /\ mode_flag = 1 /\ c_pc[x] = "send"
      /\ UNCHANGED <<pathVars, cnt, num_tests, cbuf, serverVars>>
      /\ \E k \in Some(PIECES - asked[x]) :
           c_pc' = [c_pc EXCEPT ![x] = IF asked[x] + k = PIECES THEN "recv" ELSE @]
  BY DEF BrowserSend
<1>2. Shapes /\ UNCHANGED <<buffer, added_pos, len_buffer, pending_data, mode_flag, narrow, c2s, s2c>>
  BY <1>1 DEF IInv, serverVars, nodeVars, setup, pathVars
<1>3. DOMAIN c_pc' = Clients /\ c_pc'[x] \in {"send", "recv"} /\ \A c \in Clients \ {x} : c_pc'[c] = c_pc[c]
  BY <1>1, <1>2 DEF Shapes
<1>4. Shapes'
  BY <1>1, <1>2, <1>3 DEF Shapes
<1>5. \A c \in Clients \ {x} : SameClient(c)
  BY <1>1, <1>2, <1>3 DEF SameClient
<1>6. x \notin narrow => Exchange(x)'
  BY <1>1, <1>2, <1>3 DEF IInv, Exchange, Gone
<1>7. c_pc'[x] # "start" /\ Live(x) /\ ~ Gone(x)
  BY <1>1, <1>3 DEF Live, Gone
<1> QED BY <1>1, <1>4, <1>5, <1>6, <1>7, ClientStep

\* A client, or a browser, connects.
LEMMA ClientConnectInv ==
  ASSUME IInv, NEW x \in Clients, ClientConnect(x), UNCHANGED setup
  PROVE  IInv'
<1>1. /\ c_pc[x] = "start" /\ c_pc' = [c_pc EXCEPT ![x] = "send"] /\ backlog' = Append(backlog, x)
      /\ UNCHANGED <<c2s, s2c, cnt, num_tests, cbuf, buffer, added_pos, len_buffer, pending_data,
                     s_pc, nodes, todo, read_set, write_set, broken, mode_flag, narrow>>
  BY DEF ClientConnect, pathVars, nodeVars, setup
<1>2. Shapes' /\ c_pc'[x] = "send" /\ \A c \in Clients \ {x} : c_pc'[c] = c_pc[c]
  BY <1>1 DEF IInv, Shapes
<1>3. \A c \in Clients \ {x} : SameClient(c) /\ SameNode(c)
  BY <1>1, <1>2 DEF SameClient, SameNode
<1>4. /\ backlog' \in Seq(Clients) /\ Once(backlog')
      /\ Members(backlog') = Members(backlog) \cup {x}
      /\ x \notin Members(nodes) \cup Members(backlog)
  <2>1. /\ backlog \in Seq(Clients) /\ Once(backlog)
        /\ x \notin Members(nodes) \cup Members(backlog)
    BY <1>1 DEF IInv, Lists
  <2> QED BY <1>1, <2>1, AppendMembers
<1>5. Lists'
  <2>1. /\ nodes' \in Seq(Clients) /\ Once(nodes')
        /\ Members(nodes') \cap Members(backlog') = {}
        /\ mode_flag' \in {0, 1} /\ (mode_flag' = 1 => nodes' = <<>>)
    BY <1>1, <1>4 DEF IInv, Lists
  <2>2. \A c \in Clients : c_pc'[c] = "start" => c \notin Members(nodes') \cup Members(backlog')
    BY <1>1, <1>2, <1>4 DEF IInv, Lists
  <2>3. \A c \in Clients \ narrow' :
          mode_flag' = 0 /\ Live(c)' => c \in Members(nodes') \cup Members(backlog')
    BY <1>1, <1>2, <1>4 DEF IInv, Lists, Live
  <2>4. \A c \in Clients : c \in broken' => Gone(c)'
    BY <1>1, <1>2 DEF IInv, Lists, Gone
  <2> QED BY <1>4, <2>1, <2>2, <2>3, <2>4 DEF Lists
<1>6. Walk'
  <2>1. backlog' # <<>>
    BY <1>1 DEF IInv, Lists
  <2> QED BY <1>1, <2>1 DEF IInv, Walk, ToldRight
<1>7. x \notin narrow => Exchange(x)' /\ Fresh(x)'
  <2>1. ASSUME x \notin narrow
        PROVE  Exchange(x)' /\ Fresh(x)'
    <3>1. Exchange(x) /\ Unused(x) /\ num_tests[x] = 0 /\ cnt[x] = 0
      BY <1>1, <2>1 DEF IInv, Exchange
    <3>2. Fresh(x)'
      BY <1>1, <3>1 DEF Unused, Fresh
    <3>3. Coming(x)'
      <4>1. SIZE \in Nat /\ SIZE >= 2 /\ Piece(0 + 1, 0, 0) = <<>>
        BY PathAssumption, NoPiece
      <4> QED BY <1>1, <1>2, <3>1, <4>1 DEF Unused, Fresh, Coming
    <3>4. buffer'[x] \in [1 .. MSG_MAX -> Pairs]
      BY <1>1, <3>1 DEF Exchange, Gone
    <3> QED BY <1>1, <1>2, <3>1, <3>2, <3>3, <3>4 DEF Exchange
  <2> QED BY <2>1
<1>8. Waiting'
  <2>1. \A c \in Clients \ {x} : Live(c)' = Live(c) /\ (Fresh(c) => Fresh(c)')
    BY <1>3 DEF SameClient, SameNode, Live, Fresh
  <2> QED BY <1>1, <1>4, <1>7, <2>1 DEF IInv, Waiting
<1>9. \A c \in Clients \ narrow' : Exchange(c)'
  BY <1>1, <1>3, <1>7, SameExchange DEF IInv
<1> QED BY <1>2, <1>5, <1>6, <1>8, <1>9 DEF IInv

-----------------------------------------------------------------------------
(* The loop of the server. *)

\* Clients and nodes are as they were, and so is the list.
LEMMA ServerStep ==
  ASSUME IInv, UNCHANGED <<pathVars, clientVars, nodeVars, backlog, nodes, setup>>,
         \A c \in Clients : c \in broken' => c \in broken \/ Gone(c),
         Walk'
  PROVE  IInv'
<1>1. UNCHANGED <<c2s, s2c, c_pc, cnt, num_tests, cbuf, buffer, added_pos, len_buffer, pending_data,
                  mode_flag, narrow>>
  BY DEF pathVars, clientVars, nodeVars, setup
<1>2. Shapes'
  BY <1>1 DEF IInv, Shapes
<1>3. \A c \in Clients : SameClient(c) /\ SameNode(c)
  BY <1>1 DEF SameClient, SameNode
<1>4. Lists'
  <2>1. \A c \in Clients : /\ c_pc'[c] = c_pc[c]
                           /\ Live(c)' = Live(c)
                           /\ Gone(c)' = Gone(c)
    BY <1>1 DEF Live, Gone
  <2> QED BY <2>1, SameLists DEF IInv
<1>5. Waiting'
  BY <1>1 DEF IInv, Waiting, Live, Fresh
<1>6. \A c \in Clients \ narrow' : Exchange(c)'
  BY <1>1, <1>3, SameExchange DEF IInv
<1> QED BY <1>2, <1>4, <1>5, <1>6 DEF IInv

\* select: what it returns is true of all nodes.
LEMMA SelectInv ==
  ASSUME IInv, Select, UNCHANGED setup
  PROVE  IInv'
<1>1. /\ UNCHANGED <<pathVars, clientVars, nodeVars, backlog, nodes, broken>>
      /\ write_set' = {c \in NodeSet : pending_data[c] /\ Writable(c)}
      /\ read_set' = {c \in NodeSet : Readable(c)}
      /\ backlog # <<>> \/ read_set' \cup write_set' # {}
      /\ s_pc' = (IF backlog # <<>> THEN "accept" ELSE "write")
      /\ todo' = nodes
  BY DEF Select
<1>2. NodeSet = Members(nodes)
  BY DEF NodeSet, Members
<1>3. /\ UNCHANGED <<backlog, nodes, narrow, mode_flag, pending_data>>
      /\ write_set' \subseteq Members(nodes) /\ \A c \in write_set' : pending_data[c]
  BY <1>1, <1>2 DEF setup, nodeVars
<1>4. ToldRight(todo)'
  BY <1>3 DEF ToldRight
<1>5. backlog = <<>> => nodes # <<>> /\ mode_flag = 0
  <2>1. backlog = <<>> => Members(nodes) # {}
    BY <1>1, <1>2
  <2>2. nodes = <<>> => Members(nodes) = {}
    BY EmptySeq DEF Members
  <2> QED BY <2>1, <2>2 DEF IInv, Lists
<1>6. Walk'
  BY <1>1, <1>3, <1>4, <1>5 DEF IInv, Lists, Walk
<1> QED BY <1>1, <1>6, ServerStep

\* accept, which is the same in both modes for the list of those who wait.
LEMMA AcceptInv ==
  ASSUME IInv, Accept, UNCHANGED setup
  PROVE  IInv'
<1>0. PICK x : x = Head(backlog)
  OBVIOUS
<1>1. /\ s_pc = "accept" /\ mode_flag = 0
      /\ backlog' = Tail(backlog) /\ nodes' = <<x>> \o nodes /\ todo' = nodes' /\ s_pc' = "write"
      /\ buffer' = [buffer EXCEPT ![x] = [p \in 1 .. MSG_MAX |-> NoByte]]
      /\ added_pos' = [added_pos EXCEPT ![x] = 0]
      /\ len_buffer' = [len_buffer EXCEPT ![x] = 0]
      /\ pending_data' = [pending_data EXCEPT ![x] = FALSE]
      /\ UNCHANGED <<c2s, s2c, c_pc, cnt, num_tests, cbuf, read_set, write_set, broken, mode_flag, narrow>>
  BY <1>0 DEF Accept, pathVars, clientVars, setup
<1>2. /\ backlog \in Seq(Clients) /\ backlog # <<>> /\ Once(backlog)
      /\ nodes \in Seq(Clients) /\ Once(nodes) /\ Members(nodes) \cap Members(backlog) = {}
      /\ write_set \subseteq Members(nodes) /\ ToldRight(nodes)
  BY <1>1 DEF IInv, Walk, Lists
<1>3. /\ x \in Members(backlog) /\ x \in Clients /\ x \notin Members(nodes)
      /\ backlog' \in Seq(Clients) /\ Once(backlog')
      /\ Members(backlog') = Members(backlog) \ {x}
  BY <1>0, <1>1, <1>2, TailMembers, HeadTailProperties
<1>4. /\ nodes' \in Seq(Clients) /\ Once(nodes') /\ nodes' # <<>>
      /\ Members(nodes') = Members(nodes) \cup {x}
  BY <1>1, <1>2, <1>3, ConsMembers
<1>5. Shapes' /\ \A c \in Clients \ {x} : SameClient(c) /\ SameNode(c)
  BY <1>1 DEF IInv, Shapes, SameClient, SameNode
<1>6. /\ SameClient(x) /\ Fresh(x)' /\ buffer'[x] = [p \in 1 .. MSG_MAX |-> NoByte]
  BY <1>1, <1>3 DEF IInv, Shapes, SameClient, Fresh
<1>7. Lists'
  <2>1. /\ Members(nodes') \cap Members(backlog') = {}
        /\ mode_flag' \in {0, 1} /\ (mode_flag' = 1 => nodes' = <<>>)
        /\ Members(nodes') \cup Members(backlog') = Members(nodes) \cup Members(backlog)
    BY <1>1, <1>2, <1>3, <1>4
  <2>2. \A c \in Clients : c_pc'[c] = "start" => c \notin Members(nodes') \cup Members(backlog')
    BY <1>1, <2>1 DEF IInv, Lists
  <2>3. \A c \in Clients \ narrow' :
          mode_flag' = 0 /\ Live(c)' => c \in Members(nodes') \cup Members(backlog')
    BY <1>1, <2>1 DEF IInv, Lists, Live
  <2>4. \A c \in Clients : c \in broken' => Gone(c)'
    BY <1>1 DEF IInv, Lists, Gone
  <2> QED BY <1>3, <1>4, <2>1, <2>2, <2>3, <2>4 DEF Lists
<1>8. Walk'
  <2>1. \A c \in Clients : c \in write_set => (pending_data'[c] <=> pending_data[c])
    BY <1>2, <1>3, <1>5 DEF SameNode
  <2>2. ToldRight(todo)'
    BY <1>1, <1>2, <1>4, <2>1 DEF ToldRight
  <2> QED BY <1>1, <1>4, <2>2 DEF Walk
<1>9. Waiting'
  <2>1. \A c \in Clients \ {x} : Live(c)' = Live(c) /\ (Fresh(c) => Fresh(c)')
    BY <1>5 DEF SameClient, SameNode, Live, Fresh
  <2> QED BY <1>1, <1>3, <2>1 DEF IInv, Waiting
<1>10. ASSUME x \notin narrow
       PROVE  Exchange(x)'
  <2>1. Exchange(x) /\ c_pc[x] # "start"
    BY <1>3, <1>10 DEF IInv, Lists
  <2>2. buffer'[x] \in [1 .. MSG_MAX -> Pairs]
    <3>1. NoByte \in Pairs
      BY DEF NoByte, Pairs
    <3> QED BY <1>6, <3>1
  <2>3. Live(x) => Coming(x)' \/ Returning(x)'
    <3>1. ASSUME Live(x)
          PROVE  Coming(x)' \/ Returning(x)'
      <4>1. Fresh(x) /\ (Coming(x) \/ Complete(x) \/ Returning(x))
        BY <1>1, <1>3, <1>10, <2>1, <3>1 DEF IInv, Waiting, Exchange
      <4>2. Coming(x) \/ Returning(x)
        BY <4>1 DEF Fresh, Complete
      <4>3. Coming(x) => Coming(x)'
        BY <1>6, <4>1 DEF Coming, Fresh, SameClient
      <4>4. Returning(x) => Returning(x)'
        BY <1>6, <4>1 DEF Returning, Fresh, SameClient
      <4> QED BY <4>2, <4>3, <4>4
    <3> QED BY <3>1
  <2>4. Live(x)' = Live(x) /\ Gone(x)' = Gone(x)
    BY <1>6 DEF SameClient, Live, Gone
  <2> QED BY <1>1, <1>6, <2>1, <2>2, <2>3, <2>4 DEF Exchange, SameClient
<1>11. \A c \in Clients \ narrow' : Exchange(c)'
  BY <1>1, <1>5, <1>10, SameExchange DEF IInv
<1> QED BY <1>5, <1>7, <1>8, <1>9, <1>11 DEF IInv

-----------------------------------------------------------------------------
(* The visits. *)

\* Whose node it is, and what is known of it.
LEMMA Visited ==
  ASSUME IInv, s_pc \in {"write", "read"}, NEW x, x = Head(todo)
  PROVE  /\ x \in Clients /\ x \in Members(nodes) /\ mode_flag = 0 /\ c_pc[x] # "start"
         /\ s_pc = "write" /\ x \notin narrow /\ x \in write_set => pending_data[x]
         /\ x \notin narrow /\ ~ Gone(x) =>
              Live(x) /\ (Coming(x) \/ Complete(x) \/ Returning(x))
<1>1. /\ mode_flag = 0 /\ todo \in Seq(Clients) /\ todo # <<>> /\ Once(todo)
      /\ Members(todo) \subseteq Members(nodes) /\ (s_pc = "write" => ToldRight(todo))
  BY DEF IInv, Walk
<1>2. x \in Members(todo) /\ x \in Clients
  BY <1>1, TailMembers, HeadTailProperties
<1>3. c_pc[x] # "start"
  BY <1>1, <1>2 DEF IInv, Lists
<1>4. s_pc = "write" /\ x \notin narrow /\ x \in write_set => pending_data[x]
  BY <1>1, <1>2 DEF ToldRight
<1>5. x \notin narrow /\ ~ Gone(x) => Live(x) /\ (Coming(x) \/ Complete(x) \/ Returning(x))
  BY <1>1, <1>2, <1>3 DEF IInv, Exchange, Gone, Live
<1> QED BY <1>1, <1>2, <1>3, <1>4, <1>5

\* Of a client that is gone the node does not matter.
LEMMA GoneExchange ==
  ASSUME NEW x, Exchange(x), Gone(x), UNCHANGED <<clientVars, setup>>
  PROVE  Exchange(x)'
BY DEF Exchange, Gone, Live, clientVars, setup

\* The visits in which nothing is sent or received.
LEMMA IdleVisitInv ==
  ASSUME IInv, NEW x \in Clients, UNCHANGED setup,
         NotWritable(x) \/ ServerSigPipe(x) \/ NotReadable(x)
  PROVE  IInv'
<1>1. /\ s_pc \in {"write", "read"} /\ x = Head(todo)
      /\ UNCHANGED <<pathVars, clientVars, nodeVars, backlog, nodes, read_set, write_set, broken>>
  BY DEF NotWritable, ServerSigPipe, NotReadable, AtWrite, AtRead
<1>2. \/ s_pc = "write" /\ s_pc' = "read" /\ UNCHANGED <<todo, nodes>>
      \/ Advance
      \/ s_pc' = "crashed"
  BY DEF NotWritable, ServerSigPipe, NotReadable, AtWrite
<1>3. Walk'
  <2>1. \A c \in Clients \ {Head(todo)} : pending_data'[c] <=> pending_data[c]
    BY <1>1 DEF nodeVars
  <2>2. Members(nodes) \ {Head(todo)} \subseteq Members(nodes')
    BY <1>1
  <2> QED BY <1>1, <1>2, <2>1, <2>2, WalkOn DEF IInv
<1> QED BY <1>1, <1>3, ServerStep

\* Only a node whose message is complete is sent from, and all of it is sent.
LEMMA ServerSendInv ==
  ASSUME IInv, NEW x \in Clients, ServerSend(x), UNCHANGED setup
  PROVE  IInv'
<1>1. PICK k : k = Taken(x, Room(x, s2c[x]))
  OBVIOUS
<1>2. /\ s_pc = "write" /\ x = Head(todo) /\ x \in write_set /\ ~ Gone(x)
      /\ s2c' = [s2c EXCEPT ![x] = @ \o Behind(buffer[x], added_pos[x], k)]
      /\ AfterSend(x, k) /\ s_pc' = "read"
      /\ UNCHANGED <<c2s, clientVars, buffer, backlog, nodes, todo, read_set, write_set, broken>>
  BY <1>1 DEF ServerSend, AtWrite
<1>3. /\ added_pos' = [added_pos EXCEPT ![x] = IF k = len_buffer[x] THEN 0 ELSE k]
      /\ pending_data' = [pending_data EXCEPT ![x] = @ /\ ~ (k = len_buffer[x])]
      /\ len_buffer' = [len_buffer EXCEPT ![x] = IF k = len_buffer[x] THEN 0 ELSE @]
  BY <1>2 DEF AfterSend
<1>4. Shapes' /\ \A c \in Clients \ {x} : c2s'[c] = c2s[c] /\ s2c'[c] = s2c[c] /\ SameNode(c)
  BY <1>2, <1>3 DEF IInv, Shapes, SameNode, clientVars
<1>5. ASSUME x \notin narrow
      PROVE  Exchange(x)'
  <2>1. Complete(x) /\ Exchange(x)
    <3>1. pending_data[x] /\ (Coming(x) \/ Complete(x) \/ Returning(x))
      BY <1>2, <1>5, Visited
    <3>2. Complete(x)
      BY <3>1 DEF Coming, Returning
    <3> QED BY <1>5, <3>2 DEF IInv
  <2>2. PICK n \in Nat : n = num_tests[x] + 1
    BY <2>1 DEF Exchange
  <2>3. k = SIZE /\ SIZE \in Nat /\ SIZE >= 2
    <3>1. Len(<<>>) = 0
      OBVIOUS
    <3> QED BY <1>1, <1>5, <2>1, <3>1, PathAssumption DEF Complete, Taken, Room, Width, Lesser
  <2>4. s2c'[x] = Message(n)
    <3>1. s2c'[x] = <<>> \o Behind(buffer[x], 0, SIZE)
      BY <1>2, <2>1, <2>3 DEF IInv, Shapes, Complete
    <3>2. Behind(buffer[x], 0, SIZE) = Message(n)
      <4>1. DOMAIN buffer[x] = 1 .. MSG_MAX /\ MSG_MAX \in Nat /\ SIZE <= MSG_MAX
        BY <1>2, <2>1, ServerAssumption DEF Exchange
      <4>2. \A p \in 1 .. SIZE : 0 + p = p /\ p \in 1 .. MSG_MAX /\ buffer[x][p] = <<n, p>>
        BY <2>1, <2>2, <2>3, <4>1 DEF Complete
      <4> QED BY <4>1, <4>2 DEF Behind, Message
    <3> QED BY <2>2, <3>1, <3>2, MessageSeq, ConcatEmptySeq
  <2>5. /\ added_pos'[x] = 0 /\ len_buffer'[x] = 0 /\ ~ pending_data'[x]
    BY <1>3, <2>1, <2>3 DEF IInv, Shapes, Complete
  <2>6. /\ c_pc'[x] = "recv" /\ c2s'[x] = <<>> /\ num_tests'[x] = num_tests[x]
        /\ cnt'[x] = cnt[x] /\ cbuf'[x] = cbuf[x] /\ mode_flag' = mode_flag /\ buffer'[x] = buffer[x]
    BY <1>2, <2>1 DEF Complete, clientVars, setup
  <2>7. Returning(x)'
    BY <2>2, <2>4, <2>5, <2>6 DEF Returning
  <2>8. c_pc[x] = "recv" /\ ~ Gone(x)
    BY <1>2, <2>1 DEF Complete
  <2> QED BY <2>1, <2>6, <2>7, <2>8 DEF Exchange
<1> QED BY <1>2, <1>4, <1>5, VisitStep

\* What is sent to a client that is gone.
LEMMA ServerSendLostInv ==
  ASSUME IInv, NEW x \in Clients, ServerSendLost(x), UNCHANGED setup
  PROVE  IInv'
<1>1. PICK k : k = Taken(x, Room(x, <<>>))
  OBVIOUS
<1>2. /\ s_pc = "write" /\ x = Head(todo) /\ Gone(x) /\ AfterSend(x, k)
      /\ broken' = broken \cup {x} /\ s_pc' = "read"
      /\ UNCHANGED <<pathVars, clientVars, buffer, backlog, nodes, todo, read_set, write_set>>
  BY <1>1 DEF ServerSendLost, AtWrite
<1>3. /\ added_pos' = [added_pos EXCEPT ![x] = IF k = len_buffer[x] THEN 0 ELSE k]
      /\ pending_data' = [pending_data EXCEPT ![x] = @ /\ ~ (k = len_buffer[x])]
      /\ len_buffer' = [len_buffer EXCEPT ![x] = IF k = len_buffer[x] THEN 0 ELSE @]
  BY <1>2 DEF AfterSend
<1>4. Shapes' /\ \A c \in Clients \ {x} : c2s'[c] = c2s[c] /\ s2c'[c] = s2c[c] /\ SameNode(c)
  BY <1>2, <1>3 DEF IInv, Shapes, SameNode, clientVars, pathVars
<1>5. x \notin narrow => Exchange(x)'
  BY <1>2, GoneExchange DEF IInv
<1> QED BY <1>2, <1>4, <1>5, VisitStep

\* A node that is dumped is that of a client that is gone.
LEMMA DumpInv ==
  ASSUME IInv, NEW x \in Clients, ServerSendError(x) \/ ServerRecvEnd(x), UNCHANGED setup
  PROVE  IInv'
<1>1. /\ s_pc \in {"write", "read"} /\ x = Head(todo)
      /\ nodes' = Dumped(x) /\ (Advance \/ s_pc' = "crashed")
      /\ UNCHANGED <<pathVars, clientVars, nodeVars, backlog, read_set, write_set, broken>>
      /\ Gone(x) \/ x \in broken \/ added_pos[x] = MSG_MAX
  BY DEF ServerSendError, ServerRecvEnd, AtWrite, AtRead, ReadFreed, Gone
<1>2. x \notin narrow => Gone(x) /\ ~ Live(x)
  <2>1. ASSUME x \notin narrow, ~ Gone(x)
        PROVE  FALSE
    <3>1. added_pos[x] = MSG_MAX
      BY <1>1, <2>1 DEF IInv, Lists
    <3>2. Coming(x) \/ Complete(x) \/ Returning(x)
      BY <1>1, <2>1, Visited
    <3>3. added_pos[x] < SIZE /\ SIZE <= MSG_MAX /\ SIZE \in Nat /\ MSG_MAX \in Nat
      BY <3>2, PathAssumption, ServerAssumption DEF Coming, Complete, Returning
    <3> QED BY <3>1, <3>3
  <2>2. Gone(x) => ~ Live(x)
    BY DEF Gone, Live
  <2> QED BY <2>1, <2>2
<1>3. Shapes' /\ \A c \in Clients \ {x} : c2s'[c] = c2s[c] /\ s2c'[c] = s2c[c] /\ SameNode(c)
  BY <1>1 DEF IInv, Shapes, SameNode, clientVars, pathVars, nodeVars
<1>4. x \notin narrow => Exchange(x)'
  BY <1>1, <1>2, GoneExchange DEF IInv
<1> QED BY <1>1, <1>2, <1>3, <1>4, VisitStep

\* The buffer after more bytes of the message.
LEMMA WrittenPiece ==
  ASSUME NEW n \in Nat, NEW got \in Nat, NEW pos \in got .. SIZE,
         NEW buf \in [1 .. MSG_MAX -> Pairs], \A p \in 1 .. got : buf[p] = <<n, p>>,
         NEW b, b = Written(buf, got, Piece(n, got, pos))
  PROVE  b \in [1 .. MSG_MAX -> Pairs] /\ \A p \in 1 .. pos : b[p] = <<n, p>>
<1>1. SIZE \in Nat /\ MSG_MAX \in Nat /\ SIZE <= MSG_MAX /\ pos \in Nat
  BY PathAssumption, ServerAssumption
<1>2. /\ got + Len(Piece(n, got, pos)) = pos
      /\ \A p \in 1 .. pos - got : Piece(n, got, pos)[p] = <<n, got + p>>
  <2>1. got \in 0 .. SIZE /\ got + (pos - got) = pos
    BY <1>1
  <2> QED BY <2>1, PieceIs
<1>3. b = [p \in 1 .. MSG_MAX |->
             IF p \in got + 1 .. pos THEN Piece(n, got, pos)[p - got] ELSE buf[p]]
  BY <1>2 DEF Written
<1>4. ASSUME NEW p \in 1 .. pos
      PROVE  b[p] = <<n, p>>
  <2>1. p \in 1 .. MSG_MAX
    BY <1>1
  <2>2. CASE p \in got + 1 .. pos
    <3>1. p - got \in 1 .. pos - got /\ got + (p - got) = p
      BY <1>1, <2>2
    <3> QED BY <1>2, <1>3, <2>1, <2>2, <3>1
  <2>3. CASE p \notin got + 1 .. pos
    <3>1. p \in 1 .. got
      BY <1>1, <2>3
    <3> QED BY <1>3, <2>1, <2>3, <3>1
  <2> QED BY <2>2, <2>3
<1>5. ASSUME NEW p \in 1 .. MSG_MAX
      PROVE  b[p] \in Pairs
  <2>1. CASE p \in got + 1 .. pos
    <3>1. p \in 1 .. pos /\ p \in Nat
      BY <1>1, <2>1
    <3> QED BY <1>4, <3>1, IsPair
  <2>2. CASE p \notin got + 1 .. pos
    BY <1>3, <2>2
  <2> QED BY <2>1, <2>2
<1> QED BY <1>3, <1>4, <1>5

\* Bytes of the message are received, the last one of which makes it complete.
LEMMA ServerRecvInv ==
  ASSUME IInv, NEW x \in Clients, ServerRecv(x), UNCHANGED setup
  PROVE  IInv'
<1>0. PICK k \in Returned(x) :
        \E len \in IF len_buffer[x] = 0
                     THEN HeaderLen(Written(buffer[x], added_pos[x], SubSeq(c2s[x], 1, k)))
                     ELSE {len_buffer[x]} :
          /\ s_pc = "read" /\ x = Head(todo)
          /\ c2s' = [c2s EXCEPT ![x] = Drop(@, k)]
          /\ buffer' = [buffer EXCEPT ![x] = Written(buffer[x], added_pos[x], SubSeq(c2s[x], 1, k))]
          /\ len_buffer' = [len_buffer EXCEPT ![x] = len]
          /\ added_pos' = [added_pos EXCEPT ![x] = IF added_pos[x] + k = len THEN 0 ELSE added_pos[x] + k]
          /\ pending_data' = [pending_data EXCEPT ![x] = @ \/ added_pos[x] + k = len]
          /\ Advance
          /\ UNCHANGED <<s2c, clientVars, backlog, nodes, read_set, write_set, broken>>
  BY Zenon DEF ServerRecv, RecvUpTo, AtRead
<1>1. PICK buf, pos, len :
        /\ buf = Written(buffer[x], added_pos[x], SubSeq(c2s[x], 1, k))
        /\ pos = added_pos[x] + k
        /\ len \in (IF len_buffer[x] = 0 THEN HeaderLen(buf) ELSE {len_buffer[x]})
        /\ s_pc = "read" /\ x = Head(todo)
        /\ c2s' = [c2s EXCEPT ![x] = Drop(@, k)]
        /\ buffer' = [buffer EXCEPT ![x] = buf]
        /\ len_buffer' = [len_buffer EXCEPT ![x] = len]
        /\ added_pos' = [added_pos EXCEPT ![x] = IF pos = len THEN 0 ELSE pos]
        /\ pending_data' = [pending_data EXCEPT ![x] = @ \/ pos = len]
        /\ Advance
        /\ UNCHANGED <<s2c, clientVars, backlog, nodes, read_set, write_set, broken>>
  BY <1>0, Zenon
<1>2. Shapes' /\ \A c \in Clients \ {x} : c2s'[c] = c2s[c] /\ s2c'[c] = s2c[c] /\ SameNode(c)
  BY <1>1 DEF IInv, Shapes, SameNode, clientVars
<1>3. /\ c2s'[x] = Drop(c2s[x], k) /\ buffer'[x] = buf /\ len_buffer'[x] = len
      /\ added_pos'[x] = (IF pos = len THEN 0 ELSE pos)
      /\ pending_data'[x] <=> (pending_data[x] \/ pos = len)
      /\ s2c'[x] = s2c[x] /\ UNCHANGED <<c_pc, cnt, num_tests, cbuf, mode_flag>>
  BY <1>1 DEF IInv, Shapes, clientVars, setup
<1>4. ASSUME x \notin narrow, ~ Gone(x)
      PROVE  Exchange(x)'
  <2>0. PICK n \in Nat : n = num_tests[x] + 1
    BY <1>4 DEF IInv, Exchange
  <2>1. PICK got, sent :
          /\ n = num_tests[x] + 1 /\ got = added_pos[x]
          /\ sent = IF c_pc[x] = "send" THEN cnt[x] ELSE SIZE
    BY <2>0
  <2>2. Exchange(x) /\ Live(x) /\ (Coming(x) \/ Complete(x) \/ Returning(x))
    BY <1>1, <1>4, Visited DEF IInv
  <2>3. k \in 1 .. Lesser(MSG_MAX - added_pos[x], Len(c2s[x])) /\ added_pos[x] + k > 1
    BY <1>1, <1>4 DEF Returned, Portions
  <2>4. Coming(x)
    <3>1. Len(<<>>) = 0 /\ MSG_MAX \in Nat /\ SIZE \in Nat /\ SIZE <= MSG_MAX
      BY PathAssumption, ServerAssumption
    <3>2. Complete(x) \/ Returning(x) => c2s[x] = <<>> /\ added_pos[x] = 0
      BY DEF Complete, Returning
    <3> QED BY <2>2, <2>3, <3>1, <3>2 DEF Lesser
  <2>5. /\ ~ pending_data[x] /\ s2c[x] = <<>>
        /\ got \in Nat /\ got <= sent /\ got < SIZE /\ sent # 1 /\ sent \in Nat /\ sent <= SIZE
        /\ c2s[x] = Piece(n, got, sent)
        /\ len_buffer[x] = (IF got = 0 THEN 0 ELSE SIZE)
        /\ \A p \in 1 .. got : buffer[x][p] = <<n, p>>
        /\ SIZE \in Nat /\ SIZE >= 2 /\ MSG_MAX \in Nat /\ SIZE <= MSG_MAX
        /\ c_pc[x] = "send" => sent < SIZE
    BY <2>1, <2>2, <2>4, PathAssumption, ServerAssumption DEF Coming, Exchange
  <2>6. k \in Nat /\ k \in 0 .. sent - got /\ pos = got + k /\ pos <= sent /\ pos > 1 /\ pos \in Nat
    <3>1. Len(c2s[x]) = sent - got
      <4>1. got \in 0 .. SIZE /\ sent \in got .. SIZE
        BY <2>5
      <4>2. Len(Piece(n, got, sent)) = sent - got
        BY <2>5, <4>1, PieceIs
      <4>3. c2s[x] = Piece(n, got, sent)
        BY <2>5
      <4> QED BY <4>2, <4>3
    <3>2. k \in 1 .. Lesser(MSG_MAX - got, sent - got) /\ got + k > 1 /\ pos = got + k
      BY <1>1, <2>1, <2>3, <3>1
    <3>3. got \in Nat /\ sent \in Nat /\ got <= sent /\ sent <= MSG_MAX /\ MSG_MAX \in Nat
      BY <2>5
    <3>4. k \in Nat /\ k <= sent - got
      BY <3>2, <3>3 DEF Lesser
    <3>5. k \in 0 .. sent - got
      BY <3>3, <3>4
    <3>6. got + k <= sent /\ got + k \in Nat
      BY <3>3, <3>4
    <3>7. pos = got + k /\ pos > 1
      BY <3>2
    <3> QED BY <3>4, <3>5, <3>6, <3>7
  <2>7. SubSeq(c2s[x], 1, k) = Piece(n, got, pos) /\ c2s'[x] = Piece(n, pos, sent)
    <3>1. got \in 0 .. SIZE /\ sent \in got .. SIZE
      BY <2>5
    <3>2. k \in 0 .. sent - got
      BY <2>6
    <3>3. /\ Drop(Piece(n, got, sent), k) = Piece(n, got + k, sent)
          /\ SubSeq(Piece(n, got, sent), 1, k) = Piece(n, got, got + k)
      BY <3>1, <3>2, SplitPiece
    <3> QED BY <1>3, <2>5, <2>6, <3>3
  <2>8. buf \in [1 .. MSG_MAX -> Pairs] /\ \A p \in 1 .. pos : buf[p] = <<n, p>>
    <3>1. buffer[x] \in [1 .. MSG_MAX -> Pairs]
      BY <1>4, <2>2 DEF Exchange
    <3>2. buf = Written(buffer[x], got, Piece(n, got, pos))
      BY <1>1, <2>1, <2>7
    <3>3. pos \in got .. SIZE
      BY <2>5, <2>6
    <3>4. n \in Nat /\ got \in Nat /\ \A p \in 1 .. got : buffer[x][p] = <<n, p>>
      BY <2>5
    <3> QED BY <3>1, <3>2, <3>3, <3>4, WrittenPiece
  <2>9. len = SIZE
    <3>1. CASE got = 0
      <4>1. buf[1] = <<n, 1>> /\ buf[2] = <<n, 2>>
        BY <2>6, <2>8
      <4>2. HeaderLen(buf) = {SIZE}
        BY <4>1 DEF HeaderLen, NoByte
      <4> QED BY <1>1, <2>5, <3>1, <4>2
    <3>2. CASE got # 0
      BY <1>1, <2>5, <3>2
    <3> QED BY <3>1, <3>2
  <2>10. CASE pos = SIZE
    <3>1. sent = SIZE /\ c_pc[x] = "recv" /\ Piece(n, SIZE, SIZE) = <<>>
      BY <2>2, <2>5, <2>6, <2>10, NoPiece DEF Live
    <3>2. Complete(x)'
      BY <1>3, <2>1, <2>5, <2>7, <2>8, <2>9, <2>10, <3>1 DEF Complete
    <3>3. /\ c_pc[x] # "start" /\ ~ Gone(x)' /\ buffer'[x] \in [1 .. MSG_MAX -> Pairs]
          /\ UNCHANGED <<c_pc, cnt, num_tests, cbuf, mode_flag>>
      BY <1>3, <1>4, <2>2, <2>8 DEF Live, Gone
    <3> QED BY <2>2, <3>2, <3>3 DEF Exchange
  <2>11. CASE pos # SIZE
    <3>1. /\ ~ pending_data'[x] /\ added_pos'[x] = pos /\ len_buffer'[x] = SIZE
          /\ s2c'[x] = <<>> /\ buffer'[x] = buf /\ c_pc'[x] = c_pc[x] /\ cnt'[x] = cnt[x]
          /\ num_tests'[x] + 1 = n
      BY <1>3, <2>1, <2>5, <2>9, <2>11
    <3>2. Coming(x)'
      <4>1. pos <= sent /\ pos < SIZE /\ pos # 1 /\ pos # 0 /\ pos \in Nat
        BY <2>5, <2>6, <2>11
      <4>2. sent = IF c_pc'[x] = "send" THEN cnt'[x] ELSE SIZE
        BY <2>1, <3>1
      <4>3. /\ c2s'[x] = Piece(n, pos, sent) /\ sent # 1
            /\ \A p \in 1 .. pos : buffer'[x][p] = <<n, p>>
        BY <2>5, <2>7, <2>8, <3>1
      <4> QED BY <3>1, <4>1, <4>2, <4>3 DEF Coming
    <3>3. /\ c_pc[x] # "start" /\ ~ Gone(x)' /\ buffer'[x] \in [1 .. MSG_MAX -> Pairs]
          /\ UNCHANGED <<c_pc, cnt, num_tests, cbuf, mode_flag>>
      BY <1>3, <1>4, <2>2, <2>8 DEF Live, Gone
    <3> QED BY <2>2, <3>2, <3>3 DEF Exchange
  <2> QED BY <2>10, <2>11
<1>5. ASSUME x \notin narrow, Gone(x)
      PROVE  Exchange(x)'
  BY <1>1, <1>5, GoneExchange DEF IInv
<1> QED BY <1>1, <1>2, <1>4, <1>5, VisitStep

-----------------------------------------------------------------------------
(* www mode, and the theorems. *)

\* The web server only takes browsers from the backlog.
LEMMA WebNextInv ==
  ASSUME IInv, WebNext, UNCHANGED setup
  PROVE  IInv'
<1>1. CASE WebAccept
  <2>1. /\ s_pc = "accept" /\ mode_flag = 1 /\ s_pc' = "request" /\ backlog' = Tail(backlog)
        /\ UNCHANGED <<pathVars, clientVars, nodeVars, nodes, broken, setup>>
    BY <1>1 DEF WebAccept, frame
  <2>2. UNCHANGED <<c2s, s2c, c_pc, cnt, num_tests, cbuf, buffer, added_pos, len_buffer, pending_data,
                    mode_flag, narrow>>
    BY <2>1 DEF pathVars, clientVars, nodeVars, setup
  <2>3. /\ backlog' \in Seq(Clients) /\ Once(backlog')
        /\ Members(backlog') \subseteq Members(backlog)
    <3>1. backlog \in Seq(Clients) /\ backlog # <<>> /\ Once(backlog)
      BY <2>1 DEF IInv, Lists, Walk
    <3> QED BY <2>1, <3>1, TailMembers
  <2>4. Shapes' /\ \A c \in Clients : SameClient(c) /\ SameNode(c)
    BY <2>2 DEF IInv, Shapes, SameClient, SameNode
  <2>5. Lists'
    BY <2>1, <2>2, <2>3 DEF IInv, Lists, Live, Gone
  <2>6. Walk' /\ Waiting'
    BY <2>1, <2>2 DEF Walk, Waiting
  <2>7. \A c \in Clients \ narrow' : Exchange(c)'
    BY <2>2, <2>4, SameExchange DEF IInv
  <2> QED BY <2>4, <2>5, <2>6, <2>7 DEF IInv
<1>2. CASE ~ WebAccept
  <2>1. /\ UNCHANGED <<pathVars, clientVars, nodeVars, backlog, nodes>>
        /\ s_pc' \notin {"accept", "write", "read"}
        /\ \A c \in Clients : c \in broken' => c \in broken \/ Gone(c)
    BY <1>2 DEF WebNext, WebRecv, WebNull, WebValid, WebExists, WebAccess, WebSend, WebSendFails,
                WebClose, Report, frame, processFrame
  <2>2. Walk'
    BY <2>1 DEF Walk
  <2> QED BY <2>1, <2>2, ServerStep
<1> QED BY <1>1, <1>2

LEMMA InitInv ==
  ASSUME Init
  PROVE  IInv
<1>1. /\ mode_flag \in {0, 1} /\ s_pc = "select" /\ backlog = <<>> /\ nodes = <<>> /\ broken = {}
      /\ \A c \in Clients : /\ c_pc[c] = "start" /\ cnt[c] = 0 /\ num_tests[c] = 0
                            /\ cbuf[c] = [p \in 1 .. SIZE |-> NoByte]
                            /\ c2s[c] = <<>> /\ s2c[c] = <<>>
                            /\ buffer[c] = [p \in 1 .. MSG_MAX |-> NoByte]
                            /\ added_pos[c] = 0 /\ len_buffer[c] = 0 /\ ~ pending_data[c]
      /\ Shapes
  BY ServerAssumption DEF Init, PathInit, ClientInit, ServerInit, Shapes
<1>2. /\ <<>> \in Seq(Clients) /\ Once(<<>>) /\ Members(<<>>) = {}
  BY EmptySeq DEF Once, Members
<1>3. Lists /\ Walk /\ Waiting
  BY <1>1, <1>2 DEF Lists, Walk, Waiting, Live
<1>4. ASSUME NEW c \in Clients
      PROVE  Exchange(c)
  <2>1. SIZE \in Nat /\ SIZE >= 2 /\ NoByte \in Pairs
    BY PathAssumption DEF NoByte, Pairs
  <2> QED BY <1>1, <2>1 DEF Exchange, Unused, Fresh, Live
<1> QED BY <1>1, <1>3, <1>4 DEF IInv

\* select, accept or fcntl fails.
LEMMA CallFailsInv ==
  ASSUME IInv, CallFails, UNCHANGED setup
  PROVE  IInv'
<1>1. /\ s_pc' = "crashed"
      /\ UNCHANGED <<pathVars, clientVars, nodeVars, backlog, nodes, broken>>
  BY DEF CallFails
<1>2. Walk'
  BY <1>1 DEF Walk
<1> QED BY <1>1, <1>2, ServerStep

LEMMA StepInv ==
  ASSUME IInv, [Next]_vars
  PROVE  IInv'
<1>1. CASE UNCHANGED vars \/ Idle \/ (FileChanges /\ UNCHANGED setup)
  <2>1. UNCHANGED <<pathVars, clientVars, serverVars, setup>>
    BY <1>1 DEF vars, Idle, FileChanges
  <2>2. Walk'
    BY <2>1 DEF IInv, Walk, ToldRight, serverVars, loopVars, nodeVars, setup
  <2> QED BY <2>1, <2>2, ServerStep DEF serverVars, loopVars
<1>2. CASE MainLoop
  <2>1. ASSUME NEW x \in Clients, Visit(x), UNCHANGED setup
        PROVE  IInv'
    BY <2>1, IdleVisitInv, ServerSendInv, ServerSendLostInv, DumpInv, ServerRecvInv DEF Visit
  <2> QED BY <1>2, <2>1, SelectInv, AcceptInv, WebNextInv DEF MainLoop, ServerNext
<1>3. ASSUME NEW x \in Clients, ClientNext(x)
      PROVE  IInv'
  <2>1. CASE ClientConnect(x) /\ UNCHANGED <<setup, webVars>>
    BY <2>1, ClientConnectInv
  <2>2. CASE mode_flag = 0 /\ (ClientSend(x) \/ ClientRecv(x)) /\ UNCHANGED <<serverVars, setup, webVars>>
    BY <2>2, ClientSendInv, ClientRecvInv
  <2>3. CASE BrowserSend(x) /\ UNCHANGED setup
    BY <2>3, BrowserSendInv
  <2>4. CASE BrowserEnd(x) /\ UNCHANGED setup
    <3>1. /\ mode_flag = 1 /\ c_pc[x] \in {"start", "send", "recv"}
          /\ c_pc' = [c_pc EXCEPT ![x] = "done"]
          /\ UNCHANGED <<pathVars, cnt, num_tests, cbuf, serverVars, setup>>
      BY <2>4 DEF BrowserEnd
    <3> QED BY <3>1, ClientEndsInv
  <2>5. CASE ClientKilled(x) /\ UNCHANGED <<serverVars, setup, webVars>>
    <3>1. /\ c_pc[x] \in {"start", "send", "recv"}
          /\ c_pc' = [c_pc EXCEPT ![x] = "killed"]
          /\ UNCHANGED <<pathVars, cnt, num_tests, cbuf, serverVars, setup>>
      BY <2>5 DEF ClientKilled
    <3> QED BY <3>1, ClientEndsInv
  <2>6. CASE ServerLost(x) /\ UNCHANGED <<setup, webVars>>
    BY <2>6, ServerLostInv
  <2> QED BY <1>3, <2>1, <2>2, <2>3, <2>4, <2>5, <2>6 DEF ClientNext, ClientGoesOn
<1>4. CASE CallFails /\ UNCHANGED <<setup, webVars>>
  BY <1>4, CallFailsInv
<1> QED BY <1>1, <1>2, <1>3, <1>4 DEF Next

\* The invariant, for any clients and any faults.
THEOREM Invariance == Spec => []IInv
<1>1. Init => IInv
  BY InitInv
<1>2. IInv /\ [Next]_vars => IInv'
  BY StepInv
<1> QED BY <1>1, <1>2, PTL DEF Spec

\* Every message that a client counts is its own, whole and in order, however
\* many portions the server receives it in, and whoever else comes and goes.
THEOREM EchoesAreIntact == Spec => []EchoIntact
<1>1. IInv => EchoIntact
  BY DEF IInv, Exchange, EchoIntact
<1> QED BY <1>1, Invariance, PTL


\* The bytes of a message are at one place at any time: on the way to the
\* server and in the buffer of the node, complete there, or on the way back.
THEOREM MessageAtOnePlace == Spec => []OneMessage
<1>1. ASSUME IInv, NEW c \in NodeSet \ narrow, ~ Gone(c)
      PROVE  \/ /\ ~ pending_data[c]
                /\ s2c[c] = <<>>
                /\ added_pos[c] + Len(c2s[c]) = IF c_pc[c] = "send" THEN cnt[c] ELSE SIZE
                /\ len_buffer[c] = IF added_pos[c] = 0 THEN 0 ELSE SIZE
             \/ /\ c_pc[c] = "recv"
                /\ pending_data[c]
                /\ len_buffer[c] = SIZE
                /\ c2s[c] = <<>>
                /\ s2c[c] = <<>>
             \/ /\ c_pc[c] = "recv"
                /\ ~ pending_data[c]
                /\ len_buffer[c] = 0
                /\ c2s[c] = <<>>
                /\ s2c[c] = Message(num_tests[c] + 1)
  <2>1. c \in Clients /\ c \in Members(nodes) /\ mode_flag = 0
    <3>1. c \in Members(nodes)
      BY <1>1 DEF NodeSet, Members
    <3>2. nodes \in Seq(Clients) /\ nodes # <<>>
      BY <1>1, <3>1, EmptySeq DEF IInv, Lists, Members
    <3>3. c \in Clients
      BY <3>1, <3>2, ElementOfSeq DEF Members
    <3> QED BY <1>1, <3>1, <3>2, <3>3 DEF IInv, Lists
  <2>2. Exchange(c) /\ Live(c)
    BY <1>1, <2>1 DEF IInv, Lists, Exchange, Gone, Live
  <2>3. CASE Coming(c)
    <3>0. PICK n \in Nat : n = num_tests[c] + 1
      BY <2>2 DEF Exchange
    <3>1. PICK got, sent :
            /\ n = num_tests[c] + 1 /\ got = added_pos[c]
            /\ sent = IF c_pc[c] = "send" THEN cnt[c] ELSE SIZE
      BY <3>0
    <3>2. /\ got \in 0 .. SIZE /\ sent \in got .. SIZE /\ c2s[c] = Piece(n, got, sent)
          /\ got \in Nat /\ sent \in Nat
      BY <2>2, <2>3, <3>1, PathAssumption DEF Exchange, Coming
    <3>3. Len(c2s[c]) = sent - got
      BY <3>2, PieceIs
    <3>4. got + Len(c2s[c]) = sent
      BY <3>2, <3>3
    <3> QED BY <2>3, <3>1, <3>4 DEF Coming
  <2>4. CASE Complete(c) \/ Returning(c)
    BY <2>4 DEF Complete, Returning
  <2> QED BY <2>1, <2>2, <2>3, <2>4 DEF Exchange
<1>2. IInv => OneMessage
  BY <1>1 DEF OneMessage
<1> QED BY <1>2, Invariance, PTL

\* A connected client is in the list once, or waits to be accepted; it is not
\* dumped while it lives.  And what the walk visits is in the list, although
\* nodes are freed in the middle of it.
THEOREM ListIsKept == Spec => []ListKept
<1>1. ASSUME IInv, NEW c \in Clients \ narrow, mode_flag = 0, c_pc[c] \in {"send", "recv"}
      PROVE  \/ Cardinality({j \in 1 .. Len(nodes) : nodes[j] = c}) = 1
             \/ \E j \in 1 .. Len(backlog) : backlog[j] = c
  <2>1. Once(nodes) /\ c \in Members(nodes) \cup Members(backlog)
    BY <1>1 DEF IInv, Lists, Live
  <2>2. CASE c \in Members(nodes)
    <3>1. PICK j \in 1 .. Len(nodes) : nodes[j] = c
      BY <2>2 DEF Members
    <3>2. {k \in 1 .. Len(nodes) : nodes[k] = c} = {j}
      BY <2>1, <3>1 DEF Once
    <3> QED BY <3>2, FS_Singleton
  <2>3. CASE c \in Members(backlog)
    BY <2>3 DEF Members
  <2> QED BY <2>1, <2>2, <2>3
<1>2. ASSUME IInv, s_pc \in {"write", "read"}
      PROVE  todo # <<>> /\ \A j \in 1 .. Len(todo) : todo[j] \in NodeSet
  BY <1>2 DEF IInv, Walk, Members, NodeSet
<1>3. IInv => ListKept
  BY <1>1, <1>2 DEF ListKept
<1> QED BY <1>3, Invariance, PTL

-----------------------------------------------------------------------------
(* The web server.  The server works on one browser at a time, the one that *)
(* was taken from the backlog last; what it has sent and what it has still  *)
(* to send make up one answer, unless the browser is gone and parts of it   *)
(* are lost.  A socket that the server has closed never comes back.         *)

\* The steps of a turn in www mode; those after the recv.
Serving == {"request", "valid", "exists", "access", "send", "close"}
Received == Serving \ {"request"}
Statuses == {"200", "400", "404", "500", "501"}
Parts == Statuses \cup {"type", "blank line", "file", "message"}

\* The browsers, and what of their requests the server has not taken yet.
Browsers ==
  /\ DOMAIN request = Clients /\ DOMAIN asked = Clients /\ DOMAIN unread = Clients
  /\ \A c \in Clients :
       /\ asked[c] \in 0 .. PIECES /\ unread[c] \in 0 .. asked[c]
       /\ asked[c] > 0 => request[c] \in Requests
       /\ c \in closed => c_pc[c] # "start" /\ c \notin Members(backlog)
       /\ s_pc # "crashed" /\ c \notin closed /\ (c = new_sock => s_pc \notin Received) =>
            unread[c] = asked[c]
  /\ closed \subseteq Clients
  /\ changes \in Nat
  /\ new_sock \in Clients

\* The one that is served.
Served ==
  s_pc \in Serving =>
    /\ new_sock \in Clients \ closed
    /\ c_pc[new_sock] # "start"
    /\ new_sock \notin Members(backlog)

\* What is known of the request when it is decided about.
Decided ==
  /\ s_pc \in Received /\ AllCame => cmmd_dir = request[new_sock]
  /\ s_pc \in {"exists", "access"} => Implemented(cmmd_dir.cmd) /\ ValidDir(cmmd_dir.path)
  /\ s_pc = "access" => FileExist(cmmd_dir.path) \/ changes > 0

\* answer holds the first parts of the answer, left the last ones.
SentOf(status) ==
  /\ answer \in Seq(Parts) /\ Len(answer) <= 4
  /\ \A p \in 1 .. Len(answer) : answer[p] = Answer(status)[p]

LeftOf(status) ==
  /\ left \in Seq(Parts) /\ Len(left) \in 1 .. 4 /\ Len(answer) + Len(left) <= 4
  /\ \A p \in 1 .. Len(left) : left[p] = Answer(status)[(4 - Len(left)) + p]
  /\ ~ Gone(new_sock) => Len(answer) + Len(left) = 4

Answering ==
  /\ s_pc \in {"request", "valid", "exists", "access"} => answer = <<>>
  /\ \E status \in Statuses :
       /\ SentOf(status)
       /\ s_pc = "send" => LeftOf(status)
       /\ s_pc = "close" \/ new_sock \in closed => Gone(new_sock) \/ Len(answer) = 4
       /\ s_pc \in {"send", "close"} /\ AllCame => status \in Due(request[new_sock])

\* What has become of new_sock between two turns, and when the program ends.
Ended ==
  mode_flag = 1 =>
    /\ s_pc \in {"select", "accept"} => NotServed
    /\ s_pc = "crashed" => NotServed \/ Gone(new_sock) \/ ~ AllCame \/ BadFile(request[new_sock])

WInv == Browsers /\ Served /\ Decided /\ Answering /\ Ended

\* NotServed, by the set of those that wait.
LEMMA NotServedIs ==
  NotServed <=> \/ new_sock \in closed
                \/ c_pc[new_sock] = "start"
                \/ new_sock \in Members(backlog)
BY DEF NotServed, Members

\* A step of the clients or of the ping-pong server, for the web server.
LEMMA Elsewhere ==
  ASSUME WInv, UNCHANGED webVars, mode_flag' = mode_flag,
         s_pc' = s_pc \/ (s_pc \notin Serving \cup {"crashed"} /\ s_pc' \notin Serving),
         \A c \in Clients : /\ c_pc'[c] = "start" => c_pc[c] = "start"
                            /\ Gone(c) => Gone(c)'
                            /\ c \in Members(backlog') => c \in Members(backlog) \/ c_pc[c] = "start",
         mode_flag = 1 =>
           /\ s_pc' = s_pc \/ s_pc \in {"select", "accept"}
           /\ Members(backlog) \subseteq Members(backlog')
           /\ \A c \in Clients : c_pc[c] = "start" =>
                c_pc'[c] = "start" \/ c \in Members(backlog') \/ (s_pc = "crashed" /\ Gone(c)')
  PROVE  WInv'
<1>1. UNCHANGED <<request, asked, unread, new_sock, cmmd_dir, answer, closed, left, disk, changes>>
  BY DEF webVars
<1>2. Browsers'
  BY <1>1 DEF WInv, Browsers, Received, Serving
<1>3. Served'
  BY <1>1 DEF WInv, Served, Serving
<1>4. Decided'
  BY <1>1 DEF WInv, Decided, Received, Serving, AllCame, FileExist
<1>5. Answering'
  <2>1. s_pc' \in Serving => s_pc' = s_pc
    OBVIOUS
  <2>2. PICK status \in Statuses :
          /\ SentOf(status)
          /\ s_pc = "send" => LeftOf(status)
          /\ s_pc = "close" \/ new_sock \in closed => Gone(new_sock) \/ Len(answer) = 4
          /\ s_pc \in {"send", "close"} /\ AllCame => status \in Due(request[new_sock])
    BY DEF WInv, Answering
  <2>3. s_pc' \in {"send", "close"} => s_pc = s_pc' /\ new_sock \in Clients
    BY <2>1 DEF WInv, Served, Serving
  <2>4. SentOf(status)' /\ (s_pc' = "send" => LeftOf(status)')
    BY <1>1, <2>2, <2>3 DEF SentOf, LeftOf
  <2>5. s_pc' = "close" \/ new_sock' \in closed' => Gone(new_sock)' \/ Len(answer') = 4
    BY <1>1, <2>2, <2>3 DEF WInv, Browsers
  <2>6. (s_pc \in {"send", "close"} /\ AllCame => status \in Due(request[new_sock]))'
    BY <1>1, <2>2, <2>3 DEF AllCame, Due
  <2>7. s_pc' \in {"request", "valid", "exists", "access"} => answer' = <<>>
    BY <1>1, <2>1 DEF WInv, Answering, Serving
  <2> QED BY <2>4, <2>5, <2>6, <2>7 DEF Answering
<1>6. Ended'
  <2> SUFFICES ASSUME mode_flag = 1
               PROVE  /\ s_pc' \in {"select", "accept"} => NotServed'
                      /\ s_pc' = "crashed" => \/ NotServed' \/ Gone(new_sock)'
                                             \/ ~ AllCame' \/ BadFile(request[new_sock])'
    BY DEF Ended
  <2>1. new_sock \in Clients /\ new_sock' = new_sock
    BY <1>1 DEF WInv, Browsers
  <2>2. NotServed => NotServed' \/ (s_pc = "crashed" /\ Gone(new_sock)')
    <3>1. NotServed' <=> \/ new_sock' \in closed'
                         \/ c_pc'[new_sock'] = "start"
                         \/ new_sock' \in Members(backlog')
      BY DEF NotServed, Members
    <3> QED BY <1>1, <2>1, <3>1, NotServedIs
  <2>3. (AllCame' <=> AllCame) /\ (BadFile(request[new_sock])' <=> BadFile(request[new_sock]))
    BY <1>1 DEF AllCame, BadFile
  <2>4. Gone(new_sock) => Gone(new_sock)'
    BY <1>1, <2>1
  <2> QED BY <2>2, <2>3, <2>4 DEF WInv, Ended
<1> QED BY <1>2, <1>3, <1>4, <1>5, <1>6 DEF WInv

LEMMA ElsewhereSteps ==
  ASSUME IInv, WInv, UNCHANGED webVars, UNCHANGED setup,
         \/ UNCHANGED vars \/ ServerNext \/ CallFails
         \/ \E x \in Clients : \/ ClientConnect(x)
                               \/ ClientKilled(x) /\ UNCHANGED serverVars
                               \/ (ClientSend(x) \/ ClientRecv(x)) /\ UNCHANGED serverVars
                               \/ ServerLost(x) \/ BrowserEnd(x)
  PROVE  WInv'
<1>0. DOMAIN c_pc = Clients /\ backlog \in Seq(Clients) /\ mode_flag' = mode_flag
  BY DEF IInv, Shapes, Lists, setup
<1>1. CASE UNCHANGED vars
  <2>1. UNCHANGED <<c_pc, s_pc, backlog>>
    BY <1>1 DEF vars, clientVars, serverVars, loopVars
  <2> QED BY <1>0, <2>1, Elsewhere DEF Gone
<1>2. CASE ServerNext
  <2>1. /\ UNCHANGED c_pc
        /\ s_pc \notin Serving \cup {"crashed"} /\ s_pc' \notin Serving
        /\ backlog' = backlog \/ (s_pc = "accept" /\ backlog' = Tail(backlog))
    <3>1. CASE Select \/ Accept
      BY <3>1 DEF Select, Accept, clientVars, Serving
    <3>2. ASSUME NEW x \in Clients, Visit(x)
          PROVE  /\ UNCHANGED <<c_pc, backlog>>
                 /\ s_pc \notin Serving \cup {"crashed"} /\ s_pc' \notin Serving
      <4>1. CASE NotWritable(x) \/ ServerSend(x) \/ ServerSendLost(x) \/ ServerSigPipe(x)
        BY <4>1 DEF NotWritable, ServerSend, ServerSendLost, ServerSigPipe, AtWrite, clientVars, Serving
      <4>2. CASE ServerSendError(x)
        BY <4>2 DEF ServerSendError, AtWrite, Advance, ReadFreed, clientVars, Serving
      <4>3. CASE NotReadable(x) \/ ServerRecvEnd(x)
        BY <4>3 DEF NotReadable, ServerRecvEnd, AtRead, Advance, ReadFreed, clientVars, Serving
      <4>4. CASE ServerRecv(x)
        BY <4>4 DEF ServerRecv, AtRead, Advance, clientVars, Serving
      <4> QED BY <3>2, <4>1, <4>2, <4>3, <4>4 DEF Visit
    <3> QED BY <1>2, <3>1, <3>2 DEF ServerNext
  <2>2. Members(backlog') \subseteq Members(backlog)
    <3>1. CASE s_pc = "accept" /\ backlog' = Tail(backlog)
      <4>1. backlog # <<>> /\ Once(backlog)
        BY <3>1 DEF IInv, Lists, Walk
      <4> QED BY <1>0, <3>1, <4>1, TailMembers
    <3> QED BY <2>1, <3>1
  <2>3. mode_flag = 1 => s_pc \in {"select", "accept"} /\ backlog' = backlog
    <3>1. CASE Select \/ Accept
      BY <3>1 DEF Select, Accept
    <3>2. ASSUME NEW x \in Clients, Visit(x)
          PROVE  mode_flag = 0
      <4>1. s_pc \in {"write", "read"}
        BY <3>2 DEF Visit, NotWritable, ServerSend, ServerSendLost, ServerSigPipe, ServerSendError,
                    NotReadable, ServerRecv, ServerRecvEnd, AtWrite, AtRead
      <4> QED BY <4>1 DEF IInv, Walk
    <3> QED BY <1>2, <3>1, <3>2 DEF ServerNext
  <2> QED BY <1>0, <2>1, <2>2, <2>3, Elsewhere DEF Gone
<1>3. ASSUME NEW x \in Clients, ClientConnect(x)
      PROVE  WInv'
  <2>1. /\ c_pc[x] = "start" /\ c_pc' = [c_pc EXCEPT ![x] = "send"] /\ s_pc' = s_pc
        /\ backlog' = Append(backlog, x)
    BY <1>3 DEF ClientConnect
  <2>2. Members(backlog') = Members(backlog) \cup {x}
    BY <1>0, <2>1, AppendMembers DEF IInv, Lists
  <2> QED BY <1>0, <2>1, <2>2, Elsewhere DEF Gone
<1>4. ASSUME NEW x \in Clients,
             \/ ClientKilled(x) /\ UNCHANGED serverVars
             \/ (ClientSend(x) \/ ClientRecv(x)) /\ UNCHANGED serverVars
             \/ ServerLost(x) \/ BrowserEnd(x)
      PROVE  WInv'
  <2>1. /\ UNCHANGED <<s_pc, backlog>>
        /\ \/ UNCHANGED c_pc
           \/ /\ c_pc[x] \in {"start", "send", "recv"}
              /\ \E to \in {"send", "recv", "done", "killed"} : c_pc' = [c_pc EXCEPT ![x] = to]
    BY <1>4 DEF ClientKilled, ClientSend, ClientRecv, ServerLost, BrowserEnd, serverVars, loopVars
  <2>2. \A c \in Clients : (c_pc'[c] = "start" => c_pc[c] = "start") /\ (Gone(c) => Gone(c)')
    BY <1>0, <2>1 DEF Gone
  <2>3. mode_flag = 1 => \A c \in Clients : c_pc[c] = "start" =>
          c_pc'[c] = "start" \/ (s_pc = "crashed" /\ Gone(c)')
    <3>1. mode_flag = 1 /\ c_pc[x] = "start" => BrowserEnd(x) /\ s_pc = "crashed"
      BY <1>4 DEF ClientKilled, ClientSend, ClientRecv, ServerLost, BrowserEnd
    <3>2. BrowserEnd(x) => c_pc' = [c_pc EXCEPT ![x] = "done"]
      BY DEF BrowserEnd
    <3> QED BY <1>0, <2>1, <3>1, <3>2 DEF Gone
  <2> QED BY <1>0, <2>1, <2>2, <2>3, Elsewhere
<1>5. CASE CallFails
  <2>1. /\ s_pc \in {"select", "accept"} /\ s_pc' = "crashed" /\ UNCHANGED <<c_pc, backlog>>
    BY <1>5 DEF CallFails, clientVars
  <2>2. s_pc \notin Serving \cup {"crashed"} /\ s_pc' \notin Serving
    BY <2>1 DEF Serving
  <2> QED BY <1>0, <2>1, <2>2, Elsewhere DEF Gone
<1> QED BY <1>1, <1>2, <1>3, <1>4, <1>5

\* More of a request is sent.
LEMMA BrowserSendWeb ==
  ASSUME IInv, WInv, NEW x \in Clients, BrowserSend(x)
  PROVE  WInv'
<1>1. PICK k \in Some(PIECES - asked[x]), r \in (IF asked[x] = 0 THEN Requests ELSE {request[x]}) :
        /\ asked' = [asked EXCEPT ![x] = @ + k]
        /\ unread' = [unread EXCEPT ![x] = @ + k]
        /\ request' = [request EXCEPT ![x] = r]
        /\ c_pc[x] = "send" /\ c_pc' = [c_pc EXCEPT ![x] = IF asked[x] + k = PIECES THEN "recv" ELSE @]
        /\ x \notin closed /\ s_pc # "crashed"
        /\ UNCHANGED <<s_pc, backlog, new_sock, cmmd_dir, answer, closed, left, disk, changes>>
  BY DEF BrowserSend, serverVars, loopVars
<1>2. DOMAIN c_pc = Clients /\ DOMAIN asked = Clients /\ DOMAIN unread = Clients /\ DOMAIN request = Clients
  BY DEF IInv, Shapes, WInv, Browsers
<1>3. \A c \in Clients \ {x} : /\ asked'[c] = asked[c] /\ unread'[c] = unread[c]
                               /\ request'[c] = request[c] /\ c_pc'[c] = c_pc[c]
  BY <1>1, <1>2
<1>4. /\ asked'[x] = asked[x] + k /\ unread'[x] = unread[x] + k /\ request'[x] = r
      /\ c_pc'[x] \in {"send", "recv"}
      /\ asked[x] \in 0 .. PIECES /\ unread[x] \in 0 .. asked[x] /\ PIECES = 2
      /\ k \in 1 .. PIECES - asked[x]
      /\ asked'[x] \in 1 .. PIECES /\ unread'[x] \in 1 .. asked'[x]
      /\ r \in Requests
  BY <1>1, <1>2 DEF WInv, Browsers, PIECES, Some
<1>5. \A c \in Clients : (Gone(c) <=> Gone(c)') /\ (c_pc[c] = "start" <=> c_pc'[c] = "start")
  BY <1>1, <1>3, <1>4 DEF Gone
<1>6. Browsers'
  <2>1. DOMAIN request' = Clients /\ DOMAIN asked' = Clients /\ DOMAIN unread' = Clients
    BY <1>1, <1>2
  <2>2. ASSUME NEW c \in Clients
        PROVE  /\ asked'[c] \in 0 .. PIECES /\ unread'[c] \in 0 .. asked'[c]
               /\ asked'[c] > 0 => request'[c] \in Requests
               /\ c \in closed' => c_pc'[c] # "start" /\ c \notin Members(backlog')
               /\ s_pc' # "crashed" /\ c \notin closed' /\ (c = new_sock' => s_pc' \notin Received) =>
                    unread'[c] = asked'[c]
    BY <1>1, <1>3, <1>4, <1>5 DEF WInv, Browsers
  <2> QED BY <1>1, <2>1, <2>2 DEF WInv, Browsers
<1>7. Served'
  BY <1>1, <1>5 DEF WInv, Served
<1>8. AllCame' /\ new_sock \in Clients => AllCame /\ request'[new_sock] = request[new_sock]
  BY <1>1, <1>3, <1>4 DEF AllCame
<1>9. Decided'
  BY <1>1, <1>8 DEF WInv, Served, Decided, Received, Serving, FileExist
<1>10. Answering'
  <2>2. PICK status \in Statuses :
          /\ SentOf(status)
          /\ s_pc = "send" => LeftOf(status)
          /\ s_pc = "close" \/ new_sock \in closed => Gone(new_sock) \/ Len(answer) = 4
          /\ s_pc \in {"send", "close"} /\ AllCame => status \in Due(request[new_sock])
    BY DEF WInv, Answering
  <2>3. s_pc \in {"send", "close"} \/ new_sock \in closed => new_sock \in Clients
    BY DEF WInv, Browsers, Served, Serving
  <2>4. SentOf(status)' /\ (s_pc' = "send" => LeftOf(status)')
    BY <1>1, <1>5, <2>2, <2>3 DEF SentOf, LeftOf
  <2>5. s_pc' = "close" \/ new_sock' \in closed' => Gone(new_sock)' \/ Len(answer') = 4
    BY <1>1, <1>5, <2>2, <2>3
  <2>6. (s_pc \in {"send", "close"} /\ AllCame => status \in Due(request[new_sock]))'
    BY <1>1, <1>8, <2>2, <2>3 DEF Due
  <2>7. s_pc' \in {"request", "valid", "exists", "access"} => answer' = <<>>
    BY <1>1 DEF WInv, Answering
  <2> QED BY <2>4, <2>5, <2>6, <2>7 DEF Answering
<1>11. Ended'
  <2>1. mode_flag' = 1 => mode_flag = 1
    BY DEF BrowserSend
  <2>2. NotServed => NotServed'
    <3>1. new_sock \in Clients
      BY DEF WInv, Browsers
    <3> QED BY <1>1, <1>5, <3>1 DEF NotServed
  <2> QED BY <1>1, <2>1, <2>2 DEF WInv, Ended
<1> QED BY <1>6, <1>7, <1>9, <1>10, <1>11 DEF WInv

\* The file changes while the server looks for it.
LEMMA FileChangesWeb ==
  ASSUME WInv, FileChanges
  PROVE  WInv'
<1>1. /\ changes' = changes + 1 /\ changes \in Nat /\ changes' \in Nat /\ changes' > 0
      /\ UNCHANGED <<c_pc, s_pc, backlog, request, asked, unread, new_sock, cmmd_dir, answer, closed, left>>
  BY DEF FileChanges, clientVars, serverVars, loopVars, WInv, Browsers
<1>2. Browsers' /\ Served'
  BY <1>1 DEF WInv, Browsers, Served
<1>3. Decided'
  BY <1>1 DEF WInv, Decided, AllCame
<1>4. \A r : Due(r) \subseteq Due(r)'
  BY <1>1 DEF Due
<1>5. Answering'
  BY <1>1, <1>4 DEF WInv, Answering, SentOf, LeftOf, Gone, AllCame
<1>6. Ended'
  BY <1>1 DEF FileChanges, Ended
<1> QED BY <1>2, <1>3, <1>5, <1>6 DEF WInv

-----------------------------------------------------------------------------
(* The steps of the web server. *)

LEMMA WebAcceptWeb ==
  ASSUME IInv, WInv, WebAccept
  PROVE  WInv'
<1>1. /\ s_pc = "accept" /\ s_pc' = "request" /\ new_sock' = Head(backlog) /\ answer' = <<>>
      /\ backlog' = Tail(backlog)
      /\ UNCHANGED <<c_pc, request, asked, unread, cmmd_dir, closed, left, disk, changes>>
  BY DEF WebAccept, frame, clientVars
<1>2. /\ Members(backlog') = Members(backlog) \ {new_sock'} /\ new_sock' \in Members(backlog)
      /\ new_sock' \in Clients
  <2>1. backlog \in Seq(Clients) /\ backlog # <<>> /\ Once(backlog)
    BY <1>1 DEF IInv, Lists, Walk
  <2>2. Head(backlog) \in Clients
    BY <2>1, HeadTailProperties
  <2> QED BY <1>1, <2>1, <2>2, TailMembers
<1>3. new_sock' \notin closed /\ c_pc[new_sock'] # "start"
  BY <1>2 DEF IInv, Lists, WInv, Browsers
<1>4. Browsers'
  BY <1>1, <1>2 DEF WInv, Browsers, Received, Serving
<1>5. Served' /\ Decided'
  BY <1>1, <1>2, <1>3 DEF Served, Decided, Received, Serving
<1>6. Answering'
  <2>1. SentOf("200")'
    BY <1>1 DEF SentOf
  <2> QED BY <1>1, <1>3, <2>1 DEF Answering, Statuses
<1>7. Ended'
  BY <1>1 DEF Ended
<1> QED BY <1>4, <1>5, <1>6, <1>7 DEF WInv

LEMMA WebRecvWeb ==
  ASSUME WInv, WebRecv
  PROVE  WInv'
<1>0. /\ s_pc = "request" /\ s_pc' = "valid"
      /\ UNCHANGED <<c_pc, backlog, request, asked, new_sock, answer, closed, left, disk, changes>>
  BY DEF WebRecv, frame, clientVars
<1> DEFINE c == new_sock
<1>1. PICK k \in IF unread[c] = 0 /\ Gone(c) THEN {0} ELSE Some(unread[c]) :
        /\ cmmd_dir' \in Words(request[c], k)
        /\ unread' = [unread EXCEPT ![c] = @ - k]
  BY DEF WebRecv
<1>2. /\ c \in Clients /\ c \notin closed /\ DOMAIN unread = Clients
      /\ asked[c] \in 0 .. PIECES /\ unread[c] = asked[c] /\ PIECES = 2
  BY <1>0 DEF WInv, Served, Browsers, Serving, Received, PIECES
<1>3. /\ k \in 0 .. 2 /\ k <= unread[c] /\ unread'[c] = unread[c] - k /\ unread'[c] \in 0 .. asked[c]
      /\ \A b \in Clients \ {c} : unread'[b] = unread[b]
  BY <1>1, <1>2 DEF Some
<1>4. Browsers'
  <2>1. DOMAIN unread' = Clients
    BY <1>1, <1>2
  <2>2. ASSUME NEW b \in Clients
        PROVE  /\ asked[b] \in 0 .. PIECES /\ unread'[b] \in 0 .. asked[b]
               /\ s_pc' # "crashed" /\ b \notin closed /\ (b = c => s_pc' \notin Received) =>
                    unread'[b] = asked[b]
    BY <1>0, <1>2, <1>3 DEF WInv, Browsers, Received, Serving
  <2> QED BY <1>0, <2>1, <2>2 DEF WInv, Browsers
<1>5. Served'
  BY <1>0 DEF WInv, Served, Serving
<1>6. Decided'
  <2>1. AllCame' => k = 2
    BY <1>0, <1>2, <1>3 DEF AllCame
  <2>2. AllCame' => cmmd_dir' = request[c]
    BY <1>1, <2>1 DEF Words
  <2> QED BY <1>0, <2>2 DEF Decided
<1>7. Answering'
  BY <1>0, <1>2 DEF WInv, Answering, SentOf
<1>8. Ended'
  BY <1>0 DEF Ended
<1> QED BY <1>4, <1>5, <1>6, <1>7, <1>8 DEF WInv

\* The beginning of a sequence.
LEMMA Beginning ==
  ASSUME NEW S, NEW s \in Seq(S), NEW n \in Nat, n <= Len(s)
  PROVE  /\ SubSeq(s, 1, n) \in Seq(S) /\ Len(SubSeq(s, 1, n)) = n
         /\ \A p \in 1 .. n : SubSeq(s, 1, n)[p] = s[p]
<1>1. \A p \in 1 .. n : s[p] \in S
  BY ElementOfSeq, LenProperties
<1>2. /\ SubSeq(s, 1, n) \in Seq(S)
      /\ Len(SubSeq(s, 1, n)) = IF 1 <= n THEN n - 1 + 1 ELSE 0
      /\ \A p \in 1 .. n - 1 + 1 : SubSeq(s, 1, n)[p] = s[1 + p - 1]
  BY <1>1, SubSeqProperties
<1>3. /\ n - 1 + 1 = n /\ (IF 1 <= n THEN n - 1 + 1 ELSE 0) = n
      /\ \A p \in 1 .. n : 1 + p - 1 = p
  OBVIOUS
<1> QED BY <1>2, <1>3

LEMMA FourParts ==
  ASSUME NEW S, NEW a \in S, NEW b \in S, NEW c \in S, NEW d \in S
  PROVE  <<a, b, c, d>> \in Seq(S) /\ Len(<<a, b, c, d>>) = 4
OBVIOUS

LEMMA OneOfFour ==
  ASSUME NEW a, NEW b, NEW c, NEW d, NEW i \in 1 .. 4
  PROVE  <<a, b, c, d>>[i] \in {a, b, c, d}
<1>1. CASE i = 1
  BY <1>1
<1>2. CASE i = 2
  BY <1>2
<1>3. CASE i = 3
  BY <1>3
<1>4. CASE i = 4
  BY <1>4
<1> QED BY <1>1, <1>2, <1>3, <1>4

\* The parts of an answer.
LEMMA AnswerIs ==
  ASSUME NEW status \in Statuses
  PROVE  Answer(status) \in Seq(Parts) /\ Len(Answer(status)) = 4
<1>1. PICK body \in Parts : body = IF status = "200" THEN "file" ELSE "message"
  BY DEF Parts
<1>2. status \in Parts /\ "type" \in Parts /\ "blank line" \in Parts
  BY DEF Parts
<1>3. /\ <<status, "type", "blank line", body>> \in Seq(Parts)
      /\ Len(<<status, "type", "blank line", body>>) = 4
  BY <1>2, FourParts
<1>4. Answer(status) = <<status, "type", "blank line", body>>
  BY <1>1 DEF Answer
<1> QED BY <1>3, <1>4

\* The decision about the request.
LEMMA WebDecides ==
  ASSUME WInv, WebValid \/ WebExists \/ WebAccess
  PROVE  WInv'
<1>1. /\ s_pc \in {"valid", "exists", "access"} /\ s_pc' \in {"exists", "access", "send"}
      /\ UNCHANGED <<c_pc, backlog, request, asked, unread, new_sock, cmmd_dir, answer, closed, disk, changes>>
  BY DEF WebValid, WebExists, WebAccess, Report, processFrame, frame, clientVars
<1>2. Browsers' /\ Served'
  BY <1>1 DEF WInv, Browsers, Served, Received, Serving
<1>3. Decided'
  BY <1>1 DEF WInv, Decided, Received, Serving, AllCame, FileExist, WebValid, WebExists, WebAccess, Report
<1>4. answer = <<>> /\ new_sock \notin closed
  BY <1>1 DEF WInv, Served, Answering, Serving
<1>5. Ended'
  BY <1>1 DEF Ended
<1>6. CASE s_pc' = "send"
  <2>1. PICK status \in Statuses :
          /\ left' = Answer(status)
          /\ AllCame => status \in Due(request[new_sock])
    <3>1. AllCame => /\ cmmd_dir = request[new_sock]
                     /\ request[new_sock].path \in {"outside", "file", "directory"}
      <4>1. AllCame => cmmd_dir = request[new_sock]
        BY <1>1 DEF WInv, Decided, Received, Serving
      <4>2. AllCame => request[new_sock] \in Requests
        BY DEF WInv, Browsers, AllCame, PIECES
      <4> QED BY <4>1, <4>2, WebAssumption
    <3>2. CASE WebValid
      <4>1. /\ ~ Implemented(cmmd_dir.cmd) => left' = Answer("501")
            /\ Implemented(cmmd_dir.cmd) => left' = Answer("400") /\ cmmd_dir.path = "outside"
        BY <1>6, <3>2 DEF WebValid, Report, ValidDir
      <4> QED BY <3>1, <4>1 DEF Due, Statuses, Implemented
    <3>3. CASE WebExists
      <4>1. /\ left' = Answer("404") /\ ~ FileExist(cmmd_dir.path)
            /\ Implemented(cmmd_dir.cmd) /\ ValidDir(cmmd_dir.path)
        BY <1>6, <3>3 DEF WebExists, Report, WInv, Decided
      <4> QED BY <3>1, <4>1 DEF Due, Statuses, Implemented, ValidDir, FileExist
    <3>4. CASE WebAccess
      <4>1. /\ left' = Answer(IF FileExist(cmmd_dir.path) THEN "200" ELSE "500")
            /\ FileExist(cmmd_dir.path) \/ changes > 0
            /\ Implemented(cmmd_dir.cmd) /\ ValidDir(cmmd_dir.path)
        BY <3>4 DEF WebAccess, Report, WInv, Decided
      <4>2. CASE FileExist(cmmd_dir.path)
        BY <3>1, <4>1, <4>2 DEF Due, Statuses, Implemented, ValidDir, FileExist
      <4>3. CASE ~ FileExist(cmmd_dir.path)
        BY <3>1, <4>1, <4>3 DEF Due, Statuses, Implemented, ValidDir, FileExist
      <4> QED BY <4>2, <4>3
    <3> QED BY <3>2, <3>3, <3>4
  <2>2. Len(answer) = 0 /\ Len(left') = 4 /\ left' \in Seq(Parts)
    BY <1>4, <2>1, AnswerIs
  <2>3. SentOf(status)' /\ LeftOf(status)'
    <3>1. \A p \in 1 .. 4 : left'[p] = Answer(status)[(4 - 4) + p]
      BY <2>1
    <3> QED BY <1>1, <1>4, <2>2, <3>1 DEF SentOf, LeftOf
  <2>4. (AllCame => status \in Due(request[new_sock]))'
    BY <1>1, <2>1 DEF AllCame, Due
  <2> QED BY <1>1, <1>2, <1>3, <1>4, <1>6, <1>5, <2>3, <2>4 DEF Answering, WInv
<1>7. CASE s_pc' # "send"
  <2>1. SentOf("200")'
    BY <1>1, <1>4 DEF SentOf
  <2> QED BY <1>1, <1>2, <1>3, <1>4, <1>7, <1>5, <2>1 DEF Answering, WInv, Statuses
<1> QED BY <1>2, <1>3, <1>6, <1>7, <1>5 DEF WInv

\* The program ends.
LEMMA WebEnds ==
  ASSUME IInv, WInv, WebNull \/ WebSendFails
  PROVE  WInv'
<1>1. /\ s_pc \in Serving /\ s_pc' = "crashed"
      /\ UNCHANGED <<c_pc, backlog, request, asked, unread, new_sock, cmmd_dir, answer, closed, left, disk,
                     changes>>
  BY DEF WebNull, WebSendFails, processFrame, frame, clientVars, Serving
<1>2. Browsers' /\ Served' /\ Decided'
  BY <1>1 DEF WInv, Browsers, Served, Decided, Received, Serving
<1>3. Answering'
  BY <1>1 DEF WInv, Answering, Served, SentOf, Gone
<1>4. Gone(new_sock) \/ ~ AllCame \/ BadFile(request[new_sock])
  <2> SUFFICES ASSUME AllCame
               PROVE  Gone(new_sock) \/ BadFile(request[new_sock])
    OBVIOUS
  <2>1. /\ new_sock \in Clients /\ request[new_sock] \in Requests
        /\ s_pc \in Received => cmmd_dir = request[new_sock]
    BY <1>1 DEF WInv, Served, Browsers, Decided, AllCame, PIECES
  <2>2. CASE WebNull
    <3>1. cmmd_dir.cmd = "NULL" \/ cmmd_dir.path = "NULL"
      BY <2>2 DEF WebNull
    <3>2. cmmd_dir \in Requests
      BY <2>1, <2>2 DEF WebNull, Received, Serving
    <3> QED BY <3>1, <3>2, WebAssumption
  <2>3. CASE s_pc = "send" /\ new_sock \in broken
    BY <2>1, <2>3 DEF IInv, Lists
  <2>4. CASE s_pc = "send" /\ NoFile
    <3>1. PICK status \in Statuses : LeftOf(status) /\ status \in Due(request[new_sock])
      BY <2>4 DEF WInv, Answering
    <3>2. Head(left) = "file" /\ (cmmd_dir.path = "directory" \/ disk # "page")
      BY <2>4 DEF NoFile
    <3>3. status = "200"
      <4>1. left \in Seq(Parts) /\ Len(left) \in 1 .. 4
        BY <3>1 DEF LeftOf
      <4>2. Head(left) = left[1] /\ 1 \in 1 .. Len(left)
        <5>1. left # <<>> /\ 1 \in 1 .. Len(left)
          BY <4>1, EmptySeq
        <5> QED BY <4>1, <5>1, HeadTailProperties
      <4>3. left[1] = Answer(status)[(4 - Len(left)) + 1]
        BY <3>1, <4>2 DEF LeftOf
      <4>4. PICK n \in 1 .. 4 : n = Len(left)
        BY <4>1
      <4>5. PICK i \in 1 .. 4 : i = (4 - n) + 1
        OBVIOUS
      <4>6. Answer(status)[i] = "file"
        BY <3>2, <4>2, <4>3, <4>4, <4>5
      <4>7. ASSUME status # "200"
            PROVE  FALSE
        <5>1. Answer(status) = <<status, "type", "blank line", "message">>
          BY <4>7 DEF Answer
        <5>2. Answer(status)[i] \in {status, "type", "blank line", "message"}
          BY <5>1, OneOfFour
        <5>3. status # "file"
          BY DEF Statuses
        <5> QED BY <4>6, <5>2, <5>3
      <4> QED BY <4>7
    <3>4. request[new_sock].cmd = "GET" /\ request[new_sock].path # "outside"
      BY <3>1, <3>3 DEF Due
    <3>5. cmmd_dir = request[new_sock]
      BY <2>1, <2>4 DEF Received, Serving
    <3> QED BY <2>1, <3>2, <3>4, <3>5, WebAssumption DEF BadFile
  <2> QED BY <2>2, <2>3, <2>4 DEF WebSendFails
<1>5. Ended'
  BY <1>1, <1>4 DEF Ended, Gone, AllCame, BadFile
<1> QED BY <1>2, <1>3, <1>5 DEF WInv

\* The next part of the answer is sent, or lost on a client that is gone.
LEMMA WebSendWeb ==
  ASSUME WInv, WebSend
  PROVE  WInv'
<1>1. /\ s_pc = "send" /\ s_pc' = (IF left' = <<>> THEN "close" ELSE "send")
      /\ left' = Tail(left)
      /\ IF Gone(new_sock) THEN UNCHANGED answer ELSE answer' = Append(answer, Head(left))
      /\ UNCHANGED <<c_pc, backlog, request, asked, unread, new_sock, cmmd_dir, closed, disk, changes>>
  BY DEF WebSend, frame, clientVars
<1>2. Browsers' /\ Served' /\ Decided'
  BY <1>1 DEF WInv, Browsers, Served, Decided, Received, Serving, AllCame
<1>3. PICK status \in Statuses :
        /\ SentOf(status) /\ LeftOf(status)
        /\ AllCame => status \in Due(request[new_sock])
  BY <1>1 DEF WInv, Answering
<1>4. /\ left \in Seq(Parts) /\ left # <<>> /\ Len(left) \in 1 .. 4
      /\ Len(answer) \in Nat /\ Head(left) = Answer(status)[4 - Len(left) + 1]
  <2>1. left \in Seq(Parts) /\ Len(left) \in 1 .. 4 /\ answer \in Seq(Parts) /\ Len(answer) \in Nat
    BY <1>3, LenProperties DEF SentOf, LeftOf
  <2>2. left # <<>> /\ 1 \in 1 .. Len(left)
    BY <2>1, EmptySeq
  <2>3. Head(left) = left[1]
    BY <2>1, <2>2, HeadTailProperties
  <2>4. left[1] = Answer(status)[4 - Len(left) + 1]
    BY <1>3, <2>2 DEF LeftOf
  <2> QED BY <2>1, <2>2, <2>3, <2>4
<1>5. /\ left' \in Seq(Parts) /\ Len(left') = Len(left) - 1
      /\ \A i \in 1 .. Len(left) - 1 : left'[i] = left[i + 1]
      /\ Head(left) \in Parts
  BY <1>1, <1>4, HeadTailProperties
<1>6. \A i \in 1 .. Len(left') : left'[i] = Answer(status)[(4 - Len(left')) + i]
  <2>1. \A i \in 1 .. Len(left) - 1 :
          i + 1 \in 1 .. Len(left) /\ (4 - Len(left)) + (i + 1) = (4 - (Len(left) - 1)) + i
    BY <1>4
  <2> QED BY <1>3, <1>5, <2>1 DEF LeftOf
<1>7. SentOf(status)' /\ Len(answer') + Len(left') <= 4
      /\ (~ Gone(new_sock) => Len(answer') + Len(left') = 4)
  <2>1. CASE Gone(new_sock)
    BY <1>1, <1>3, <1>4, <1>5, <2>1 DEF SentOf, LeftOf
  <2>2. CASE ~ Gone(new_sock)
    <3>1. /\ answer' = Append(answer, Head(left)) /\ answer \in Seq(Parts)
          /\ Len(answer) + Len(left) = 4
      BY <1>1, <1>3, <2>2 DEF SentOf, LeftOf
    <3>2. /\ answer' \in Seq(Parts) /\ Len(answer') = Len(answer) + 1
          /\ \A i \in 1 .. Len(answer) : answer'[i] = answer[i]
          /\ answer'[Len(answer) + 1] = Head(left)
      BY <1>5, <3>1
    <3>3. 4 - Len(left) + 1 = Len(answer) + 1
      BY <1>4, <3>1
    <3>4. \A i \in 1 .. Len(answer') : i \in 1 .. Len(answer) \/ i = Len(answer) + 1
      BY <1>4, <3>2
    <3>5. \A i \in 1 .. Len(answer') : answer'[i] = Answer(status)[i]
      BY <1>3, <1>4, <3>2, <3>3, <3>4 DEF SentOf
    <3>6. /\ Len(answer') <= 4 /\ Len(answer') + Len(left') <= 4
          /\ Len(answer') + Len(left') = 4
      BY <1>4, <1>5, <3>1, <3>2
    <3> QED BY <3>2, <3>5, <3>6 DEF SentOf
  <2> QED BY <2>1, <2>2
<1>8. s_pc' = "send" => LeftOf(status)'
  <2>1. s_pc' = "send" => Len(left') \in 1 .. 4
    BY <1>1, <1>4, <1>5, EmptySeq
  <2> QED BY <1>1, <1>5, <1>6, <1>7, <2>1 DEF LeftOf, Gone
<1>9. s_pc' = "close" => Gone(new_sock)' \/ Len(answer') = 4
  <2>1. s_pc' = "close" => Len(left') = 0
    BY <1>1, EmptySeq
  <2>2. Len(answer') \in Nat
    BY <1>7, LenProperties DEF SentOf
  <2>3. Gone(new_sock)' <=> Gone(new_sock)
    BY <1>1 DEF Gone
  <2>4. s_pc' = "close" /\ ~ Gone(new_sock) => Len(answer') + 0 = 4
    BY <1>7, <2>1
  <2> QED BY <2>2, <2>3, <2>4
<1>10. (AllCame => status \in Due(request[new_sock]))'
  BY <1>1, <1>3 DEF AllCame, Due
<1>11. new_sock' \notin closed'
  BY <1>1 DEF WInv, Served, Serving
<1>12. Answering'
  BY <1>1, <1>7, <1>8, <1>9, <1>10, <1>11 DEF Answering
<1>13. Ended'
  BY <1>1 DEF Ended
<1> QED BY <1>2, <1>12, <1>13 DEF WInv

LEMMA WebCloseWeb ==
  ASSUME WInv, WebClose
  PROVE  WInv'
<1>1. /\ s_pc = "close" /\ s_pc' = "select" /\ closed' = closed \cup {new_sock}
      /\ unread' = [unread EXCEPT ![new_sock] = 0]
      /\ UNCHANGED <<c_pc, backlog, request, asked, new_sock, answer, left, disk, changes>>
  BY DEF WebClose, Closed, frame, clientVars
<1>2. /\ new_sock \in Clients /\ c_pc[new_sock] # "start" /\ new_sock \notin Members(backlog)
      /\ DOMAIN unread = Clients
  BY <1>1 DEF WInv, Served, Browsers, Serving
<1>3. Browsers'
  <2>1. \A c \in Clients : unread'[c] = IF c = new_sock THEN 0 ELSE unread[c]
    BY <1>1, <1>2
  <2>2. DOMAIN unread' = Clients
    BY <1>1, <1>2
  <2>3. ASSUME NEW c \in Clients
        PROVE  /\ asked'[c] \in 0 .. PIECES /\ unread'[c] \in 0 .. asked'[c]
               /\ asked'[c] > 0 => request'[c] \in Requests
               /\ c \in closed' => c_pc'[c] # "start" /\ c \notin Members(backlog')
               /\ c \notin closed' => unread'[c] = asked'[c]
    BY <1>1, <1>2, <2>1 DEF WInv, Browsers, PIECES
  <2> QED BY <1>1, <1>2, <2>2, <2>3 DEF WInv, Browsers
<1>4. Served' /\ Decided'
  BY <1>1 DEF Served, Decided, Received, Serving
<1>5. Answering'
  BY <1>1 DEF WInv, Answering, SentOf, Gone
<1>6. Ended'
  BY <1>1 DEF Ended, NotServed
<1> QED BY <1>3, <1>4, <1>5, <1>6 DEF WInv

LEMMA WebStepInv ==
  ASSUME IInv, WInv, [Next]_vars
  PROVE  WInv'
<1>1. CASE UNCHANGED vars \/ Idle \/ ((ServerNext \/ CallFails) /\ UNCHANGED <<setup, webVars>>)
  BY <1>1, ElsewhereSteps DEF Idle, vars
<1>2. CASE WebNext
  BY <1>2, WebAcceptWeb, WebRecvWeb, WebDecides, WebEnds, WebSendWeb, WebCloseWeb DEF WebNext
<1>3. CASE FileChanges
  BY <1>3, FileChangesWeb
<1>4. ASSUME NEW x \in Clients, ClientNext(x)
      PROVE  WInv'
  <2>1. BrowserSend(x) \/
        /\ UNCHANGED webVars /\ UNCHANGED setup
        /\ \/ ClientConnect(x)
           \/ ClientKilled(x) /\ UNCHANGED serverVars
           \/ (ClientSend(x) \/ ClientRecv(x)) /\ UNCHANGED serverVars
           \/ ServerLost(x) \/ BrowserEnd(x)
    BY <1>4 DEF ClientNext, ClientGoesOn, BrowserEnd
  <2> QED BY <2>1, BrowserSendWeb, ElsewhereSteps
<1> QED BY <1>1, <1>2, <1>3, <1>4 DEF Next, MainLoop

LEMMA WebInitInv ==
  ASSUME Init
  PROVE  WInv
<1>1. /\ s_pc = "select" /\ backlog = <<>> /\ answer = <<>> /\ closed = {} /\ changes = 0
      /\ DOMAIN request = Clients /\ DOMAIN asked = Clients /\ DOMAIN unread = Clients
      /\ \A c \in Clients : asked[c] = 0 /\ unread[c] = 0 /\ c_pc[c] = "start"
      /\ new_sock \in Clients
  BY PathAssumption DEF Init, ClientInit, ServerInit, WebInit
<1>2. Browsers /\ Served /\ Decided
  BY <1>1 DEF Browsers, Served, Decided, Received, Serving, PIECES
<1>3. SentOf("200")
  BY <1>1 DEF SentOf
<1>4. Ended
  BY <1>1 DEF Ended, NotServed
<1> QED BY <1>1, <1>2, <1>3, <1>4 DEF WInv, Answering, Statuses

\* What a browser is sent is the beginning of one answer, whatever the file
\* does and whoever waits or goes meanwhile, and the right one if the request
\* came with the one recv.  Its socket is closed when all four parts are sent;
\* and the server ends on it only when it has gone away, its request came in
\* pieces, or there is nothing to read behind the path it named.  Then it may
\* be left with a part of the answer, or without any.
THEOREM BrowsersAreAnswered == Spec => []WebAnswers
<1>1. WInv => WebAnswers
  <2> SUFFICES ASSUME WInv
               PROVE  WebAnswers
    OBVIOUS
  <2>1. PICK status \in Statuses :
          /\ SentOf(status)
          /\ s_pc = "close" \/ new_sock \in closed => Gone(new_sock) \/ Len(answer) = 4
          /\ s_pc \in {"send", "close"} /\ AllCame => status \in Due(request[new_sock])
    BY DEF WInv, Answering
  <2>2. IsPrefix(answer, Answer(status))
    <3>0. answer \in Seq(Parts) /\ Len(answer) \in Nat /\ Len(answer) <= 4
      BY <2>1, LenProperties DEF SentOf
    <3>1. \A p \in 1 .. Len(answer) : answer[p] = Answer(status)[p]
      BY <2>1 DEF SentOf
    <3>2. Answer(status) \in Seq(Parts) /\ Len(Answer(status)) = 4
      BY AnswerIs
    <3> HIDE DEF Answer
    <3>3. SubSeq(answer, 1, Len(answer)) = answer
      BY <3>0, SubSeqFull
    <3>4. /\ SubSeq(Answer(status), 1, Len(answer)) \in Seq(Parts)
          /\ Len(SubSeq(Answer(status), 1, Len(answer))) = Len(answer)
          /\ \A p \in 1 .. Len(answer) : SubSeq(Answer(status), 1, Len(answer))[p] = Answer(status)[p]
      BY <3>0, <3>2, Beginning
    <3>5. SubSeq(Answer(status), 1, Len(answer)) = answer
      BY <3>0, <3>1, <3>4, SeqEqual
    <3> QED BY <3>0, <3>2, <3>3, <3>5 DEF IsPrefix
  <2>3. mode_flag = 1 /\ s_pc = "crashed" =>
          NotServed \/ Gone(new_sock) \/ ~ AllCame \/ BadFile(request[new_sock])
    BY DEF WInv, Ended
  <2> QED BY <2>1, <2>2, <2>3 DEF WebAnswers, Statuses
<1>2. Init => WInv
  BY WebInitInv
<1>3. IInv /\ WInv /\ [Next]_vars => WInv'
  BY WebStepInv
<1> QED BY <1>1, <1>2, <1>3, Invariance, PTL DEF Spec
-----------------------------------------------------------------------------
(* Types, and the lengths that the server reads.  A node whose length was    *)
(* misread is received into and sent from at any position, but recv asks for *)
(* what the buffer has room for, and send takes no more than the path has.   *)
(* A length is read right when both bytes of it are there.  For that a       *)
(* client that is gone must be followed, too: it leaves bytes and a node     *)
(* behind, which the server goes on with; it may receive the rest of what    *)
(* came, and may take it for complete and send it to nobody.                 *)

Bytes == Byte \cup {NoByte}

\* What a node and the stream to it hold of a message: all of it, and it is
\* due to be sent back; or the first bytes, and those that follow.
Held(got, len, due, stream) ==
  \/ due /\ got = 0 /\ len = SIZE /\ stream = <<>>
  \/ /\ ~ due
     /\ got \in 0 .. SIZE - 1
     /\ len = IF got = 0 THEN 0 ELSE SIZE
     /\ \E n \in 1 .. COUNT : \E sent \in got .. SIZE : stream = Piece(n, got, sent)

HeldOf(c) == Held(added_pos[c], len_buffer[c], pending_data[c], c2s[c])

Steps == {"select", "accept", "write", "read", "crashed"}
           \cup {"request", "valid", "exists", "access", "send", "close"}

\* The streams and what clients received.
StreamTypes ==
  /\ c2s \in [Clients -> Seq(Byte)]
  /\ s2c \in [Clients -> Seq(Bytes)]
  /\ \A c \in Clients : Len(s2c[c]) <= Width(c)
  /\ cbuf \in [Clients -> [1 .. SIZE -> Bytes]]

NodeTypes ==
  /\ buffer \in [Clients -> [1 .. MSG_MAX -> Bytes]]
  /\ added_pos \in [Clients -> 0 .. MSG_MAX]
  /\ len_buffer \in [Clients -> 0 .. MSG_MAX]
  /\ pending_data \in [Clients -> BOOLEAN]
  /\ \A c \in Clients \ narrow : HeldOf(c)

\* A client that has not finished has a message left to send.
Unfinished(c) == c_pc[c] \in {"start", "send", "recv"}

CountTypes ==
  /\ c_pc \in [Clients -> {"start", "send", "recv", "done", "killed"}]
  /\ cnt \in [Clients -> 0 .. SIZE - 1]
  /\ num_tests \in [Clients -> 0 .. COUNT]
  /\ \A c \in Clients : Unfinished(c) => num_tests[c] < COUNT

LoopTypes ==
  /\ s_pc \in Steps
  /\ todo \in Seq(Clients)
  /\ read_set \subseteq Clients /\ write_set \subseteq Clients /\ broken \subseteq Clients

\* A client that waits to be accepted has a new node, also if it was killed.
NewNodes == \A c \in Members(backlog) \ narrow : Fresh(c)

TypeInv == StreamTypes /\ NodeTypes /\ CountTypes /\ LoopTypes /\ NewNodes

\* The bytes of a message are bytes.
LEMMA PieceBytes ==
  ASSUME NEW n \in 1 .. COUNT, NEW a \in 0 .. SIZE, NEW b \in a .. SIZE
  PROVE  Piece(n, a, b) \in Seq(Byte) /\ Len(Piece(n, a, b)) = b - a
<1>1. a + 1 \in Int /\ b \in Int /\ n \in Nat /\ SIZE \in Nat
  BY PathAssumption
<1>2. ASSUME NEW p \in a + 1 .. b
      PROVE  Message(n)[p] \in Byte
  <2>1. p \in 1 .. SIZE
    BY <1>1
  <2>2. Message(n)[p] = <<n, p>>
    BY <1>1, <2>1, MessageSeq
  <2> QED BY <2>1, <2>2 DEF Byte
<1>3. Piece(n, a, b) \in Seq(Byte)
  BY <1>1, <1>2, SubSeqProperties DEF Piece
<1> QED BY <1>1, <1>3, PieceIs

\* So are parts of a stream.
LEMMA PartOf ==
  ASSUME NEW S, NEW s \in Seq(S), NEW a \in Nat, NEW b \in Nat, b <= Len(s)
  PROVE  SubSeq(s, a + 1, b) \in Seq(S)
<1>1. Len(s) \in Nat /\ a + 1 \in Int /\ b \in Int
  BY LenProperties
<1>2. \A p \in a + 1 .. b : s[p] \in S
  BY <1>1, ElementOfSeq
<1> QED BY <1>1, <1>2, SubSeqProperties

\* What is received is written within the buffer.
LEMMA WrittenBytes ==
  ASSUME NEW S, NEW m \in Nat, NEW buf \in [1 .. m -> S], NEW pos \in Nat, NEW bytes \in Seq(S)
  PROVE  Written(buf, pos, bytes) \in [1 .. m -> S]
<1>1. Len(bytes) \in Nat
  BY LenProperties
<1>2. \A p \in pos + 1 .. pos + Len(bytes) : p - pos \in 1 .. Len(bytes)
  BY <1>1
<1>3. \A p \in pos + 1 .. pos + Len(bytes) : bytes[p - pos] \in S
  BY <1>2, ElementOfSeq
<1> QED BY <1>3 DEF Written

\* A node never has more than a message, and no more than a message comes.
LEMMA HeldFits ==
  ASSUME NEW got, NEW len, NEW due, NEW stream, Held(got, len, due, stream)
  PROVE  /\ got \in 0 .. SIZE - 1 /\ got \in 0 .. MSG_MAX /\ len \in 0 .. MSG_MAX
         /\ stream \in Seq(Byte)
<1>1. SIZE \in Nat /\ SIZE >= 2 /\ MSG_MAX \in Nat /\ SIZE <= MSG_MAX
  BY PathAssumption, ServerAssumption
<1>2. CASE due /\ got = 0 /\ len = SIZE /\ stream = <<>>
  <2>1. <<>> \in Seq(Byte)
    BY EmptySeq
  <2> QED BY <1>1, <1>2, <2>1
<1>3. CASE /\ ~ due
           /\ got \in 0 .. SIZE - 1
           /\ len = IF got = 0 THEN 0 ELSE SIZE
           /\ \E n \in 1 .. COUNT : \E sent \in got .. SIZE : stream = Piece(n, got, sent)
  <2>1. PICK n \in 1 .. COUNT, sent \in got .. SIZE : stream = Piece(n, got, sent)
    BY <1>3
  <2>2. got \in 0 .. SIZE
    BY <1>1, <1>3
  <2>3. stream \in Seq(Byte)
    BY <2>1, <2>2, PieceBytes
  <2> QED BY <1>1, <1>3, <2>3
<1> QED BY <1>2, <1>3 DEF Held

\* A new node holds nothing, and nothing is on the way to it.
LEMMA HeldNothing == Held(0, 0, FALSE, <<>>)
<1>1. /\ SIZE \in Nat /\ SIZE >= 2 /\ 1 \in 1 .. COUNT /\ 1 \in Nat
      /\ 0 \in 0 .. SIZE /\ 0 \in 0 .. SIZE - 1
  BY PathAssumption
<1>2. Piece(1, 0, 0) = <<>>
  BY <1>1, NoPiece
<1> QED BY <1>1, <1>2 DEF Held

\* After the rest of a message, or a part of it, came.
LEMMA HeldReceived ==
  ASSUME NEW got, NEW len, NEW stream, Held(got, len, FALSE, stream),
         NEW buf, NEW k \in 1 .. Len(stream), got + k > 1,
         NEW len2 \in IF len = 0 THEN HeaderLen(Written(buf, got, SubSeq(stream, 1, k))) ELSE {len},
         DOMAIN buf = 1 .. MSG_MAX
  PROVE  Held(IF got + k = len2 THEN 0 ELSE got + k, len2, got + k = len2, Drop(stream, k))
<1>1. PICK n \in 1 .. COUNT, sent \in got .. SIZE : stream = Piece(n, got, sent)
  BY DEF Held
<1>2. /\ got \in 0 .. SIZE - 1 /\ len = (IF got = 0 THEN 0 ELSE SIZE)
      /\ SIZE \in Nat /\ SIZE >= 2 /\ MSG_MAX \in Nat /\ SIZE <= MSG_MAX
  BY PathAssumption, ServerAssumption DEF Held
<1>3. n \in Nat /\ got \in 0 .. SIZE /\ sent \in got .. SIZE /\ sent \in 0 .. SIZE
  BY <1>2, PathAssumption
<1>4. Len(stream) = sent - got
  BY <1>1, <1>3, PieceIs
<1>5. /\ k \in 0 .. sent - got /\ got + k \in 2 .. SIZE /\ got + k \in got .. sent
      /\ sent \in got + k .. SIZE
  BY <1>2, <1>3, <1>4
<1>6. Drop(stream, k) = Piece(n, got + k, sent) /\ SubSeq(stream, 1, k) = Piece(n, got, got + k)
  BY <1>1, <1>3, <1>5, SplitPiece
<1>7. len2 = SIZE
  <2>1. CASE got = 0
    <3> DEFINE b == Written(buf, got, SubSeq(stream, 1, k))
    <3>1. Len(Piece(n, 0, k)) = k /\ Piece(n, 0, k)[1] = <<n, 1>> /\ Piece(n, 0, k)[2] = <<n, 2>>
      <4>1. k \in Nat /\ SIZE \in Nat /\ 2 <= k /\ k <= SIZE
        BY <1>2, <1>4, <1>5, <2>1
      <4>2. 0 \in 0 .. SIZE /\ k \in 0 .. SIZE /\ k - 0 = k
        BY <4>1
      <4>3. 1 \in 1 .. k - 0 /\ 2 \in 1 .. k - 0 /\ 0 + 1 = 1 /\ 0 + 2 = 2
        BY <4>1
      <4>4. k \in 0 .. SIZE /\ Len(Piece(n, 0, k)) = k - 0
        BY <1>3, <4>2, PieceIs
      <4>5. \A p \in 1 .. k - 0 : Piece(n, 0, k)[p] = <<n, 0 + p>>
        BY <1>3, <4>2, PieceIs
      <4> QED BY <4>2, <4>3, <4>4, <4>5
    <3>2. b = Written(buf, 0, Piece(n, 0, k))
      <4>1. SubSeq(stream, 1, k) = Piece(n, 0, k)
        <5>1. 0 + k = k
          BY <1>5
        <5> QED BY <1>6, <2>1, <5>1
      <4> QED BY <2>1, <4>1
    <3>3. /\ 1 \in 0 + 1 .. 0 + k /\ 2 \in 0 + 1 .. 0 + k /\ 1 - 0 = 1 /\ 2 - 0 = 2
          /\ 1 \in 1 .. MSG_MAX /\ 2 \in 1 .. MSG_MAX
      BY <1>2, <1>5, <2>1
    <3>4. b[1] = <<n, 1>> /\ b[2] = <<n, 2>>
      BY <3>1, <3>2, <3>3 DEF Written
    <3> HIDE DEF b
    <3>5. HeaderLen(b) = {SIZE}
      BY <1>3, <3>4, PathAssumption DEF HeaderLen, NoByte
    <3> QED BY <1>2, <2>1, <3>5 DEF b
  <2>2. CASE got # 0
    BY <1>2, <2>2
  <2> QED BY <2>1, <2>2
<1>8. CASE got + k = SIZE
  <2>1. sent = SIZE /\ Piece(n, SIZE, SIZE) = <<>>
    BY <1>2, <1>3, <1>5, <1>8, NoPiece
  <2> QED BY <1>6, <1>7, <1>8, <2>1 DEF Held
<1>9. CASE got + k # SIZE
  <2>1. got + k \in 0 .. SIZE - 1 /\ got + k # 0
    BY <1>2, <1>5, <1>9
  <2> QED BY <1>5, <1>6, <1>7, <1>9, <2>1 DEF Held
<1> QED BY <1>8, <1>9

\* The message of a client that goes on, after a step.
LEMMA LiveHeld ==
  ASSUME IInv', NEW x \in Clients, x \notin narrow', mode_flag' = 0, Live(x)',
         num_tests'[x] \in Nat, num_tests'[x] < COUNT
  PROVE  HeldOf(x)' /\ c2s'[x] \in Seq(Byte) /\ s2c'[x] \in Seq(Bytes)
<1>1. PICK n, sent : n = num_tests'[x] + 1 /\ sent = IF c_pc'[x] = "send" THEN cnt'[x] ELSE SIZE
  OBVIOUS
<1>2. /\ n \in 1 .. COUNT /\ SIZE \in Nat /\ SIZE >= 2 /\ n \in Nat
      /\ cnt'[x] \in 0 .. SIZE - 1
      /\ Coming(x)' \/ Complete(x)' \/ Returning(x)'
  BY <1>1, PathAssumption DEF IInv, Exchange
<1>3. <<>> \in Seq(Byte) /\ <<>> \in Seq(Bytes)
  BY EmptySeq
<1>4. CASE Coming(x)'
  <2>1. /\ ~ pending_data'[x] /\ s2c'[x] = <<>>
        /\ added_pos'[x] \in 0 .. SIZE - 1 /\ sent \in added_pos'[x] .. SIZE
        /\ c2s'[x] = Piece(n, added_pos'[x], sent)
        /\ len_buffer'[x] = IF added_pos'[x] = 0 THEN 0 ELSE SIZE
    BY <1>1, <1>2, <1>4 DEF Coming
  <2>2. Held(added_pos'[x], len_buffer'[x], pending_data'[x], c2s'[x])
    BY <1>2, <2>1 DEF Held
  <2>3. c2s'[x] \in Seq(Byte)
    BY <2>2, HeldFits
  <2> QED BY <1>3, <2>1, <2>2, <2>3 DEF HeldOf
<1>5. CASE Complete(x)'
  <2>1. Held(added_pos'[x], len_buffer'[x], pending_data'[x], c2s'[x]) /\ c2s'[x] = <<>> /\ s2c'[x] = <<>>
    BY <1>5 DEF Complete, Held
  <2> QED BY <1>3, <2>1 DEF HeldOf
<1>6. CASE Returning(x)'
  <2>1. /\ ~ pending_data'[x] /\ added_pos'[x] = 0 /\ len_buffer'[x] = 0
        /\ c2s'[x] = <<>> /\ s2c'[x] = Message(n)
    BY <1>1, <1>6 DEF Returning
  <2>2. Held(added_pos'[x], len_buffer'[x], pending_data'[x], c2s'[x])
    BY <2>1, HeldNothing DEF Held
  <2>3. Message(n) \in Seq(Byte)
    <3>1. 0 \in 0 .. SIZE /\ SIZE \in 0 .. SIZE
      BY <1>2
    <3>2. Piece(n, 0, SIZE) \in Seq(Byte)
      BY <1>2, <3>1, PieceBytes
    <3> QED BY <1>2, <3>2, WholePiece
  <2>4. Message(n) \in Seq(Bytes)
    BY <2>3 DEF Bytes
  <2> QED BY <1>3, <2>1, <2>2, <2>4 DEF HeldOf
<1> QED BY <1>2, <1>4, <1>5, <1>6

\* The node of x changes, or what is under way to it.
LEMMA NodeTyped ==
  ASSUME NodeTypes, NEW x \in Clients,
         NEW b \in [1 .. MSG_MAX -> Bytes], NEW got, NEW len, NEW due \in BOOLEAN,
         buffer' = [buffer EXCEPT ![x] = b],
         added_pos' = [added_pos EXCEPT ![x] = got],
         len_buffer' = [len_buffer EXCEPT ![x] = len],
         pending_data' = [pending_data EXCEPT ![x] = due],
         \A c \in Clients \ {x} : c2s'[c] = c2s[c],
         narrow' = narrow, got \in 0 .. MSG_MAX, len \in 0 .. MSG_MAX,
         x \notin narrow => Held(got, len, due, c2s'[x])
  PROVE  NodeTypes'
<1>2. /\ buffer' \in [Clients -> [1 .. MSG_MAX -> Bytes]]
      /\ added_pos' \in [Clients -> 0 .. MSG_MAX]
      /\ len_buffer' \in [Clients -> 0 .. MSG_MAX]
  BY DEF NodeTypes
<1>3. pending_data' \in [Clients -> BOOLEAN]
  BY DEF NodeTypes
<1>4. ASSUME NEW c \in Clients \ narrow
      PROVE  Held(added_pos'[c], len_buffer'[c], pending_data'[c], c2s'[c])
  <2>1. CASE c = x
    <3>1. added_pos'[c] = got /\ len_buffer'[c] = len /\ pending_data'[c] = due
      BY <2>1 DEF NodeTypes
    <3> QED BY <2>1, <3>1
  <2>2. CASE c # x
    <3>1. /\ added_pos'[c] = added_pos[c] /\ len_buffer'[c] = len_buffer[c]
          /\ pending_data'[c] = pending_data[c] /\ c2s'[c] = c2s[c]
      BY <2>2 DEF NodeTypes
    <3> QED BY <3>1 DEF NodeTypes, HeldOf
  <2> QED BY <2>1, <2>2
<1> QED BY <1>2, <1>3, <1>4 DEF NodeTypes, HeldOf

\* Streams and nodes as they were.
LEMMA SameData ==
  ASSUME TypeInv, UNCHANGED <<pathVars, cbuf, nodeVars, setup>>
  PROVE  StreamTypes' /\ NodeTypes' /\ narrow' = narrow
BY DEF TypeInv, StreamTypes, NodeTypes, HeldOf, Width, pathVars, nodeVars, setup

LEMMA SameNodes ==
  ASSUME TypeInv, UNCHANGED <<nodeVars, setup>>, Members(backlog') \subseteq Members(backlog)
  PROVE  NewNodes'
BY DEF TypeInv, NewNodes, Fresh, nodeVars, setup

\* The walk over the list.
LEMMA WalkTypes ==
  ASSUME TypeInv, IInv, s_pc \in {"write", "read"}, UNCHANGED <<read_set, write_set>>,
         \/ s_pc' = "read" /\ UNCHANGED todo
         \/ Advance
         \/ s_pc' = "crashed" /\ UNCHANGED todo,
         broken' \subseteq Clients
  PROVE  LoopTypes'
<1>1. todo \in Seq(Clients) /\ todo # <<>>
  BY DEF IInv, Walk
<1>2. Tail(todo) \in Seq(Clients)
  BY <1>1, HeadTailProperties
<1> QED BY <1>1, <1>2 DEF TypeInv, LoopTypes, Advance, Steps

\* The counters of a client that ends, or of a browser.
LEMMA CountsKept ==
  ASSUME TypeInv, NEW x \in Clients, NEW pc \in {"start", "send", "recv", "done", "killed"},
         c_pc' = [c_pc EXCEPT ![x] = pc], Unfinished(x),
         UNCHANGED num_tests, cnt' = cnt \/ cnt' = [cnt EXCEPT ![x] = 0]
  PROVE  CountTypes'
<1>1. SIZE \in Nat /\ SIZE >= 2 /\ 0 \in 0 .. SIZE - 1
  BY PathAssumption
<1>2. cnt' \in [Clients -> 0 .. SIZE - 1]
  BY <1>1 DEF TypeInv, CountTypes
<1> QED BY <1>2 DEF TypeInv, CountTypes, Unfinished

-----------------------------------------------------------------------------
(* Types in the steps of the clients. *)

LEMMA ClientSendTypes ==
  ASSUME TypeInv, IInv, IInv', NEW x \in Clients, mode_flag = 0,
         ClientSend(x), UNCHANGED <<serverVars, setup>>
  PROVE  TypeInv'
<1>1. PICK k \in 1 .. Lesser(SIZE - cnt[x], Room(x, c2s[x])) :
        /\ c2s' = [c2s EXCEPT ![x] = @ \o SubSeq(Message(num_tests[x] + 1), cnt[x] + 1, cnt[x] + k)]
        /\ \/ cnt[x] + k < SIZE /\ cnt' = [cnt EXCEPT ![x] = cnt[x] + k] /\ UNCHANGED c_pc
           \/ cnt' = [cnt EXCEPT ![x] = 0] /\ c_pc' = [c_pc EXCEPT ![x] = "recv"]
  BY DEF ClientSend
<1>2. /\ c_pc[x] = "send"
      /\ UNCHANGED <<s2c, num_tests, cbuf, nodeVars, loopVars, buffer, added_pos, len_buffer, pending_data>>
      /\ narrow' = narrow /\ mode_flag' = 0
  BY DEF ClientSend, serverVars, nodeVars, setup, TypeInv
<1>3. /\ c_pc \in [Clients -> {"start", "send", "recv", "done", "killed"}]
      /\ cnt \in [Clients -> 0 .. SIZE - 1] /\ num_tests \in [Clients -> 0 .. COUNT]
      /\ num_tests[x] < COUNT /\ SIZE \in Nat /\ COUNT \in Nat
  BY <1>2, PathAssumption DEF TypeInv, CountTypes, Unfinished
<1>4. CountTypes'
  <2>1. k \in Nat /\ (cnt[x] + k < SIZE => cnt[x] + k \in 0 .. SIZE - 1) /\ 0 \in 0 .. SIZE - 1
    BY <1>1, <1>3
  <2>2. cnt' \in [Clients -> 0 .. SIZE - 1]
    BY <1>1, <1>3, <2>1
  <2>3. c_pc' \in [Clients -> {"start", "send", "recv", "done", "killed"}]
    BY <1>1, <1>3
  <2>4. \A c \in Clients : Unfinished(c)' => Unfinished(c)
    BY <1>1, <1>2, <1>3 DEF Unfinished
  <2> QED BY <1>2, <1>3, <2>2, <2>3, <2>4 DEF TypeInv, CountTypes
<1>5. c2s'[x] \in Seq(Byte)
  <2>1. c2s[x] \in Seq(Byte) /\ Len(c2s[x]) \in Nat /\ Width(x) \in Nat
    BY LenProperties, PathAssumption DEF TypeInv, StreamTypes, Width
  <2>2. /\ num_tests[x] + 1 \in 1 .. COUNT /\ cnt[x] \in 0 .. SIZE
        /\ cnt[x] + k \in cnt[x] .. SIZE
    BY <1>1, <1>3, <2>1, SMTT(30) DEF Lesser, Room
  <2>3. Piece(num_tests[x] + 1, cnt[x], cnt[x] + k) \in Seq(Byte)
    BY <2>2, PieceBytes
  <2>4. c2s'[x] = c2s[x] \o Piece(num_tests[x] + 1, cnt[x], cnt[x] + k)
    BY <1>1 DEF TypeInv, StreamTypes, Piece
  <2> QED BY <2>1, <2>3, <2>4, ConcatProperties
<1>6. x \notin narrow => HeldOf(x)'
  <2>1. Live(x)'
    BY <1>1, <1>2, <1>3 DEF Live
  <2> QED BY <1>2, <1>3, <2>1, LiveHeld
<1>7. StreamTypes'
  BY <1>1, <1>2, <1>5 DEF TypeInv, StreamTypes, Width
<1>8. NodeTypes'
  <2>1. \A c \in Clients \ {x} : c2s'[c] = c2s[c]
    BY <1>1 DEF TypeInv, StreamTypes
  <2> QED BY <1>2, <1>6, <2>1 DEF TypeInv, NodeTypes, HeldOf
<1>9. LoopTypes' /\ NewNodes'
  BY <1>2 DEF TypeInv, LoopTypes, NewNodes, Fresh, loopVars
<1> QED BY <1>2, <1>4, <1>7, <1>8, <1>9 DEF TypeInv

LEMMA ClientRecvTypes ==
  ASSUME TypeInv, NEW x \in Clients, ClientRecv(x), UNCHANGED <<serverVars, setup>>
  PROVE  TypeInv'
<1>1. PICK k \in IF x \in narrow THEN Portions(s2c[x], SIZE - cnt[x]) ELSE Whole(s2c[x], SIZE - cnt[x]) :
        /\ s2c' = [s2c EXCEPT ![x] = Drop(@, k)]
        /\ cbuf' = [cbuf EXCEPT ![x] = Written(@, cnt[x], SubSeq(s2c[x], 1, k))]
        /\ \/ k < SIZE /\ cnt' = [cnt EXCEPT ![x] = k] /\ UNCHANGED <<c_pc, num_tests>>
           \/ /\ cnt' = [cnt EXCEPT ![x] = 0]
              /\ num_tests' = [num_tests EXCEPT ![x] = @ + 1]
              /\ c_pc' = [c_pc EXCEPT ![x] = IF num_tests'[x] < COUNT THEN "send" ELSE "done"]
  BY DEF ClientRecv
<1>2. /\ c_pc[x] = "recv" /\ narrow' = narrow
      /\ UNCHANGED <<c2s, nodeVars, loopVars, buffer, added_pos, len_buffer, pending_data>>
  BY DEF ClientRecv, serverVars, nodeVars, setup, TypeInv
<1>3. /\ c_pc \in [Clients -> {"start", "send", "recv", "done", "killed"}]
      /\ cnt \in [Clients -> 0 .. SIZE - 1] /\ num_tests \in [Clients -> 0 .. COUNT]
      /\ num_tests[x] < COUNT /\ SIZE \in Nat /\ SIZE >= 2 /\ COUNT \in Nat
      /\ \A c \in Clients : Unfinished(c) => num_tests[c] < COUNT
  BY <1>2, PathAssumption DEF TypeInv, CountTypes, Unfinished
<1>4. s2c[x] \in Seq(Bytes) /\ cbuf[x] \in [1 .. SIZE -> Bytes] /\ Len(s2c[x]) \in Nat
  BY LenProperties DEF TypeInv, StreamTypes
<1>5. k \in Nat /\ k <= Len(s2c[x]) /\ cnt[x] \in Nat /\ num_tests[x] \in Nat
  <2>1. SIZE - cnt[x] \in Nat /\ cnt[x] \in Nat /\ num_tests[x] \in Nat
    BY <1>3
  <2>2. CASE x \in narrow
    BY <1>1, <1>4, <2>1, <2>2 DEF Portions, Lesser
  <2>3. CASE x \notin narrow
    BY <1>1, <1>4, <2>1, <2>3 DEF Whole, Lesser
  <2> QED BY <2>1, <2>2, <2>3
<1>6. CountTypes'
  <2>1. CASE k < SIZE /\ cnt' = [cnt EXCEPT ![x] = k] /\ UNCHANGED <<c_pc, num_tests>>
    BY <1>3, <1>5, <2>1 DEF CountTypes, Unfinished
  <2>2. CASE /\ cnt' = [cnt EXCEPT ![x] = 0]
             /\ num_tests' = [num_tests EXCEPT ![x] = @ + 1]
             /\ c_pc' = [c_pc EXCEPT ![x] = IF num_tests'[x] < COUNT THEN "send" ELSE "done"]
    <3>1. num_tests' \in [Clients -> 0 .. COUNT] /\ cnt' \in [Clients -> 0 .. SIZE - 1]
      BY <1>3, <1>5, <2>2
    <3>2. c_pc' \in [Clients -> {"start", "send", "recv", "done", "killed"}]
      BY <1>3, <2>2
    <3>3. ASSUME NEW c \in Clients, Unfinished(c)'
          PROVE  num_tests'[c] < COUNT
      <4>1. CASE c = x
        BY <1>3, <2>2, <3>3, <4>1 DEF Unfinished
      <4>2. CASE c # x
        BY <1>3, <2>2, <3>3, <4>2 DEF Unfinished
      <4> QED BY <4>1, <4>2
    <3> QED BY <3>1, <3>2, <3>3 DEF CountTypes
  <2> QED BY <1>1, <2>1, <2>2
<1>7. StreamTypes'
  <2>1. SubSeq(s2c[x], k + 1, Len(s2c[x])) \in Seq(Bytes)
    BY <1>4, <1>5, PartOf
  <2>2. SubSeq(s2c[x], 1, k) \in Seq(Bytes)
    <3>1. SubSeq(s2c[x], 0 + 1, k) \in Seq(Bytes)
      BY <1>4, <1>5, PartOf
    <3> QED BY <3>1
  <2>3. Written(cbuf[x], cnt[x], SubSeq(s2c[x], 1, k)) \in [1 .. SIZE -> Bytes]
    BY <1>3, <1>4, <1>5, <2>2, WrittenBytes
  <2>4. Len(Drop(s2c[x], k)) <= Width(x)
    <3>1. Len(Drop(s2c[x], k)) = IF k + 1 <= Len(s2c[x]) THEN Len(s2c[x]) - (k + 1) + 1 ELSE 0
      <4>1. k + 1 \in Int /\ Len(s2c[x]) \in Int
        BY <1>4, <1>5
      <4>2. \A p \in k + 1 .. Len(s2c[x]) : s2c[x][p] \in Bytes
        BY <1>4, <1>5, ElementOfSeq
      <4> QED BY <4>1, <4>2, SubSeqProperties DEF Drop
    <3>2. Len(s2c[x]) <= Width(x) /\ Width(x) \in Nat
      BY PathAssumption DEF TypeInv, StreamTypes, Width
    <3> QED BY <1>4, <1>5, <3>1, <3>2
  <2>5. /\ s2c' \in [Clients -> Seq(Bytes)] /\ cbuf' \in [Clients -> [1 .. SIZE -> Bytes]]
        /\ c2s' \in [Clients -> Seq(Byte)]
    BY <1>1, <1>2, <2>1, <2>3 DEF TypeInv, StreamTypes, Drop
  <2>6. \A c \in Clients : Len(s2c'[c]) <= Width(c)'
    BY <1>1, <1>2, <2>4 DEF TypeInv, StreamTypes, Width
  <2> QED BY <2>5, <2>6 DEF StreamTypes
<1>8. NodeTypes'
  BY <1>2 DEF TypeInv, NodeTypes, HeldOf
<1>9. LoopTypes' /\ NewNodes'
  BY <1>2 DEF TypeInv, LoopTypes, NewNodes, Fresh, loopVars
<1> QED BY <1>2, <1>6, <1>7, <1>8, <1>9 DEF TypeInv

\* A client is killed, meets the end of the server, or is a browser.
LEMMA ClientEndsTypes ==
  ASSUME TypeInv, NEW x \in Clients, UNCHANGED setup,
         \/ BrowserSend(x) \/ BrowserEnd(x) \/ ServerLost(x)
         \/ ClientKilled(x) /\ UNCHANGED serverVars
  PROVE  TypeInv'
<1>1. /\ UNCHANGED <<pathVars, num_tests, cbuf, serverVars>> /\ Unfinished(x)
      /\ cnt' = cnt \/ cnt' = [cnt EXCEPT ![x] = 0]
  BY DEF BrowserSend, BrowserEnd, ServerLost, ClientKilled, Unfinished
<1>2. \E pc \in {"start", "send", "recv", "done", "killed"} : c_pc' = [c_pc EXCEPT ![x] = pc]
  <2>1. c_pc' = c_pc \/ \E pc \in {"start", "send", "recv", "done", "killed"} : c_pc' = [c_pc EXCEPT ![x] = pc]
    <3>1. CASE BrowserSend(x)
      <4>1. \E k \in Some(PIECES - asked[x]) :
              c_pc' = [c_pc EXCEPT ![x] = IF asked[x] + k = PIECES THEN "recv" ELSE @]
        BY <3>1 DEF BrowserSend
      <4>2. c_pc[x] = "send"
        BY <3>1 DEF BrowserSend
      <4> QED BY <4>1, <4>2
    <3> QED BY <3>1 DEF BrowserEnd, ServerLost, ClientKilled
  <2>2. c_pc' = c_pc => c_pc' = [c_pc EXCEPT ![x] = c_pc[x]]
    BY DEF TypeInv, CountTypes
  <2>3. c_pc[x] \in {"start", "send", "recv", "done", "killed"}
    BY DEF TypeInv, CountTypes
  <2> QED BY <2>1, <2>2, <2>3
<1>3. CountTypes'
  BY <1>1, <1>2, CountsKept
<1>4. StreamTypes' /\ NodeTypes' /\ narrow' = narrow
  BY <1>1, SameData DEF serverVars
<1>5. LoopTypes' /\ NewNodes'
  BY <1>1, <1>4 DEF TypeInv, LoopTypes, NewNodes, Fresh, serverVars, loopVars, nodeVars
<1> QED BY <1>3, <1>4, <1>5 DEF TypeInv

\* A client connects: its node, if it has one before, has never been used.
LEMMA ClientConnectTypes ==
  ASSUME TypeInv, IInv, NEW x \in Clients, ClientConnect(x), UNCHANGED setup
  PROVE  TypeInv'
<1>1. /\ c_pc[x] = "start" /\ c_pc' = [c_pc EXCEPT ![x] = "send"] /\ backlog' = Append(backlog, x)
      /\ UNCHANGED <<pathVars, cnt, num_tests, cbuf, nodeVars, s_pc, todo, read_set, write_set, broken>>
  BY DEF ClientConnect
<1>2. CountTypes'
  BY <1>1, CountsKept DEF Unfinished
<1>3. StreamTypes' /\ NodeTypes' /\ narrow' = narrow
  BY <1>1, SameData
<1>4. LoopTypes'
  BY <1>1 DEF TypeInv, LoopTypes
<1>5. x \notin narrow => Fresh(x)
  BY <1>1 DEF IInv, Exchange, Unused
<1>6. Members(backlog') = Members(backlog) \cup {x}
  <2>1. backlog \in Seq(Clients) /\ Once(backlog) /\ x \notin Members(backlog)
    BY <1>1 DEF IInv, Lists
  <2> QED BY <1>1, <2>1, AppendMembers
<1>7. NewNodes'
  BY <1>1, <1>3, <1>5, <1>6 DEF TypeInv, NewNodes, Fresh, nodeVars
<1> QED BY <1>2, <1>3, <1>4, <1>7 DEF TypeInv

-----------------------------------------------------------------------------
(* Types in the steps of the server. *)

\* Steps that touch neither a stream nor a node.
LEMMA LoopStepTypes ==
  ASSUME TypeInv, UNCHANGED <<pathVars, clientVars, nodeVars, setup>>,
         Members(backlog') \subseteq Members(backlog), LoopTypes'
  PROVE  TypeInv'
<1>1. StreamTypes' /\ NodeTypes' /\ narrow' = narrow
  BY SameData DEF clientVars
<1>2. CountTypes'
  BY DEF TypeInv, CountTypes, Unfinished, clientVars
<1>3. NewNodes'
  BY SameNodes
<1> QED BY <1>1, <1>2, <1>3 DEF TypeInv

LEMMA SelectTypes ==
  ASSUME TypeInv, IInv, Select, UNCHANGED setup
  PROVE  TypeInv'
<1>1. /\ UNCHANGED <<pathVars, clientVars, nodeVars, backlog, nodes, broken>>
      /\ read_set' = {c \in NodeSet : Readable(c)}
      /\ write_set' = {c \in NodeSet : pending_data[c] /\ Writable(c)}
      /\ s_pc' \in {"accept", "write"} /\ todo' = nodes
  BY DEF Select
<1>2. nodes \in Seq(Clients) /\ NodeSet \subseteq Clients
  <2>1. nodes \in Seq(Clients)
    BY DEF IInv, Lists
  <2> QED BY <2>1, ElementOfSeq DEF NodeSet
<1>3. LoopTypes'
  BY <1>1, <1>2 DEF TypeInv, LoopTypes, Steps
<1> QED BY <1>1, <1>3, LoopStepTypes

\* The visits that touch neither, and those that end with the node dumped.
LEMMA VisitTypes ==
  ASSUME TypeInv, IInv, NEW x \in Clients, UNCHANGED setup,
         \/ NotWritable(x) \/ ServerSigPipe(x) \/ NotReadable(x)
         \/ ServerSendError(x) \/ ServerRecvEnd(x)
  PROVE  TypeInv'
<1>1. /\ s_pc \in {"write", "read"}
      /\ UNCHANGED <<pathVars, clientVars, nodeVars, backlog, read_set, write_set, broken>>
      /\ \/ s_pc' = "read" /\ UNCHANGED todo
         \/ Advance
         \/ s_pc' = "crashed" /\ UNCHANGED todo
  BY DEF NotWritable, ServerSigPipe, NotReadable, ServerSendError, ServerRecvEnd, AtWrite, AtRead,
         ReadFreed
<1>2. broken' \subseteq Clients
  BY <1>1 DEF TypeInv, LoopTypes
<1>3. LoopTypes'
  BY <1>1, <1>2, WalkTypes
<1> QED BY <1>1, <1>3, LoopStepTypes

\* The web server.
LEMMA WebTypes ==
  ASSUME TypeInv, IInv, WInv, WebNext, UNCHANGED setup
  PROVE  TypeInv'
<1>1. /\ UNCHANGED <<pathVars, clientVars, nodeVars, todo, read_set, write_set>>
      /\ s_pc' \in Steps
  BY DEF WebNext, WebAccept, WebRecv, WebNull, WebValid, WebExists, WebAccess, WebSend, WebSendFails,
         WebClose, Report, frame, processFrame, Steps
<1>2. Members(backlog') \subseteq Members(backlog)
  <2>1. CASE WebAccept
    <3>1. backlog \in Seq(Clients) /\ backlog # <<>> /\ Once(backlog) /\ backlog' = Tail(backlog)
      BY <2>1 DEF IInv, Lists, Walk, WebAccept
    <3> QED BY <3>1, TailMembers
  <2>2. CASE ~ WebAccept
    <3>1. backlog' = backlog
      BY <2>2 DEF WebNext, WebRecv, WebNull, WebValid, WebExists, WebAccess, WebSend, WebSendFails,
                  WebClose, Report, processFrame
    <3> QED BY <3>1
  <2> QED BY <2>1, <2>2
<1>3. broken' \subseteq Clients
  <2>1. broken' = broken \/ (s_pc = "send" /\ broken' = broken \cup {new_sock})
    BY DEF WebNext, WebAccept, WebRecv, WebNull, WebValid, WebExists, WebAccess, WebSend, WebSendFails,
           WebClose, Report, processFrame
  <2>2. s_pc = "send" => new_sock \in Clients
    BY DEF WInv, Served, Serving
  <2> QED BY <2>1, <2>2 DEF TypeInv, LoopTypes
<1>4. LoopTypes'
  BY <1>1, <1>3 DEF TypeInv, LoopTypes
<1> QED BY <1>1, <1>2, <1>4, LoopStepTypes

\* A client is accepted, if it was killed before, too.
LEMMA AcceptTypes ==
  ASSUME TypeInv, IInv, Accept, UNCHANGED setup
  PROVE  TypeInv'
<1>1. PICK x : x = Head(backlog)
  OBVIOUS
<1>2. /\ s_pc = "accept"
      /\ backlog' = Tail(backlog) /\ nodes' = <<x>> \o nodes /\ todo' = nodes' /\ s_pc' = "write"
      /\ buffer' = [buffer EXCEPT ![x] = [p \in 1 .. MSG_MAX |-> NoByte]]
      /\ added_pos' = [added_pos EXCEPT ![x] = 0]
      /\ len_buffer' = [len_buffer EXCEPT ![x] = 0]
      /\ pending_data' = [pending_data EXCEPT ![x] = FALSE]
      /\ UNCHANGED <<pathVars, clientVars, read_set, write_set, broken>>
  BY <1>1 DEF Accept
<1>3. backlog \in Seq(Clients) /\ backlog # <<>> /\ Once(backlog) /\ nodes \in Seq(Clients)
  BY <1>2 DEF IInv, Walk, Lists
<1>4. /\ x \in Clients /\ x \in Members(backlog)
      /\ Members(backlog') = Members(backlog) \ {x}
  BY <1>1, <1>2, <1>3, TailMembers, HeadTailProperties
<1>5. x \notin narrow => Fresh(x) /\ HeldOf(x)
  BY <1>4 DEF TypeInv, NewNodes, NodeTypes
<1>6. ASSUME x \notin narrow
      PROVE  Held(0, 0, FALSE, c2s'[x])
  <2>1. c2s' = c2s /\ added_pos[x] = 0 /\ len_buffer[x] = 0 /\ ~ pending_data[x]
    BY <1>2, <1>5, <1>6 DEF Fresh, pathVars
  <2> QED BY <1>5, <1>6, <2>1 DEF HeldOf, Held
<1>7. NodeTypes'
  <2>1. [p \in 1 .. MSG_MAX |-> NoByte] \in [1 .. MSG_MAX -> Bytes]
    BY DEF Bytes
  <2>2. c2s' = c2s /\ narrow' = narrow
    BY <1>2 DEF pathVars, setup
  <2>3. 0 \in 0 .. MSG_MAX
    BY ServerAssumption, PathAssumption
  <2>4. NodeTypes
    BY DEF TypeInv
  <2> QED BY <1>2, <1>4, <1>6, <2>1, <2>2, <2>3, <2>4, NodeTyped
<1>8. StreamTypes' /\ CountTypes' /\ narrow' = narrow
  BY <1>2 DEF TypeInv, StreamTypes, CountTypes, Unfinished, Width, pathVars, clientVars, setup
<1>9. LoopTypes'
  <2>1. <<x>> \in Seq(Clients)
    BY <1>4
  <2>2. nodes' \in Seq(Clients)
    BY <1>2, <1>3, <2>1, ConcatProperties
  <2> QED BY <1>2, <2>2 DEF TypeInv, LoopTypes, Steps
<1>10. NewNodes'
  <2>1. \A c \in Clients \ {x} : Fresh(c) => Fresh(c)'
    BY <1>2 DEF Fresh
  <2>2. \A c \in Members(backlog') : c \in Clients
    BY <1>3, <1>4, ElementOfSeq DEF Members
  <2> QED BY <1>4, <1>8, <2>1, <2>2 DEF TypeInv, NewNodes
<1> QED BY <1>7, <1>8, <1>9, <1>10 DEF TypeInv

\* A visit that changes the node of x or its streams.
LEMMA VisitedTypes ==
  ASSUME TypeInv, IInv, NEW x \in Clients, s_pc \in {"write", "read"}, x = Head(todo),
         UNCHANGED <<clientVars, backlog, read_set, write_set, setup>>,
         \/ s_pc' = "read" /\ UNCHANGED todo
         \/ Advance,
         broken' \subseteq Clients,
         \A c \in Clients \ {x} : SameNode(c),
         c2s' \in [Clients -> Seq(Byte)], s2c' \in [Clients -> Seq(Bytes)],
         \A c \in Clients : Len(s2c'[c]) <= Width(c),
         NodeTypes'
  PROVE  TypeInv'
<1>1. CountTypes' /\ StreamTypes' /\ narrow' = narrow
  BY DEF TypeInv, CountTypes, Unfinished, StreamTypes, Width, clientVars, setup
<1>2. LoopTypes'
  BY WalkTypes
<1>3. NewNodes'
  <2>1. /\ x \in Members(nodes) /\ Members(nodes) \cap Members(backlog) = {}
        /\ backlog \in Seq(Clients)
    BY Visited DEF IInv, Lists
  <2>2. Members(backlog) \subseteq Clients
    BY <2>1, ElementOfSeq DEF Members
  <2>3. x \notin Members(backlog)
    BY <2>1
  <2>4. \A c \in Members(backlog) \ narrow : SameNode(c) /\ Fresh(c)
    BY <2>2, <2>3 DEF TypeInv, NewNodes
  <2>5. \A c \in Members(backlog) \ narrow : Fresh(c)'
    BY <2>4 DEF SameNode, Fresh
  <2> QED BY <1>1, <2>5 DEF NewNodes
<1> QED BY <1>1, <1>2, <1>3 DEF TypeInv

\* What send takes and what it reads.
LEMMA TakenFits ==
  ASSUME TypeInv, NEW x \in Clients, NEW room \in 0 .. MSG_MAX
  PROVE  Taken(x, room) \in 0 .. room /\ Taken(x, room) \in 0 .. MSG_MAX
<1>1. PICK want \in Int : want = len_buffer[x] - added_pos[x]
  BY ServerAssumption DEF TypeInv, NodeTypes
<1>2. Taken(x, room) = IF want < 0 THEN room ELSE Lesser(want, room)
  BY <1>1 DEF Taken
<1>3. MSG_MAX \in Nat
  BY ServerAssumption
<1> QED BY <1>2, <1>3 DEF Lesser

LEMMA BehindBytes ==
  ASSUME NEW buf \in [1 .. MSG_MAX -> Bytes], NEW pos, NEW k \in Nat
  PROVE  Behind(buf, pos, k) \in Seq(Bytes) /\ Len(Behind(buf, pos, k)) = k
<1>1. \A p \in 1 .. k : (IF pos + p \in DOMAIN buf THEN buf[pos + p] ELSE NoByte) \in Bytes
  BY DEF Bytes
<1>2. PICK s : s = Behind(buf, pos, k)
  OBVIOUS
<1>3. s \in [1 .. k -> Bytes]
  BY <1>1, <1>2 DEF Behind
<1>4. s \in Seq(Bytes)
  BY <1>3, SeqDef
<1>5. Len(s) = k
  BY <1>3, <1>4, LenProperties
<1> QED BY <1>2, <1>4, <1>5

\* The node after k bytes of it were sent.
LEMMA AfterSendTypes ==
  ASSUME TypeInv, NEW x \in Clients, NEW k \in 0 .. MSG_MAX, AfterSend(x, k),
         UNCHANGED <<buffer, c2s, narrow>>, x \notin narrow => HeldOf(x)'
  PROVE  NodeTypes' /\ \A c \in Clients \ {x} : SameNode(c)
<1>1. /\ added_pos' = [added_pos EXCEPT ![x] = IF k = len_buffer[x] THEN 0 ELSE k]
      /\ pending_data' = [pending_data EXCEPT ![x] = @ /\ ~ (k = len_buffer[x])]
      /\ len_buffer' = [len_buffer EXCEPT ![x] = IF k = len_buffer[x] THEN 0 ELSE @]
  BY DEF AfterSend
<1>2. \A c \in Clients \ {x} : SameNode(c)
  BY <1>1 DEF TypeInv, NodeTypes, SameNode
<1>3. NodeTypes'
  <2> DEFINE got == IF k = len_buffer[x] THEN 0 ELSE k
             len == IF k = len_buffer[x] THEN 0 ELSE len_buffer[x]
             due == pending_data[x] /\ ~ (k = len_buffer[x])
  <2>1. /\ added_pos' = [added_pos EXCEPT ![x] = got]
        /\ len_buffer' = [len_buffer EXCEPT ![x] = len]
    BY <1>1
  <2>2. pending_data' = [pending_data EXCEPT ![x] = due] /\ due \in BOOLEAN
    BY <1>1
  <2>3. buffer' = [buffer EXCEPT ![x] = buffer[x]] /\ buffer[x] \in [1 .. MSG_MAX -> Bytes]
    BY DEF TypeInv, NodeTypes
  <2>4. added_pos'[x] = got /\ len_buffer'[x] = len /\ pending_data'[x] = due
    BY <2>1, <2>2 DEF TypeInv, NodeTypes
  <2>5. got \in 0 .. MSG_MAX /\ len \in 0 .. MSG_MAX
    BY ServerAssumption DEF TypeInv, NodeTypes
  <2> HIDE DEF got, len, due
  <2>6. x \notin narrow => Held(got, len, due, c2s'[x])
    BY <2>4 DEF HeldOf
  <2>7. \A c \in Clients \ {x} : c2s'[c] = c2s[c]
    OBVIOUS
  <2>8. NodeTypes
    BY DEF TypeInv
  <2> QED BY <2>1, <2>2, <2>3, <2>5, <2>6, <2>7, <2>8, NodeTyped
<1> QED BY <1>2, <1>3

\* Bytes are sent, as many as there is room for.
LEMMA ServerSendTypes ==
  ASSUME TypeInv, IInv, IInv', NEW x \in Clients, ServerSend(x), UNCHANGED setup
  PROVE  TypeInv'
<1>1. PICK k : k = Taken(x, Room(x, s2c[x]))
  OBVIOUS
<1>2. /\ s_pc = "write" /\ x = Head(todo) /\ ~ Gone(x) /\ s_pc' = "read"
      /\ s2c' = [s2c EXCEPT ![x] = @ \o Behind(buffer[x], added_pos[x], k)]
      /\ AfterSend(x, k)
      /\ UNCHANGED <<c2s, clientVars, buffer, backlog, nodes, todo, read_set, write_set, broken>>
  BY <1>1 DEF ServerSend, AtWrite
<1>3. Live(x) /\ mode_flag = 0
  <2>1. mode_flag = 0 /\ c_pc[x] # "start"
    BY <1>2, Visited
  <2> QED BY <1>2, <2>1 DEF TypeInv, CountTypes, Live, Gone
<1>4. x \notin narrow => HeldOf(x)'
  <2>1. /\ narrow' = narrow /\ mode_flag' = 0 /\ Live(x)'
        /\ num_tests'[x] \in Nat /\ num_tests'[x] < COUNT
    BY <1>2, <1>3 DEF TypeInv, CountTypes, Unfinished, Live, clientVars, setup
  <2> QED BY <2>1, LiveHeld
<1>5. /\ s2c[x] \in Seq(Bytes) /\ Len(s2c[x]) \in Nat
      /\ Width(x) \in Nat /\ Width(x) <= MSG_MAX /\ Len(s2c[x]) <= Width(x)
  BY PathAssumption, ServerAssumption, LenProperties DEF TypeInv, StreamTypes, Width
<1>6. k \in 0 .. Room(x, s2c[x]) /\ k \in 0 .. MSG_MAX
  <2>1. Room(x, s2c[x]) \in 0 .. MSG_MAX
    BY <1>5, ServerAssumption DEF Room
  <2> QED BY <1>1, <2>1, TakenFits
<1>7. /\ s2c'[x] \in Seq(Bytes)
      /\ Len(s2c'[x]) <= Width(x)
  <2>1. buffer[x] \in [1 .. MSG_MAX -> Bytes] /\ k \in Nat
    BY <1>6 DEF TypeInv, NodeTypes
  <2>2. /\ Behind(buffer[x], added_pos[x], k) \in Seq(Bytes)
        /\ Len(Behind(buffer[x], added_pos[x], k)) = k
    BY <2>1, BehindBytes
  <2>3. s2c'[x] = s2c[x] \o Behind(buffer[x], added_pos[x], k)
    BY <1>2 DEF TypeInv, StreamTypes
  <2>4. s2c'[x] \in Seq(Bytes) /\ Len(s2c'[x]) = Len(s2c[x]) + k
    <3>1. PICK old, new : old = s2c[x] /\ new = Behind(buffer[x], added_pos[x], k)
      OBVIOUS
    <3>2. old \in Seq(Bytes) /\ new \in Seq(Bytes) /\ Len(new) = k
      BY <1>5, <2>2, <3>1
    <3>3. old \o new \in Seq(Bytes) /\ Len(old \o new) = Len(old) + Len(new)
      BY <3>2, ConcatProperties
    <3> QED BY <2>3, <3>1, <3>2, <3>3
  <2> QED BY <1>5, <1>6, <2>4 DEF Room
<1>8. /\ c2s' \in [Clients -> Seq(Byte)] /\ s2c' \in [Clients -> Seq(Bytes)]
      /\ \A c \in Clients : Len(s2c'[c]) <= Width(c)
  BY <1>2, <1>7 DEF TypeInv, StreamTypes
<1>9. NodeTypes' /\ \A c \in Clients \ {x} : SameNode(c)
  <2>1. UNCHANGED <<buffer, c2s, narrow>>
    BY <1>2 DEF setup
  <2> QED BY <1>2, <1>4, <1>6, <2>1, AfterSendTypes
<1>10. broken' \subseteq Clients
  BY <1>2 DEF TypeInv, LoopTypes
<1> QED BY <1>2, <1>8, <1>9, <1>10, VisitedTypes

\* What is sent to a client that is gone, a whole message if its path is not
\* narrow.
LEMMA ServerSendLostTypes ==
  ASSUME TypeInv, IInv, NEW x \in Clients, ServerSendLost(x), UNCHANGED setup
  PROVE  TypeInv'
<1>1. PICK k : k = Taken(x, Room(x, <<>>))
  OBVIOUS
<1>2. /\ s_pc = "write" /\ x = Head(todo) /\ x \in write_set /\ s_pc' = "read"
      /\ AfterSend(x, k)
      /\ broken' = broken \cup {x}
      /\ UNCHANGED <<pathVars, clientVars, buffer, backlog, nodes, todo, read_set, write_set>>
  BY <1>1 DEF ServerSendLost, AtWrite
<1>3. c2s' = c2s /\ s2c' = s2c /\ narrow' = narrow
  BY <1>2 DEF pathVars, setup
<1>4. Room(x, <<>>) = Width(x) /\ Width(x) \in 0 .. MSG_MAX
  <2>1. Len(<<>>) = 0
    OBVIOUS
  <2> QED BY <2>1, PathAssumption, ServerAssumption DEF Room, Width
<1>5. k \in 0 .. MSG_MAX
  BY <1>1, <1>4, TakenFits
<1>6. ASSUME x \notin narrow
      PROVE  HeldOf(x)'
  <2>1. pending_data[x]
    BY <1>2, <1>6, Visited DEF TypeInv
  <2>2. added_pos[x] = 0 /\ len_buffer[x] = SIZE /\ c2s[x] = <<>>
    <3>1. HeldOf(x)
      BY <1>6 DEF TypeInv, NodeTypes
    <3> QED BY <2>1, <3>1 DEF HeldOf, Held
  <2>3. k = len_buffer[x]
    <3>1. Width(x) = SIZE
      BY <1>6 DEF Width
    <3> QED BY <1>1, <1>4, <2>2, <3>1, PathAssumption DEF Taken, Lesser
  <2>4. /\ added_pos'[x] = 0 /\ len_buffer'[x] = 0
        /\ pending_data'[x] = FALSE
    BY <1>2, <2>3 DEF AfterSend, TypeInv, NodeTypes
  <2>5. c2s'[x] = <<>>
    BY <1>3, <2>2
  <2> QED BY <2>4, <2>5, HeldNothing DEF HeldOf
<1>7. NodeTypes' /\ \A c \in Clients \ {x} : SameNode(c)
  <2>1. UNCHANGED <<buffer, c2s, narrow>>
    BY <1>2, <1>3
  <2> QED BY <1>2, <1>5, <1>6, <2>1, AfterSendTypes
<1>8. /\ broken' \subseteq Clients /\ c2s' \in [Clients -> Seq(Byte)] /\ s2c' \in [Clients -> Seq(Bytes)]
      /\ \A c \in Clients : Len(s2c'[c]) <= Width(c)
  BY <1>2, <1>3 DEF TypeInv, LoopTypes, StreamTypes
<1> QED BY <1>2, <1>7, <1>8, VisitedTypes

\* What is received is the rest of a message, or a part of it, or, if the
\* length was misread, fits into the buffer.
LEMMA ServerRecvTypes ==
  ASSUME TypeInv, IInv, NEW x \in Clients, ServerRecv(x), UNCHANGED setup
  PROVE  TypeInv'
<1>1. PICK k \in Returned(x) :
        \E len \in IF len_buffer[x] = 0
                     THEN HeaderLen(Written(buffer[x], added_pos[x], SubSeq(c2s[x], 1, k)))
                     ELSE {len_buffer[x]} :
          /\ s_pc = "read" /\ x = Head(todo)
          /\ c2s' = [c2s EXCEPT ![x] = Drop(@, k)]
          /\ buffer' = [buffer EXCEPT ![x] = Written(buffer[x], added_pos[x], SubSeq(c2s[x], 1, k))]
          /\ len_buffer' = [len_buffer EXCEPT ![x] = len]
          /\ added_pos' = [added_pos EXCEPT ![x] = IF added_pos[x] + k = len THEN 0 ELSE added_pos[x] + k]
          /\ pending_data' = [pending_data EXCEPT ![x] = @ \/ added_pos[x] + k = len]
          /\ Advance
          /\ UNCHANGED <<s2c, clientVars, backlog, nodes, read_set, write_set, broken>>
  BY Zenon DEF ServerRecv, RecvUpTo, AtRead
<1>2. PICK len, bytes, got :
        /\ got = added_pos[x] /\ bytes = SubSeq(c2s[x], 1, k)
        /\ len \in IF len_buffer[x] = 0 THEN HeaderLen(Written(buffer[x], got, bytes)) ELSE {len_buffer[x]}
        /\ s_pc = "read" /\ x = Head(todo)
        /\ c2s' = [c2s EXCEPT ![x] = Drop(@, k)]
        /\ buffer' = [buffer EXCEPT ![x] = Written(buffer[x], got, bytes)]
        /\ len_buffer' = [len_buffer EXCEPT ![x] = len]
        /\ added_pos' = [added_pos EXCEPT ![x] = IF got + k = len THEN 0 ELSE got + k]
        /\ pending_data' = [pending_data EXCEPT ![x] = @ \/ got + k = len]
        /\ Advance
        /\ UNCHANGED <<s2c, clientVars, backlog, nodes, read_set, write_set, broken>>
  BY <1>1, Zenon
<1>3. /\ c2s[x] \in Seq(Byte) /\ Len(c2s[x]) \in Nat
      /\ buffer[x] \in [1 .. MSG_MAX -> Bytes] /\ DOMAIN buffer[x] = 1 .. MSG_MAX
      /\ got \in 0 .. MSG_MAX /\ got \in Nat /\ MSG_MAX \in Nat
  BY <1>2, LenProperties, ServerAssumption, PathAssumption DEF TypeInv, StreamTypes, NodeTypes
<1>4. /\ k \in 1 .. Len(c2s[x]) /\ got + k \in 0 .. MSG_MAX
      /\ x \notin narrow => got + k > 1
  <2>1. /\ k \in 1 .. Lesser(MSG_MAX - got, Len(c2s[x]))
        /\ x \notin narrow => got + k > 1
    BY <1>1, <1>2 DEF Returned, Portions
  <2> QED BY <1>3, <2>1 DEF Lesser
<1>5. len \in 0 .. MSG_MAX
  <2>1. HeaderLen(Written(buffer[x], got, bytes)) \subseteq 0 .. MSG_MAX
    BY PathAssumption, ServerAssumption DEF HeaderLen
  <2>2. len_buffer[x] \in 0 .. MSG_MAX
    BY DEF TypeInv, NodeTypes
  <2> QED BY <1>2, <2>1, <2>2
<1>6. pending_data[x] \in BOOLEAN /\ (x \notin narrow => HeldOf(x))
  BY DEF TypeInv, NodeTypes
<1>7. x \notin narrow => ~ pending_data[x]
  <2>1. x \notin narrow /\ pending_data[x] => c2s[x] = <<>>
    BY <1>6 DEF HeldOf, Held
  <2>2. c2s[x] # <<>>
    BY <1>4
  <2> QED BY <2>1, <2>2
<1>8. ASSUME x \notin narrow
      PROVE  Held(IF got + k = len THEN 0 ELSE got + k, len, got + k = len, Drop(c2s[x], k))
  <2>1. PICK buf, stream, before :
          buf = buffer[x] /\ stream = c2s[x] /\ before = len_buffer[x]
    OBVIOUS
  <2>2. len \in IF before = 0 THEN HeaderLen(Written(buf, got, SubSeq(stream, 1, k))) ELSE {before}
    BY <1>2, <2>1
  <2>3. DOMAIN buf = 1 .. MSG_MAX /\ k \in 1 .. Len(stream) /\ got + k > 1
    BY <1>3, <1>4, <1>8, <2>1
  <2>4. Held(got, before, FALSE, stream)
    <3>1. pending_data[x] = FALSE
      BY <1>6, <1>7, <1>8
    <3> QED BY <1>2, <1>6, <1>8, <2>1, <3>1 DEF HeldOf
  <2>5. Held(IF got + k = len THEN 0 ELSE got + k, len, got + k = len, Drop(stream, k))
    BY <2>2, <2>3, <2>4, HeldReceived
  <2> QED BY <2>1, <2>5
<1>9. NodeTypes'
  <2>1. SubSeq(c2s[x], 0 + 1, k) \in Seq(Byte)
    BY <1>3, <1>4, PartOf
  <2>2. bytes \in Seq(Bytes)
    BY <1>2, <2>1 DEF Bytes
  <2>3. Written(buffer[x], got, bytes) \in [1 .. MSG_MAX -> Bytes]
    BY <1>3, <2>2, WrittenBytes
  <2>4. PICK due \in BOOLEAN : due = (pending_data[x] \/ got + k = len)
    OBVIOUS
  <2>5. pending_data' = [pending_data EXCEPT ![x] = due]
    BY <1>2, <2>4
  <2>6. /\ c2s'[x] = Drop(c2s[x], k) /\ narrow' = narrow
        /\ \A c \in Clients \ {x} : c2s'[c] = c2s[c]
    BY <1>2 DEF TypeInv, StreamTypes, setup
  <2>7. PICK now : now = IF got + k = len THEN 0 ELSE got + k
    OBVIOUS
  <2>8. now \in 0 .. MSG_MAX
    BY <1>3, <1>4, <2>7
  <2>9. x \notin narrow => Held(now, len, due, c2s'[x])
    <3>1. ASSUME x \notin narrow
          PROVE  due = (got + k = len)
      BY <1>6, <1>7, <2>4, <3>1
    <3> QED BY <1>8, <2>6, <2>7, <3>1
  <2>10. NodeTypes /\ added_pos' = [added_pos EXCEPT ![x] = now]
    BY <1>2, <2>7 DEF TypeInv
  <2>11. /\ buffer' = [buffer EXCEPT ![x] = Written(buffer[x], got, bytes)]
         /\ len_buffer' = [len_buffer EXCEPT ![x] = len]
         /\ len \in 0 .. MSG_MAX
    BY <1>2, <1>5
  <2> QED BY <2>3, <2>5, <2>6, <2>8, <2>9, <2>10, <2>11, NodeTyped, ZenonT(60)
<1>10. /\ c2s' \in [Clients -> Seq(Byte)] /\ s2c' \in [Clients -> Seq(Bytes)]
       /\ \A c \in Clients : Len(s2c'[c]) <= Width(c)
  <2>1. Drop(c2s[x], k) \in Seq(Byte)
    BY <1>3, <1>4, PartOf DEF Drop
  <2> QED BY <1>2, <2>1 DEF TypeInv, StreamTypes
<1>11. \A c \in Clients \ {x} : SameNode(c)
  BY <1>2 DEF TypeInv, NodeTypes, SameNode
<1>12. broken' \subseteq Clients
  BY <1>2 DEF TypeInv, LoopTypes
<1> QED BY <1>2, <1>9, <1>10, <1>11, <1>12, VisitedTypes

LEMMA InitTypes ==
  ASSUME Init
  PROVE  TypeInv
<1>1. /\ <<>> \in Seq(Byte) /\ <<>> \in Seq(Bytes) /\ <<>> \in Seq(Clients) /\ NoByte \in Bytes
      /\ Members(<<>>) = {}
  BY EmptySeq DEF Bytes, Members
<1>2. /\ Len(<<>>) = 0
      /\ \A c \in Clients : Width(c) \in Nat
  BY PathAssumption DEF Width
<1>3. StreamTypes
  BY <1>1, <1>2 DEF Init, PathInit, ClientInit, StreamTypes
<1>4. NodeTypes
  <2>1. 0 \in 0 .. MSG_MAX
    BY ServerAssumption, PathAssumption
  <2>2. /\ buffer \in [Clients -> [1 .. MSG_MAX -> Bytes]]
        /\ added_pos \in [Clients -> 0 .. MSG_MAX]
        /\ len_buffer \in [Clients -> 0 .. MSG_MAX]
        /\ pending_data \in [Clients -> BOOLEAN]
    BY <1>1, <2>1 DEF Init, ServerInit
  <2>3. \A c \in Clients : added_pos[c] = 0 /\ len_buffer[c] = 0 /\ pending_data[c] = FALSE /\ c2s[c] = <<>>
    BY DEF Init, ServerInit, PathInit
  <2>4. \A c \in Clients : HeldOf(c)
    BY <2>3, HeldNothing DEF HeldOf
  <2> QED BY <2>2, <2>4 DEF NodeTypes
<1>5. CountTypes
  <2>1. 0 \in 0 .. SIZE - 1 /\ 0 \in 0 .. COUNT /\ 0 < COUNT
    BY PathAssumption
  <2> QED BY <2>1 DEF Init, ClientInit, CountTypes
<1>6. LoopTypes /\ NewNodes
  BY <1>1 DEF Init, ServerInit, LoopTypes, NewNodes, Steps
<1> QED BY <1>3, <1>4, <1>5, <1>6 DEF TypeInv

LEMMA StepTypes ==
  ASSUME TypeInv, IInv, WInv, IInv', [Next]_vars
  PROVE  TypeInv'
<1>1. CASE UNCHANGED vars \/ Idle \/ (FileChanges /\ UNCHANGED setup)
  <2>1. UNCHANGED <<pathVars, clientVars, serverVars, setup>>
    BY <1>1 DEF vars, Idle, FileChanges
  <2>2. LoopTypes' /\ Members(backlog') = Members(backlog)
    BY <2>1 DEF TypeInv, LoopTypes, serverVars, loopVars
  <2> QED BY <2>1, <2>2, LoopStepTypes DEF serverVars, loopVars
<1>2. CASE MainLoop
  <2>1. ASSUME NEW x \in Clients, Visit(x), UNCHANGED setup
        PROVE  TypeInv'
    BY <2>1, VisitTypes, ServerSendTypes, ServerSendLostTypes, ServerRecvTypes DEF Visit
  <2> QED BY <1>2, <2>1, SelectTypes, AcceptTypes, WebTypes DEF MainLoop, ServerNext
<1>3. ASSUME NEW x \in Clients, ClientNext(x)
      PROVE  TypeInv'
  <2>1. CASE ClientConnect(x) /\ UNCHANGED <<setup, webVars>>
    BY <2>1, ClientConnectTypes
  <2>2. CASE mode_flag = 0 /\ (ClientSend(x) \/ ClientRecv(x)) /\ UNCHANGED <<serverVars, setup, webVars>>
    BY <2>2, ClientSendTypes, ClientRecvTypes
  <2>3. CASE (BrowserSend(x) \/ BrowserEnd(x)) /\ UNCHANGED setup
    BY <2>3, ClientEndsTypes
  <2>4. CASE ClientKilled(x) /\ UNCHANGED <<serverVars, setup, webVars>>
    BY <2>4, ClientEndsTypes
  <2>5. CASE ServerLost(x) /\ UNCHANGED <<setup, webVars>>
    BY <2>5, ClientEndsTypes
  <2> QED BY <1>3, <2>1, <2>2, <2>3, <2>4, <2>5 DEF ClientNext, ClientGoesOn
<1>4. CASE CallFails /\ UNCHANGED setup
  <2>1. /\ UNCHANGED <<pathVars, clientVars, nodeVars, backlog, todo, read_set, write_set, broken>>
        /\ s_pc' = "crashed"
    BY <1>4 DEF CallFails
  <2>2. LoopTypes'
    BY <2>1 DEF TypeInv, LoopTypes, Steps
  <2> QED BY <1>4, <2>1, <2>2, LoopStepTypes
<1> QED BY <1>1, <1>2, <1>3, <1>4 DEF Next

\* No counter leaves its range and no node is written beyond its buffer, also
\* not when a client's length was misread, its echo was sent in portions, or it
\* was killed and has left bytes on the way.
THEOREM TypesAreKept == Spec => []TypeOK
<1>1. Init => TypeInv
  BY InitTypes
<1>2. TypeInv /\ IInv /\ WInv /\ IInv' /\ [Next]_vars => TypeInv'
  BY StepTypes
<1>3. Init => WInv
  BY WebInitInv
<1>4. IInv /\ WInv /\ [Next]_vars => WInv'
  BY WebStepInv
<1>5. TypeInv /\ IInv => TypeOK
  <2> SUFFICES ASSUME TypeInv, IInv
               PROVE  TypeOK
    OBVIOUS
  <2>1. PathTypeOK
    BY DEF TypeInv, StreamTypes, PathTypeOK, Bytes
  <2>2. ClientTypeOK
    BY DEF TypeInv, StreamTypes, CountTypes, ClientTypeOK, Bytes
  <2>3. mode_flag \in {0, 1} /\ backlog \in Seq(Clients) /\ nodes \in Seq(Clients)
    BY DEF IInv, Lists
  <2>4. ServerTypeOK
    BY <2>3 DEF TypeInv, NodeTypes, LoopTypes, Steps, ServerTypeOK, Bytes
  <2> QED BY <2>1, <2>2, <2>4 DEF TypeOK
<1> QED BY <1>1, <1>2, <1>3, <1>4, <1>5, Invariance, PTL DEF Spec
=============================================================================
