-------------------------- MODULE SduBuffersProofs --------------------------
(***************************************************************************)
(* Theorems about SduBuffers for any number of RNTIs, any capacity and any *)
(* numbers of buffers that EnoughBuffers admits.                           *)
(***************************************************************************)
EXTENDS SduBuffers, FoldLemmas, FiniteSetTheorems

-----------------------------------------------------------------------------
(* Arithmetic of turns.                                                    *)

\* A number is its quotient and its remainder.
LEMMA Division ==
  ASSUME NEW N \in Nat \ {0}, NEW a \in Int
  PROVE  /\ a % N \in 0 .. (N - 1)
         /\ a \div N \in Int
         /\ a = N * (a \div N) + (a % N)
  BY SMT

\* What is left over a multiple is the remainder.
LEMMA Remainder ==
  ASSUME NEW N \in Nat \ {0}, NEW q \in Int, NEW r \in 0 .. (N - 1)
  PROVE  (N * q + r) % N = r
  BY SMTT(30)

\* Whole turns earlier, the turn was the same one's.
LEMMA SameTurn ==
  ASSUME NEW N \in Nat \ {0}, NEW a \in Int, NEW m \in Int
  PROVE  (a - N * m) % N = a % N
<1> DEFINE q == a \div N
           r == a % N
<1>1. q \in Int /\ r \in 0 .. (N - 1) /\ a = N * q + r
  BY Division
<1>2. a - N * m = N * (q - m) + r
  <2> HIDE DEF q, r
  <2> QED BY <1>1, SMT
<1>3. (N * (q - m) + r) % N = r
  <2> HIDE DEF q, r
  <2> QED BY <1>1, Remainder
<1> QED BY <1>2, <1>3

\* Less than a turn earlier, it was another one's.
LEMMA OtherTurn ==
  ASSUME NEW N \in Nat \ {0}, NEW a \in Int, NEW b \in Int, b < a, a - b < N
  PROVE  a % N # b % N
<1> DEFINE p == a \div N
           q == b \div N
           r == a % N
<1>1. p \in Int /\ q \in Int /\ r \in 0 .. (N - 1) /\ a = N * p + r
  BY Division
<1>2. SUFFICES ASSUME b % N = r PROVE FALSE
  OBVIOUS
<1>3. b = N * q + r
  BY <1>2, Division
<1> HIDE DEF p, q, r
<1>4. a - b = N * (p - q)
  BY <1>1, <1>3
<1>5. CASE p - q <= 0
  <2>1. N * (p - q) <= 0
    BY <1>1, <1>5
  <2> QED BY <1>4, <2>1
<1>6. CASE p - q >= 1
  <2>1. N * (p - q) >= N
    BY <1>1, <1>6
  <2> QED BY <1>4, <2>1, <1>1
<1> QED BY <1>1, <1>5, <1>6

\* Multiplication by a natural number is monotone.
LEMMA TimesMonotone ==
  ASSUME NEW N \in Nat, NEW a \in Nat, NEW b \in Nat, a <= b
  PROVE  N * a <= N * b
  BY SMTT(30)

\* The rest of a sequence.
LEMMA TailOf ==
  ASSUME NEW S, NEW s \in Seq(S), s # <<>>
  PROVE  /\ Head(s) \in S /\ Head(s) = s[1]
         /\ Tail(s) \in Seq(S)
         /\ Len(Tail(s)) = Len(s) - 1
         /\ \A j \in 1 .. Len(Tail(s)) : Tail(s)[j] = s[j + 1]
<1>1. Len(s) \in Nat \ {0}
  OBVIOUS
<1>2. Head(s) = s[1] /\ Head(s) \in S
  BY <1>1
<1>3. Tail(s) \in Seq(S) /\ Len(Tail(s)) = Len(s) - 1
  BY <1>1
<1>4. \A j \in 1 .. Len(Tail(s)) : Tail(s)[j] = s[j + 1]
  BY <1>1, <1>3
<1> QED BY <1>2, <1>3, <1>4

-----------------------------------------------------------------------------
(* The invariant.                                                          *)

\* What the sender of u has in hand at each point of build_data_pdu().
Working(u) ==
    /\ spc[u] \in {"pull", "notify", "move", "finish"} => pdu[u] # NULL
    /\ spc[u] \in {"notify", "move"} => tx_sdu[u] # NULL
    /\ spc[u] = "pull" => queue[u] # <<>> /\ tx_sdu[u] = NULL

Begun(u) == IF tx_sdu[u] = NULL THEN 0 ELSE 1

\* The packets read in m turns through the RNTIs.
turns(m) == N_RNTI * m

\* The unfinished packets of u were all read on a turn of u, and the j-th of
\* them from the end within the last j turns.
Recent(u) ==
    \A j \in 1 .. Len(aux_sdus[u]) :
      /\ aux_sdus[u][j] \in 1 .. reads
      /\ (aux_sdus[u][j] - 1) % N_RNTI = u
      /\ aux_sdus[u][j] > reads - turns(Len(aux_sdus[u]) - j + 1)

\* Each is in the buffer it was read into.
InPlace(u) ==
    /\ Len(aux_sdus[u]) = Len(queue[u]) + Begun(u)
    /\ \A j \in 1 .. Len(queue[u]) :
         queue[u][j] = (aux_sdus[u][j + Begun(u)] - 1) % N_IP
    /\ tx_sdu[u] # NULL => tx_sdu[u] = (aux_sdus[u][1] - 1) % N_IP

BuffersInv ==
    /\ BuffersTypeOK
    /\ ipc # "read" => reads < MAX_READS
    /\ WriterNotForgotten
    /\ \A u \in Rnti : Working(u) /\ Recent(u) /\ InPlace(u)

USE SduBuffersAssumption DEF SduBuffersAssumption

\* The turns of the IP thread are turns of RNTIs and of its own buffers.
LEMMA Turns ==
  ASSUME reads \in Nat
  PROVE  /\ k \in Buffer /\ k \in 0 .. (N_IP - 1)
         /\ i \in Rnti
         /\ NULL \notin Buffer
<1>1. N_IP \in Nat \ {0} /\ N_RNTI \in Nat \ {0} /\ reads \in Int
  OBVIOUS
<1>2. reads % N_IP \in 0 .. (N_IP - 1)
  BY <1>1, Division
<1>3. reads % N_RNTI \in 0 .. (N_RNTI - 1)
  BY <1>1, Division
<1> QED BY <1>2, <1>3 DEF k, i, Rnti, Buffer, N_BUF

LEMMA InitInv == Init => BuffersInv
<1> SUFFICES ASSUME Init PROVE BuffersInv
  OBVIOUS
<1>1. BuffersTypeOK
  BY DEF Init, BuffersTypeOK, Buffer, N_BUF, Rnti
<1>2. \A u \in Rnti : Working(u) /\ Recent(u) /\ InPlace(u)
  BY DEF Init, Working, Recent, InPlace, Begun
<1> QED BY <1>1, <1>2 DEF Init, BuffersInv, WriterNotForgotten

-----------------------------------------------------------------------------
(* Types.                                                                  *)

\* Whatever the buffer, deallocate() leaves the pool a pool.
LEMMA DeallocateTypes ==
  ASSUME BuffersTypeOK, NEW b \in Buffer, NEW lengths \in [Buffer -> Nat],
         deallocate(b, lengths)
  PROVE  /\ n_bytes' \in [Buffer -> Nat]
         /\ content' \in [Buffer -> 0 .. MAX_READS]
         /\ next' \in [Buffer -> Buffer \cup {NULL}]
         /\ first_available' \in Buffer \cup {NULL}
BY DEF BuffersTypeOK, deallocate

LEMMA TypeStep == BuffersInv /\ [Next]_vars => BuffersTypeOK'
<1> SUFFICES ASSUME BuffersInv, [Next]_vars PROVE BuffersTypeOK'
  OBVIOUS
<1> USE DEF BuffersInv
<1>0. /\ BuffersTypeOK /\ reads \in Nat
      /\ NULL \notin Buffer
      /\ k \in Buffer /\ i \in Rnti
      /\ ipc # "read" => reads + 1 \in 1 .. MAX_READS
      /\ \A u \in Rnti : Working(u) /\ InPlace(u)
  <2>1. BuffersTypeOK /\ \A u \in Rnti : Working(u) /\ InPlace(u)
    OBVIOUS
  <2>2. reads \in Nat /\ reads <= MAX_READS
    BY <2>1 DEF BuffersTypeOK
  <2>3. ipc # "read" => reads + 1 \in 1 .. MAX_READS
    BY <2>2
  <2> HIDE DEF BuffersInv
  <2> QED BY <2>1, <2>2, <2>3, Turns
<1> HIDE DEF BuffersInv
<1> USE <1>0
<1>1. CASE ReadTun
  <2>1. reads + 1 \in 0 .. MAX_READS /\ length(reads + 1) \in Nat
    BY <1>1 DEF ReadTun, length
  <2> QED BY <1>1, <2>1 DEF ReadTun, BuffersTypeOK, poolVars, queueVars,
        senderVars, auxVars
<1>2. CASE Write
  <2>1. unread_bytes' \in [Rnti -> Int]
    <3>1. unread_bytes[i] + n_bytes[k] \in Int
      BY DEF BuffersTypeOK
    <3> QED BY <1>2, <3>1 DEF Write, BuffersTypeOK
  <2>2. queue' \in [Rnti -> Seq(Buffer)] /\ \A u \in Rnti : Len(queue'[u]) <= CAP
    BY <1>2, SMTT(60) DEF Write, BuffersTypeOK, is_full
  <2>3. aux_sdus' \in [Rnti -> Seq(1 .. MAX_READS)]
    BY <1>2 DEF Write, BuffersTypeOK
  <2>4. reads' \in 0 .. MAX_READS /\ ipc' \in {"read", "write", "wait"}
    BY <1>2 DEF Write
  <2>5. UNCHANGED <<n_bytes, content, next, first_available, spc, tx_sdu, pdu,
                    aux_leaks>>
    BY <1>2 DEF Write, bufVars, poolVars, senderVars
  <2> QED BY <2>1, <2>2, <2>3, <2>4, <2>5 DEF BuffersTypeOK
<1>3. CASE Wait \/ WakeSpuriously
  BY <1>3 DEF Wait, WakeSpuriously, BuffersTypeOK, bufVars, poolVars, queueVars,
       senderVars, auxVars
<1>4. ASSUME NEW u \in Rnti, BeginBuild(u) PROVE BuffersTypeOK'
  BY <1>4 DEF BeginBuild, allocate, Goto, BuffersTypeOK, bufVars, ipVars,
       queueVars, auxVars
<1>5. ASSUME NEW u \in Rnti, BuildWithoutPool(u) \/ EndPdu(u) PROVE BuffersTypeOK'
  BY <1>5 DEF BuildWithoutPool, EndPdu, Goto, BuffersTypeOK, bufVars, poolVars,
       ipVars, queueVars, auxVars
<1>6. ASSUME NEW u \in Rnti, BuildLeaks(u) PROVE BuffersTypeOK'
  <2>1. aux_leaks' \in 0 .. MAX_LEAKS
    BY <1>6, SMTT(60) DEF BuildLeaks, BuffersTypeOK
  <2>2. first_available' \in Buffer \cup {NULL}
    BY <1>6 DEF BuildLeaks, allocate, BuffersTypeOK
  <2>3. spc' = [spc EXCEPT ![u] = "poll"]
    BY <1>6 DEF BuildLeaks, Goto
  <2>4. UNCHANGED <<n_bytes, content, next, reads, ipc, queue, unread_bytes,
                    tx_sdu, pdu, aux_sdus>>
    BY <1>6 DEF BuildLeaks, allocate, bufVars, ipVars, queueVars
  <2> QED BY <2>1, <2>2, <2>3, <2>4 DEF BuffersTypeOK
<1>7. ASSUME NEW u \in Rnti, Pull(u) PROVE BuffersTypeOK'
  <2>1. Head(queue[u]) \in Buffer /\ Tail(queue[u]) \in Seq(Buffer)
        /\ Len(Tail(queue[u])) <= CAP
    BY <1>7, SMTT(60) DEF Pull, BuffersTypeOK
  <2>2. queue' \in [Rnti -> Seq(Buffer)] /\ \A v \in Rnti : Len(queue'[v]) <= CAP
    BY <1>7, <2>1 DEF Pull, BuffersTypeOK
  <2>3. unread_bytes' \in [Rnti -> Int]
    <3>1. unread_bytes[u] \in Int /\ n_bytes[Head(queue[u])] \in Nat
      BY <2>1 DEF BuffersTypeOK
    <3>2. unread_bytes[u] - n_bytes[Head(queue[u])] \in Int
      BY <3>1
    <3> QED BY <1>7, <3>2 DEF Pull, BuffersTypeOK
  <2> QED BY <1>7, <2>1, <2>2, <2>3 DEF Pull, Goto, BuffersTypeOK, bufVars,
        poolVars, ipVars, auxVars
<1>8. ASSUME NEW u \in Rnti, Notify(u) PROVE BuffersTypeOK'
  BY <1>8 DEF Notify, Goto, BuffersTypeOK, bufVars, poolVars, queueVars, auxVars
<1>9. ASSUME NEW u \in Rnti, MovePart(u) PROVE BuffersTypeOK'
  <2>1. tx_sdu[u] \in Buffer /\ pdu[u] \in Buffer
    BY <1>9 DEF MovePart, Working, BuffersTypeOK
  <2>2. n_bytes \in [Buffer -> Nat]
    BY DEF BuffersTypeOK
  <2>3. PICK n \in 0 .. (n_bytes[tx_sdu[u]] - 1) :
          n_bytes' = [n_bytes EXCEPT ![pdu[u]] = @ + n, ![tx_sdu[u]] = @ - n]
    BY <1>9 DEF MovePart
  <2>4. [n_bytes EXCEPT ![pdu[u]] = @ + n] \in [Buffer -> Nat]
    BY <2>1, <2>2
  <2>5. n_bytes' \in [Buffer -> Nat]
    BY <2>1, <2>2, <2>3, <2>4
  <2> QED BY <1>9, <2>5 DEF MovePart, Goto, BuffersTypeOK, poolVars, ipVars,
        queueVars, auxVars
<1>10. ASSUME NEW u \in Rnti, MoveAll(u) PROVE BuffersTypeOK'
  <2> DEFINE lengths == [n_bytes EXCEPT ![pdu[u]] = @ + n_bytes[tx_sdu[u]]]
  <2>1. tx_sdu[u] \in Buffer /\ pdu[u] \in Buffer
    BY <1>10 DEF MoveAll, Working, BuffersTypeOK
  <2>2. lengths \in [Buffer -> Nat]
    <3>1. n_bytes \in [Buffer -> Nat]
      BY DEF BuffersTypeOK
    <3>2. n_bytes[pdu[u]] + n_bytes[tx_sdu[u]] \in Nat
      BY <2>1, <3>1
    <3> QED BY <2>1, <3>1, <3>2
  <2>3. deallocate(tx_sdu[u], lengths)
    BY <1>10 DEF MoveAll
  <2>4. Tail(aux_sdus[u]) \in Seq(1 .. MAX_READS)
    <3>1. aux_sdus[u] \in Seq(1 .. MAX_READS) /\ queue[u] \in Seq(Buffer)
      BY DEF BuffersTypeOK
    <3>2. Len(aux_sdus[u]) = Len(queue[u]) + 1
      BY <2>1 DEF InPlace, Begun
    <3>3. aux_sdus[u] # <<>>
      BY <3>1, <3>2
    <3> QED BY <3>1, <3>3, TailOf
  <2>5. aux_sdus' \in [Rnti -> Seq(1 .. MAX_READS)]
    BY <1>10, <2>4 DEF MoveAll, BuffersTypeOK
  <2> HIDE DEF lengths
  <2>6. /\ n_bytes' \in [Buffer -> Nat]
        /\ content' \in [Buffer -> 0 .. MAX_READS]
        /\ next' \in [Buffer -> Buffer \cup {NULL}]
        /\ first_available' \in Buffer \cup {NULL}
    BY <2>1, <2>2, <2>3, DeallocateTypes
  <2> QED BY <1>10, <2>5, <2>6 DEF MoveAll, Goto, BuffersTypeOK, ipVars,
        queueVars
<1>11. ASSUME NEW u \in Rnti, Finish(u) PROVE BuffersTypeOK'
  <2>1. pdu[u] \in Buffer /\ n_bytes \in [Buffer -> Nat]
    BY <1>11 DEF Finish, Working, BuffersTypeOK
  <2>2. /\ n_bytes' \in [Buffer -> Nat]
        /\ content' \in [Buffer -> 0 .. MAX_READS]
        /\ next' \in [Buffer -> Buffer \cup {NULL}]
        /\ first_available' \in Buffer \cup {NULL}
    BY <1>11, <2>1, DeallocateTypes DEF Finish
  <2> QED BY <1>11, <2>2 DEF Finish, Goto, BuffersTypeOK, ipVars, queueVars,
        auxVars
<1>12. CASE UNCHANGED vars
  BY <1>12 DEF BuffersTypeOK, vars, bufVars, poolVars, ipVars, queueVars,
       senderVars, auxVars
<1> QED BY <1>1, <1>2, <1>3, <1>4, <1>5, <1>6, <1>7, <1>8, <1>9, <1>10, <1>11,
      <1>12 DEF Next, Sender

-----------------------------------------------------------------------------
(* The writer and the senders.                                             *)

\* The actions of u's sender leave what is another RNTI's alone.
LEMMA OthersUntouched ==
  ASSUME NEW u \in Rnti, Sender(u), BuffersTypeOK,
         NEW v \in Rnti, v # u
  PROVE  /\ spc'[v] = spc[v] /\ pdu'[v] = pdu[v] /\ tx_sdu'[v] = tx_sdu[v]
         /\ queue'[v] = queue[v] /\ aux_sdus'[v] = aux_sdus[v]
         /\ reads' = reads
BY DEF Sender, BeginBuild, BuildWithoutPool, BuildLeaks, EndPdu, Pull, Notify,
     MovePart, MoveAll, Finish, Goto, BuffersTypeOK, ipVars, queueVars, auxVars

\* What a step of u's sender does to u's own state: nothing to what is
\* queued, or one of the two steps that move an SDU on.
LEMMA OwnSteps ==
  ASSUME NEW u \in Rnti, Sender(u), BuffersTypeOK
  PROVE  \/ UNCHANGED <<queue, tx_sdu, aux_sdus>>
         \/ Pull(u)
         \/ MoveAll(u)
BY DEF Sender, BeginBuild, BuildWithoutPool, BuildLeaks, EndPdu, Notify,
     MovePart, Finish, queueVars, auxVars

LEMMA WorkingStep ==
  ASSUME BuffersInv, [Next]_vars
  PROVE  \A u \in Rnti : Working(u)'
<1> SUFFICES ASSUME NEW v \in Rnti PROVE Working(v)'
  OBVIOUS
<1>0. BuffersTypeOK /\ reads \in Nat /\ NULL \notin Buffer /\ k \in Buffer /\ Working(v)
  <2>1. BuffersTypeOK /\ Working(v)
    BY DEF BuffersInv
  <2>2. reads \in Nat
    BY <2>1 DEF BuffersTypeOK
  <2> QED BY <2>1, <2>2, Turns
<1>1. CASE Write
  <2>1. queue'[v] = queue[v] \/ queue'[v] = Append(queue[v], k)
    BY <1>0, <1>1 DEF Write, BuffersTypeOK
  <2>2. Append(queue[v], k) # <<>>
    <3>1. queue[v] \in Seq(Buffer)
      BY <1>0 DEF BuffersTypeOK
    <3> QED BY <1>0, <3>1
  <2> QED BY <1>0, <1>1, <2>1, <2>2 DEF Write, Working, senderVars
<1>2. CASE ReadTun \/ Wait \/ WakeSpuriously \/ UNCHANGED vars
  BY <1>0, <1>2 DEF ReadTun, Wait, WakeSpuriously, Working, queueVars,
       senderVars, vars
<1>3. ASSUME NEW u \in Rnti, Sender(u), u # v PROVE Working(v)'
  BY <1>0, <1>3, OthersUntouched DEF Working
<1>4. CASE BeginBuild(v)
  BY <1>0, <1>4 DEF BeginBuild, Goto, Working, BuffersTypeOK, queueVars
<1>5. CASE BuildWithoutPool(v) \/ BuildLeaks(v) \/ EndPdu(v)
  BY <1>0, <1>5 DEF BuildWithoutPool, BuildLeaks, EndPdu, Goto, Working,
       BuffersTypeOK
<1>6. CASE Pull(v)
  <2>1. Head(queue[v]) \in Buffer
    BY <1>0, <1>6, TailOf DEF Pull, BuffersTypeOK
  <2> QED BY <1>0, <1>6, <2>1 DEF Pull, Goto, Working, BuffersTypeOK
<1>7. CASE Notify(v) \/ MovePart(v) \/ Finish(v)
  BY <1>0, <1>7 DEF Notify, MovePart, Finish, Goto, Working, BuffersTypeOK
<1>8. CASE MoveAll(v)
  BY <1>0, <1>8 DEF MoveAll, Goto, Working, BuffersTypeOK, queueVars
<1> QED BY <1>1, <1>2, <1>3, <1>4, <1>5, <1>6, <1>7, <1>8 DEF Next, Sender

LEMMA WriterStep ==
  ASSUME BuffersInv, [Next]_vars
  PROVE  WriterNotForgotten' /\ (ipc' # "read" => reads' < MAX_READS)
<1>0. /\ BuffersTypeOK /\ reads \in Nat /\ i \in Rnti /\ WriterNotForgotten
      /\ ipc # "read" => reads < MAX_READS
  BY Turns, SMTT(60) DEF BuffersInv, BuffersTypeOK
<1> USE <1>0
<1>1. CASE Write \/ ReadTun \/ WakeSpuriously
  BY <1>1 DEF Write, ReadTun, WakeSpuriously, WriterNotForgotten
<1>2. CASE Wait
  BY <1>2 DEF Wait, WriterNotForgotten, is_full, i, queueVars
<1>3. CASE UNCHANGED vars
  BY <1>3 DEF WriterNotForgotten, is_full, i, vars, ipVars, queueVars,
       senderVars
<1>4. ASSUME NEW u \in Rnti, Sender(u), u # i
      PROVE  WriterNotForgotten' /\ (ipc' # "read" => reads' < MAX_READS)
  <2>1. spc'[i] = spc[i] /\ queue'[i] = queue[i] /\ reads' = reads
    BY <1>4, OthersUntouched
  <2>2. i' = i
    BY <2>1 DEF i
  <2>3. ipc' = ipc \/ (ipc = "wait" /\ ipc' = "write")
    BY <1>4 DEF Sender, BeginBuild, BuildWithoutPool, BuildLeaks, EndPdu, Pull,
         Notify, MovePart, MoveAll, Finish, ipVars
  <2> QED BY <2>1, <2>2, <2>3 DEF WriterNotForgotten, is_full
<1>5. CASE Pull(i)
  BY <1>5 DEF Pull, Goto, WriterNotForgotten, BuffersTypeOK, i, ipVars
<1>6. CASE Notify(i)
  BY <1>6 DEF Notify, WriterNotForgotten
<1>7. CASE \/ BeginBuild(i) \/ BuildWithoutPool(i) \/ BuildLeaks(i) \/ EndPdu(i)
           \/ MovePart(i) \/ MoveAll(i) \/ Finish(i)
  <2>1. spc[i] # "notify" /\ UNCHANGED <<reads, ipc, queue>>
    BY <1>7 DEF BeginBuild, BuildWithoutPool, BuildLeaks, EndPdu, MovePart,
         MoveAll, Finish, Asks, ipVars, queueVars
  <2> QED BY <2>1 DEF WriterNotForgotten, is_full, i
<1> QED BY <1>1, <1>2, <1>3, <1>4, <1>5, <1>6, <1>7 DEF Next, Sender

-----------------------------------------------------------------------------
(* Where the packets are.                                                  *)

LEMMA CountTurns ==
  ASSUME NEW m \in Int
  PROVE  /\ turns(m) \in Int
         /\ turns(m + 1) = turns(m) + N_RNTI
         /\ turns(1) = N_RNTI
         /\ \A a \in Int : (a - turns(m)) % N_RNTI = a % N_RNTI
<1>1. N_RNTI \in Nat \ {0}
  OBVIOUS
<1>2. turns(m) \in Int /\ turns(m + 1) = turns(m) + N_RNTI /\ turns(1) = N_RNTI
  BY <1>1 DEF turns
<1>3. \A a \in Int : (a - turns(m)) % N_RNTI = a % N_RNTI
  BY <1>1, SameTurn DEF turns
<1> QED BY <1>2, <1>3

\* A number above p whose predecessor is not p is above p + 1.
LEMMA NotNext ==
  ASSUME NEW a \in Int, NEW p \in Int, a > p, a - 1 # p
  PROVE  a > p + 1
OBVIOUS

\* A packet that is written is of the last turn of its RNTI, and the others
\* are of an earlier one.
LEMMA RecentWrite ==
  ASSUME BuffersInv, Write, NEW u \in Rnti
  PROVE  Recent(u)'
<1>0. /\ reads \in Nat /\ N_RNTI \in Nat \ {0} /\ u \in Nat /\ i \in Rnti
      /\ aux_sdus \in [Rnti -> Seq(1 .. MAX_READS)] /\ Recent(u)
  <2>1. reads \in Nat /\ aux_sdus \in [Rnti -> Seq(1 .. MAX_READS)] /\ Recent(u)
    BY DEF BuffersInv, BuffersTypeOK
  <2> QED BY <2>1, Turns DEF Rnti
<1> DEFINE A == aux_sdus[u]
           B == aux_sdus'[u]
<1>1. A \in Seq(1 .. MAX_READS) /\ Len(A) \in Nat
  BY <1>0
<1>2. reads' = reads + 1 /\ reads' \in Nat
  BY <1>0 DEF Write
<1>3. CASE u = i
  <2>1. B = Append(A, reads')
    BY <1>0, <1>2, <1>3 DEF Write
  <2>2. /\ Len(B) = Len(A) + 1
        /\ B[Len(A) + 1] = reads'
        /\ \A j \in 1 .. Len(A) : B[j] = A[j]
    BY <1>1, <1>2, <2>1
  <2>3. ASSUME NEW j \in 1 .. Len(A)
        PROVE  /\ A[j] \in 1 .. reads'
               /\ (A[j] - 1) % N_RNTI = u
               /\ A[j] > reads' - turns(Len(B) - j + 1)
    <3> DEFINE m == Len(A) - j + 1
    <3>1. /\ A[j] \in 1 .. reads /\ (A[j] - 1) % N_RNTI = u
          /\ A[j] > reads - turns(m)
      BY <1>0 DEF Recent
    <3>2. m \in Int /\ Len(B) - j + 1 = m + 1
      BY <1>1, <2>2
    <3> HIDE DEF m, A, B
    <3>3. turns(m) \in Int /\ turns(m + 1) = turns(m) + N_RNTI
      BY <3>2, CountTurns
    <3>4. A[j] > reads' - turns(m + 1)
      BY <1>0, <1>2, <3>1, <3>3, SMTT(60)
    <3>5. A[j] \in 1 .. reads'
      BY <1>0, <1>2, <3>1
    <3> QED BY <3>1, <3>2, <3>4, <3>5
  <2>4. /\ reads' \in 1 .. reads'
        /\ (reads' - 1) % N_RNTI = u
        /\ reads' > reads' - turns(Len(B) - (Len(A) + 1) + 1)
    <3>1. reads' - 1 = reads /\ reads % N_RNTI = u
      BY <1>0, <1>2, <1>3 DEF i
    <3>2. Len(B) - (Len(A) + 1) + 1 = 1
      BY <1>1, <2>2
    <3>3. turns(1) = N_RNTI
      BY CountTurns
    <3> HIDE DEF A, B
    <3>4. reads' > reads' - turns(1)
      BY <1>0, <1>2, <3>3
    <3> QED BY <1>0, <1>2, <3>1, <3>2, <3>4
  <2>5. ASSUME NEW j \in 1 .. Len(B)
        PROVE  /\ B[j] \in 1 .. reads'
               /\ (B[j] - 1) % N_RNTI = u
               /\ B[j] > reads' - turns(Len(B) - j + 1)
    <3> HIDE DEF A, B
    <3>1. CASE j \in 1 .. Len(A)
      BY <2>2, <2>3, <3>1
    <3>2. CASE j = Len(A) + 1
      BY <2>2, <2>4, <3>2
    <3> QED BY <1>1, <2>2, <3>1, <3>2
  <2> QED BY <2>5 DEF Recent
<1>4. CASE u # i
  <2>1. B = A
    BY <1>0, <1>4 DEF Write
  <2>2. ASSUME NEW j \in 1 .. Len(A)
        PROVE  /\ A[j] \in 1 .. reads'
               /\ (A[j] - 1) % N_RNTI = u
               /\ A[j] > reads' - turns(Len(A) - j + 1)
    <3> DEFINE m == Len(A) - j + 1
               p == reads - turns(m)
    <3>1. /\ A[j] \in 1 .. reads /\ (A[j] - 1) % N_RNTI = u
          /\ A[j] > p
      BY <1>0 DEF Recent
    <3>2. m \in Int /\ reads \in Int
      BY <1>0, <1>1
    <3>3. turns(m) \in Int /\ p % N_RNTI = i
      <4> HIDE DEF m
      <4> QED BY <3>2, CountTurns DEF i
    <3>4. p \in Int
      BY <3>2, <3>3
    <3>5. reads' - turns(m) = p + 1
      BY <1>2, <3>2, <3>3
    <3> HIDE DEF m, p, A
    <3>6. A[j] - 1 # p
      BY <1>4, <3>1, <3>3
    <3>7. A[j] \in Int
      BY <3>1, <1>1
    <3>8. A[j] > p + 1
      BY <3>1, <3>4, <3>6, <3>7, NotNext
    <3> QED BY <1>0, <1>2, <3>1, <3>5, <3>8 DEF m
  <2> QED BY <2>1, <2>2 DEF Recent
<1> QED BY <1>3, <1>4

\* The packet at the head is used up: the others keep their place from the end.
LEMMA RecentMoveAll ==
  ASSUME BuffersInv, NEW u \in Rnti, MoveAll(u)
  PROVE  Recent(u)'
<1> DEFINE A == aux_sdus[u]
           B == aux_sdus'[u]
<1>0. A \in Seq(1 .. MAX_READS) /\ queue[u] \in Seq(Buffer) /\ Recent(u)
  BY DEF BuffersInv, BuffersTypeOK
<1>1. A # <<>> /\ reads' = reads
  <2>1. Len(A) = Len(queue[u]) + 1
    BY DEF BuffersInv, Working, InPlace, Begun, MoveAll
  <2> QED BY <1>0, <2>1 DEF MoveAll, ipVars
<1>2. B = Tail(A)
  BY DEF MoveAll, BuffersInv, BuffersTypeOK
<1>3. /\ Len(A) \in Nat /\ Len(B) = Len(A) - 1
      /\ \A j \in 1 .. Len(B) : B[j] = A[j + 1]
  BY <1>0, <1>1, <1>2, TailOf
<1>4. ASSUME NEW j \in 1 .. Len(B)
      PROVE  /\ B[j] \in 1 .. reads'
             /\ (B[j] - 1) % N_RNTI = u
             /\ B[j] > reads' - turns(Len(B) - j + 1)
  <2>1. B[j] = A[j + 1] /\ j + 1 \in 1 .. Len(A)
        /\ Len(A) - (j + 1) + 1 = Len(B) - j + 1
    BY <1>3
  <2>2. /\ A[j + 1] \in 1 .. reads /\ (A[j + 1] - 1) % N_RNTI = u
        /\ A[j + 1] > reads - turns(Len(A) - (j + 1) + 1)
    BY <1>0, <2>1 DEF Recent
  <2> HIDE DEF A, B
  <2> QED BY <1>1, <2>1, <2>2
<1> QED BY <1>4 DEF Recent

LEMMA RecentStep ==
  ASSUME BuffersInv, [Next]_vars, NEW v \in Rnti
  PROVE  Recent(v)'
<1>0. BuffersTypeOK /\ Recent(v)
  BY DEF BuffersInv
<1>1. CASE Write
  BY <1>1, RecentWrite
<1>2. CASE MoveAll(v)
  BY <1>2, RecentMoveAll
<1>3. CASE UNCHANGED <<reads, aux_sdus>>
  BY <1>0, <1>3 DEF Recent
<1>4. ASSUME NEW u \in Rnti, Sender(u), u # v PROVE Recent(v)'
  <2>1. aux_sdus'[v] = aux_sdus[v] /\ reads' = reads
    BY <1>0, <1>4, OthersUntouched
  <2> QED BY <1>0, <2>1 DEF Recent
<1>5. CASE Sender(v)
  BY <1>2, <1>3, <1>5 DEF Sender, BeginBuild, BuildWithoutPool, BuildLeaks,
       EndPdu, Pull, Notify, MovePart, Finish, ipVars, auxVars
<1> QED BY <1>1, <1>3, <1>4, <1>5 DEF Next, ReadTun, Wait, WakeSpuriously, vars,
      ipVars, auxVars

\* A packet that is written is in the buffer it was read into.
LEMMA InPlaceWrite ==
  ASSUME BuffersInv, Write, NEW u \in Rnti
  PROVE  InPlace(u)'
<1> DEFINE A == aux_sdus[u]
           Q == queue[u]
           b == Begun(u)
<1>0. /\ reads \in Nat /\ BuffersTypeOK /\ InPlace(u)
      /\ A \in Seq(1 .. MAX_READS) /\ Q \in Seq(Buffer)
      /\ b \in {0, 1}
  BY DEF BuffersInv, BuffersTypeOK, Begun
<1>1. tx_sdu' = tx_sdu /\ Begun(u)' = b
  BY DEF Write, senderVars, Begun
<1>2. CASE u # i
  <2>1. aux_sdus'[u] = A /\ queue'[u] = Q
    BY <1>0, <1>2 DEF Write, BuffersTypeOK
  <2> QED BY <1>0, <1>1, <2>1 DEF InPlace
<1>3. CASE u = i
  <2> DEFINE A2 == aux_sdus'[u]
             Q2 == queue'[u]
  <2>1. A2 = Append(A, reads + 1) /\ Q2 = Append(Q, k)
    BY <1>0, <1>3 DEF Write, BuffersTypeOK
  <2>2. Len(A) = Len(Q) + b /\ Len(A) \in Nat /\ Len(Q) \in Nat
    BY <1>0 DEF InPlace
  <2>3. /\ Len(A2) = Len(A) + 1 /\ A2[Len(A) + 1] = reads + 1
        /\ \A j \in 1 .. Len(A) : A2[j] = A[j]
    BY <1>0, <2>1
  <2>4. /\ Len(Q2) = Len(Q) + 1 /\ Q2[Len(Q) + 1] = k
        /\ \A j \in 1 .. Len(Q) : Q2[j] = Q[j]
    BY <1>0, <2>1, Turns
  <2>5. ASSUME NEW j \in 1 .. Len(Q2)
        PROVE  Q2[j] = (A2[j + b] - 1) % N_IP
    <3>1. CASE j \in 1 .. Len(Q)
      <4>1. Q[j] = (A[j + b] - 1) % N_IP
        BY <1>0, <3>1 DEF InPlace
      <4>2. j + b \in 1 .. Len(A)
        BY <1>0, <2>2, <3>1
      <4> HIDE DEF A, Q, A2, Q2, b
      <4> QED BY <2>3, <2>4, <3>1, <4>1, <4>2
    <3>2. CASE j = Len(Q) + 1
      <4>1. j + b = Len(A) + 1
        BY <1>0, <2>2, <3>2
      <4>2. A2[j + b] - 1 = reads
        <5> HIDE DEF A, A2, b
        <5>1. A2[j + b] = reads + 1
          BY <2>3, <4>1
        <5> QED BY <1>0, <5>1
      <4>3. Q2[j] = reads % N_IP
        BY <2>4, <3>2 DEF k
      <4> HIDE DEF A2, Q2, b
      <4> QED BY <4>2, <4>3
    <3> QED BY <2>2, <2>4, <3>1, <3>2
  <2>6. ASSUME tx_sdu[u] # NULL
        PROVE  tx_sdu[u] = (A2[1] - 1) % N_IP
    <3>1. b = 1 /\ tx_sdu[u] = (A[1] - 1) % N_IP
      BY <1>0, <2>6 DEF InPlace, Begun
    <3>2. 1 \in 1 .. Len(A)
      BY <2>2, <3>1
    <3> HIDE DEF A, A2, b
    <3> QED BY <2>3, <3>1, <3>2
  <2>7. Len(A2) = Len(Q2) + b
    BY <1>0, <2>2, <2>3, <2>4
  <2> QED BY <1>1, <2>5, <2>6, <2>7 DEF InPlace
<1> QED BY <1>2, <1>3

\* A packet that is begun is still in its buffer.
LEMMA InPlacePull ==
  ASSUME BuffersInv, NEW u \in Rnti, Pull(u)
  PROVE  InPlace(u)'
<1> DEFINE A == aux_sdus[u]
           Q == queue[u]
           Q2 == queue'[u]
<1>0. /\ BuffersTypeOK /\ InPlace(u) /\ tx_sdu[u] = NULL
      /\ A \in Seq(1 .. MAX_READS) /\ Q \in Seq(Buffer) /\ Q # <<>>
      /\ NULL \notin Buffer
  <2>1. reads \in Nat
    BY DEF BuffersInv, BuffersTypeOK
  <2> QED BY <2>1, Turns DEF BuffersInv, BuffersTypeOK, Working, Pull
<1>1. /\ aux_sdus'[u] = A /\ Q2 = Tail(Q) /\ tx_sdu'[u] = Head(Q)
  BY <1>0 DEF Pull, BuffersTypeOK, auxVars
<1>2. /\ Head(Q) = Q[1] /\ Head(Q) \in Buffer /\ Len(Q2) = Len(Q) - 1
      /\ \A j \in 1 .. Len(Q2) : Q2[j] = Q[j + 1]
  BY <1>0, <1>1, TailOf
<1>3. Begun(u) = 0 /\ Begun(u)' = 1
  BY <1>0, <1>1, <1>2 DEF Begun
<1>4. /\ Len(A) = Len(Q) + 0 /\ Len(Q) \in Nat \ {0}
      /\ \A j \in 1 .. Len(Q) : Q[j] = (A[j + 0] - 1) % N_IP
  BY <1>0, <1>3 DEF InPlace
<1>5. ASSUME NEW j \in 1 .. Len(Q) PROVE Q[j] = (A[j] - 1) % N_IP
  <2>1. j + 0 = j
    OBVIOUS
  <2> QED BY <1>4, <2>1
<1>6. ASSUME NEW j \in 1 .. Len(Q2)
      PROVE  Q2[j] = (A[j + 1] - 1) % N_IP
  <2>1. j + 1 \in 1 .. Len(Q)
    BY <1>2, <1>4
  <2> HIDE DEF A, Q, Q2
  <2> QED BY <1>2, <1>5, <2>1
<1>7. tx_sdu'[u] = (A[1] - 1) % N_IP
  BY <1>1, <1>2, <1>4, <1>5
<1>8. Len(A) = Len(Q2) + 1
  BY <1>2, <1>4
<1> QED BY <1>1, <1>3, <1>6, <1>7, <1>8 DEF InPlace

\* When one is used up, the queue's are the first.
LEMMA InPlaceMoveAll ==
  ASSUME BuffersInv, NEW u \in Rnti, MoveAll(u)
  PROVE  InPlace(u)'
<1> DEFINE A == aux_sdus[u]
           B == aux_sdus'[u]
           Q == queue[u]
<1>0. /\ A \in Seq(1 .. MAX_READS) /\ Q \in Seq(Buffer) /\ InPlace(u)
      /\ tx_sdu[u] # NULL
  BY DEF BuffersInv, BuffersTypeOK, Working, MoveAll
<1>1. Begun(u) = 1 /\ Begun(u)' = 0 /\ tx_sdu'[u] = NULL /\ queue'[u] = Q
  BY <1>0 DEF Begun, MoveAll, BuffersInv, BuffersTypeOK, queueVars
<1>2. /\ Len(A) = Len(Q) + 1 /\ Len(Q) \in Nat
      /\ \A j \in 1 .. Len(Q) : Q[j] = (A[j + 1] - 1) % N_IP
  <2>1. Len(A) = Len(Q) + 1 /\ Len(Q) \in Nat
    BY <1>0, <1>1 DEF InPlace
  <2>2. \A j \in 1 .. Len(Q) : Q[j] = (A[j + 1] - 1) % N_IP
    BY <1>0, <1>1, Zenon DEF InPlace
  <2> QED BY <2>1, <2>2
<1>3. B = Tail(A) /\ A # <<>>
  <2>1. A # <<>>
    BY <1>0, <1>2
  <2> QED BY <2>1 DEF MoveAll, BuffersInv, BuffersTypeOK
<1>4. Len(B) = Len(A) - 1 /\ \A j \in 1 .. Len(B) : B[j] = A[j + 1]
  BY <1>0, <1>3, TailOf
<1>5. Len(B) = Len(Q) + 0
  BY <1>2, <1>4
<1>6. ASSUME NEW j \in 1 .. Len(Q)
      PROVE  Q[j] = (B[j + 0] - 1) % N_IP
  <2>1. j + 0 = j /\ j \in 1 .. Len(B)
    BY <1>2, <1>5
  <2> HIDE DEF A, B, Q
  <2> QED BY <1>2, <1>4, <2>1
<1> QED BY <1>1, <1>5, <1>6 DEF InPlace

LEMMA InPlaceStep ==
  ASSUME BuffersInv, [Next]_vars, NEW v \in Rnti
  PROVE  InPlace(v)'
<1>0. BuffersTypeOK /\ InPlace(v)
  BY DEF BuffersInv
<1>1. CASE Write
  BY <1>1, InPlaceWrite
<1>2. CASE UNCHANGED <<queue, tx_sdu, aux_sdus>>
  BY <1>0, <1>2 DEF InPlace, Begun
<1>3. ASSUME NEW u \in Rnti, Sender(u), u # v PROVE InPlace(v)'
  <2>1. aux_sdus'[v] = aux_sdus[v] /\ queue'[v] = queue[v] /\ tx_sdu'[v] = tx_sdu[v]
    BY <1>0, <1>3, OthersUntouched
  <2> QED BY <1>0, <2>1 DEF InPlace, Begun
<1>4. CASE Sender(v)
  BY <1>0, <1>2, <1>4, OwnSteps, InPlacePull, InPlaceMoveAll
<1> QED BY <1>1, <1>2, <1>3, <1>4 DEF Next, ReadTun, Wait, WakeSpuriously, vars,
      queueVars, senderVars, auxVars

\* All of u's unfinished packets are in the buffers they were read into.
LEMMA UnfinishedInPlace ==
  ASSUME BuffersTypeOK, NEW u \in Rnti, InPlace(u)
  PROVE  /\ DOMAIN Unfinished(u) = 1 .. Len(aux_sdus[u])
         /\ \A j \in 1 .. Len(aux_sdus[u]) :
              Unfinished(u)[j] = (aux_sdus[u][j] - 1) % N_IP
<1> DEFINE A == aux_sdus[u]
           Q == queue[u]
           U == Unfinished(u)
<1>0. /\ Q \in Seq(Buffer) /\ Len(Q) \in Nat
      /\ tx_sdu[u] # NULL => tx_sdu[u] \in Buffer
  BY DEF BuffersTypeOK
<1>1. CASE tx_sdu[u] = NULL
  <2>1. U = Q
    BY <1>0, <1>1 DEF Unfinished
  <2>2. Len(A) = Len(Q)
    BY <1>0, <1>1 DEF InPlace, Begun
  <2>3. ASSUME NEW j \in 1 .. Len(Q) PROVE Q[j] = (A[j] - 1) % N_IP
    <3>1. Q[j] = (A[j + 0] - 1) % N_IP
      BY <1>1, Zenon DEF InPlace, Begun
    <3>2. j + 0 = j
      OBVIOUS
    <3> QED BY <3>1, <3>2
  <2>4. DOMAIN Q = 1 .. Len(Q)
    BY <1>0
  <2> HIDE DEF A, Q, U
  <2> QED BY <2>1, <2>2, <2>3, <2>4 DEF U, A
<1>2. CASE tx_sdu[u] # NULL
  <2>1. /\ U = <<tx_sdu[u]>> \o Q /\ DOMAIN U = 1 .. Len(Q) + 1
        /\ U[1] = tx_sdu[u]
        /\ \A j \in 2 .. Len(Q) + 1 : U[j] = Q[j - 1]
    BY <1>0, <1>2 DEF Unfinished
  <2>2. Len(A) = Len(Q) + 1
    BY <1>0, <1>2 DEF InPlace, Begun
  <2>3. U[1] = (A[1] - 1) % N_IP
    BY <1>2, <2>1 DEF InPlace
  <2>4. ASSUME NEW j \in 2 .. Len(Q) + 1 PROVE U[j] = (A[j] - 1) % N_IP
    <3>1. j - 1 \in 1 .. Len(Q) /\ j - 1 + 1 = j
      BY <1>0
    <3>2. Q[j - 1] = (A[j - 1 + 1] - 1) % N_IP
      BY <1>2, <3>1, Zenon DEF InPlace, Begun
    <3> HIDE DEF A, Q, U
    <3> QED BY <2>1, <3>1, <3>2
  <2> HIDE DEF A, Q, U
  <2>5. ASSUME NEW j \in 1 .. Len(A) PROVE U[j] = (A[j] - 1) % N_IP
    BY <1>0, <2>2, <2>3, <2>4
  <2> QED BY <2>1, <2>2, <2>5 DEF U, A
<1> QED BY <1>1, <1>2

-----------------------------------------------------------------------------
(* Theorems.                                                               *)

LEMMA InvStep == BuffersInv /\ [Next]_vars => BuffersInv'
BY TypeStep, WriterStep, WorkingStep, RecentStep, InPlaceStep DEF BuffersInv

LEMMA Invariant == Spec => []BuffersInv
<1>1. Init => BuffersInv
  BY InitInv
<1>2. BuffersInv /\ [Next]_vars => BuffersInv'
  BY InvStep
<1> QED BY <1>1, <1>2, PTL DEF Spec

(***************************************************************************)
(* The buffers, the free list and the threads keep their types.            *)
(***************************************************************************)
THEOREM BuffersTypeCorrect == Spec => []BuffersTypeOK
<1>1. BuffersInv => BuffersTypeOK
  BY DEF BuffersInv
<1> QED BY <1>1, Invariant, PTL

(***************************************************************************)
(* No wake-up of the IP thread is lost (msg_queue.h:38, 55-56).            *)
(***************************************************************************)
THEOREM WriterIsNotForgotten == Spec => []WriterNotForgotten
<1>1. BuffersInv => WriterNotForgotten
  BY DEF BuffersInv
<1> QED BY <1>1, Invariant, PTL

(***************************************************************************)
(* build_data_pdu() does not sleep in read() (rlc_um.cc:290-296).          *)
(***************************************************************************)
THEOREM ReadNeverBlocks == Spec => []ReadDoesNotBlock
<1>1. BuffersInv => ReadDoesNotBlock
  BY DEF BuffersInv, Working, ReadDoesNotBlock
<1> QED BY <1>1, Invariant, PTL

(***************************************************************************)
(* With more buffers than the queues and the SDUs in work can hold, the IP *)
(* thread never reads into one that an RNTI has still to send              *)
(* (lte-ip-pkt.cc:32).                                                     *)
(***************************************************************************)
THEOREM BuffersNeverOverwritten == Spec => NeverOverwrites
<1>1. ASSUME BuffersInv, ReadTun, NEW u \in Rnti, NEW j \in DOMAIN Unfinished(u)
      PROVE  Unfinished(u)[j] # k
  <2> DEFINE A == aux_sdus[u]
             m == Len(A) - j + 1
  <2>1. BuffersTypeOK /\ Recent(u) /\ InPlace(u)
    BY <1>1 DEF BuffersInv
  <2>2. /\ reads \in Nat /\ Len(queue[u]) \in Nat /\ Len(queue[u]) <= CAP
        /\ Begun(u) \in {0, 1} /\ CAP \in Nat /\ N_RNTI \in Nat
        /\ N_IP \in Nat \ {0}
    BY <2>1 DEF BuffersTypeOK, Begun
  <2>3. Len(A) \in Nat /\ Len(A) <= CAP + 1
    BY <2>1, <2>2 DEF InPlace
  <2>4. j \in 1 .. Len(A) /\ Unfinished(u)[j] = (A[j] - 1) % N_IP
    BY <1>1, <2>1, UnfinishedInPlace
  <2>5. A[j] \in 1 .. reads /\ A[j] > reads - turns(m)
    BY <2>1, <2>4 DEF Recent
  <2>6. m \in Nat /\ m <= CAP + 1 /\ CAP + 1 \in Nat
    BY <2>2, <2>3, <2>4, SMTT(60)
  <2> HIDE DEF A, m
  <2>7. turns(m) \in Int /\ turns(m) < N_IP
    <3>1. N_RNTI * m <= N_RNTI * (CAP + 1)
      BY <2>2, <2>6, TimesMonotone
    <3>2. turns(m) \in Int /\ turns(m) <= N_RNTI * (CAP + 1)
      BY <2>2, <2>6, <3>1 DEF turns
    <3>3. N_RNTI * (CAP + 1) \in Int
      BY <2>2
    <3> HIDE DEF SduBuffersAssumption
    <3> QED BY <2>2, <3>2, <3>3, EnoughBuffers DEF EnoughBuffers
  <2>8. A[j] - 1 \in Int /\ A[j] - 1 < reads /\ reads - (A[j] - 1) < N_IP
    BY <2>2, <2>5, <2>7
  <2>9. reads % N_IP # (A[j] - 1) % N_IP
    BY <2>2, <2>8, OtherTurn
  <2> QED BY <2>4, <2>9 DEF k
<1>2. BuffersInv /\ [Next]_vars =>
        [ReadTun => \A u \in Rnti : \A j \in DOMAIN Unfinished(u) :
                      Unfinished(u)[j] # k]_vars
  BY <1>1
<1> QED BY <1>2, Invariant, PTL DEF Spec, NeverOverwrites

-----------------------------------------------------------------------------
(* Who owns a buffer in the first round.                                   *)

\* Packets are written in the order they were read.
Increasing(u) ==
    \A j, l \in 1 .. Len(aux_sdus[u]) : j < l => aux_sdus[u][j] < aux_sdus[u][l]

\* Between two PDUs a sender has none.
BetweenPdus(u) == spc[u] \in {"poll", "more"} => pdu[u] = NULL

\* The free list as a stack, its bottom first.
Stack(c, m) ==
    /\ first_available = IF m = 0 THEN NULL ELSE c[m]
    /\ \A j \in 1 .. m : next[c[j]] = IF j = 1 THEN NULL ELSE c[j - 1]
    /\ \A j, l \in 1 .. m : c[j] = c[l] => j = l

Listed(c, m) == {c[j] : j \in 1 .. m}

\* The buffers of u's packets and those the IP thread has not used yet.
Packets(u) == {aux_sdus[u][j] - 1 : j \in 1 .. Len(aux_sdus[u])}

Unused == reads .. (N_IP - 1)

\* A buffer of the list F is not one of the IP thread's to come or of a packet,
\* and a PDU is in a buffer that is none of these nor another sender's.
OwnersApart(F) ==
    /\ F \cap Unused = {}
    /\ \A u \in Rnti : Packets(u) \cap F = {}
    /\ \A u \in Rnti : pdu[u] # NULL =>
         /\ pdu[u] \notin F /\ pdu[u] \notin Unused
         /\ \A v \in Rnti : pdu[u] \notin Packets(v)
         /\ \A v \in Rnti : v # u => pdu[v] # pdu[u]

OneOwner ==
    \E m \in Nat : \E c \in [Nat -> Buffer] :
      Stack(c, m) /\ OwnersApart(Listed(c, m))

LEMMA IncreasingStep ==
  ASSUME BuffersInv, [Next]_vars, NEW v \in Rnti, Increasing(v)
  PROVE  Increasing(v)'
<1> DEFINE A == aux_sdus[v]
           B == aux_sdus'[v]
<1>0. /\ BuffersTypeOK /\ A \in Seq(1 .. MAX_READS) /\ reads \in Nat
      /\ \A j \in 1 .. Len(A) : A[j] \in 1 .. reads
      /\ \A j, l \in 1 .. Len(A) : j < l => A[j] < A[l]
      /\ aux_sdus \in [Rnti -> Seq(1 .. MAX_READS)]
      /\ InPlace(v) /\ queue[v] \in Seq(Buffer)
  BY SMTT(60) DEF BuffersInv, BuffersTypeOK, Recent, Increasing
<1>1. CASE Write /\ v = i
  <2>1. B = Append(A, reads + 1)
    BY <1>0, <1>1 DEF Write
  <2>2. /\ Len(A) \in Nat /\ Len(B) = Len(A) + 1 /\ B[Len(A) + 1] = reads + 1
        /\ \A j \in 1 .. Len(A) : B[j] = A[j]
    BY <1>0, <2>1
  <2> SUFFICES ASSUME NEW j \in 1 .. Len(B), NEW l \in 1 .. Len(B), j < l
               PROVE  B[j] < B[l]
    BY DEF Increasing
  <2> HIDE DEF A, B
  <2>3. j \in 1 .. Len(A) /\ B[j] = A[j]
    BY <2>2
  <2>4. CASE l = Len(A) + 1
    BY <1>0, <2>2, <2>3, <2>4
  <2>5. CASE l # Len(A) + 1
    <3>1. l \in 1 .. Len(A)
      BY <2>2, <2>5
    <3> QED BY <1>0, <2>2, <2>3, <3>1
  <2> QED BY <2>4, <2>5
<1>2. CASE MoveAll(v)
  <2>1. A # <<>>
    <3>1. tx_sdu[v] # NULL /\ Len(A) = Len(queue[v]) + 1
      BY <1>0, <1>2 DEF MoveAll, BuffersInv, Working, InPlace, Begun
    <3> QED BY <1>0, <3>1
  <2>2. B = Tail(A)
    BY <1>0, <1>2 DEF MoveAll
  <2>3. /\ Len(A) \in Nat /\ Len(B) = Len(A) - 1
        /\ \A j \in 1 .. Len(B) : B[j] = A[j + 1]
    BY <1>0, <2>1, <2>2, TailOf
  <2> SUFFICES ASSUME NEW j \in 1 .. Len(B), NEW l \in 1 .. Len(B), j < l
               PROVE  B[j] < B[l]
    BY DEF Increasing
  <2> HIDE DEF A, B
  <2>4. j + 1 \in 1 .. Len(A) /\ l + 1 \in 1 .. Len(A) /\ j + 1 < l + 1
    BY <2>3
  <2> QED BY <1>0, <2>3, <2>4
<1>3. CASE aux_sdus'[v] = aux_sdus[v]
  BY <1>0, <1>3 DEF Increasing
<1>4. ASSUME NEW u \in Rnti, Sender(u), u # v PROVE Increasing(v)'
  BY <1>0, <1>3, <1>4, OthersUntouched
<1>5. CASE Sender(v)
  BY <1>0, <1>2, <1>3, <1>5, OwnSteps DEF Pull, auxVars
<1>6. CASE Write /\ v # i
  BY <1>0, <1>3, <1>6 DEF Write
<1> QED BY <1>1, <1>3, <1>4, <1>5, <1>6 DEF Next, ReadTun, Wait, WakeSpuriously,
      vars, auxVars

LEMMA BetweenPdusStep ==
  ASSUME BuffersInv, [Next]_vars, NEW v \in Rnti, BetweenPdus(v)
  PROVE  BetweenPdus(v)'
<1>0. BuffersTypeOK
  BY DEF BuffersInv
<1>1. ASSUME NEW u \in Rnti, Sender(u), u # v PROVE BetweenPdus(v)'
  BY <1>0, <1>1, OthersUntouched DEF BetweenPdus
<1>2. CASE Sender(v)
  BY <1>0, <1>2 DEF Sender, BeginBuild, BuildWithoutPool, BuildLeaks, EndPdu,
       Pull, Notify, MovePart, MoveAll, Finish, Goto, BetweenPdus, Asks,
       BuffersTypeOK
<1> QED BY <1>1, <1>2 DEF Next, ReadTun, Write, Wait, WakeSpuriously, vars,
      senderVars, BetweenPdus

\* The first round does not come back.
LEMMA StillFirstRound ==
  ASSUME BuffersInv, [Next]_vars, FirstRound'
  PROVE  /\ FirstRound /\ reads <= N_IP
         /\ ReadTun \/ Write => reads < N_IP
<1>0. reads \in Nat /\ N_IP \in Nat /\ ipc \in {"read", "write", "wait"}
      /\ ipc' \in {"read", "write", "wait"}
  BY TypeStep DEF BuffersInv, BuffersTypeOK
<1>1. CASE ReadTun
  BY <1>0, <1>1 DEF ReadTun, FirstRound
<1>2. CASE Write
  BY <1>0, <1>2 DEF Write, FirstRound
<1>3. CASE Wait \/ WakeSpuriously
  BY <1>0, <1>3 DEF Wait, WakeSpuriously, FirstRound, ReadTun, Write
<1>4. ASSUME NEW u \in Rnti, Sender(u) PROVE reads' = reads /\ (ipc' = "read" <=> ipc = "read")
  BY <1>0, <1>4 DEF Sender, BeginBuild, BuildWithoutPool, BuildLeaks, EndPdu, Pull,
       Notify, MovePart, MoveAll, Finish, ipVars
<1>5. CASE UNCHANGED vars
  BY <1>0, <1>5 DEF vars, ipVars, FirstRound, ReadTun, Write
<1>6. CASE UNCHANGED reads /\ (ipc' = "read" <=> ipc = "read")
  BY <1>0, <1>6 DEF FirstRound, ReadTun, Write
<1> QED BY <1>1, <1>2, <1>3, <1>4, <1>5, <1>6 DEF Next

\* In the first round packet p is in buffer p - 1, one buffer for each packet.
LEMMA FirstRoundPlaces ==
  ASSUME BuffersInv, reads <= N_IP, NEW u \in Rnti
  PROVE  /\ Packets(u) \subseteq 0 .. (reads - 1)
         /\ \A j \in 1 .. Len(aux_sdus[u]) :
              (aux_sdus[u][j] - 1) % N_IP = aux_sdus[u][j] - 1
         /\ \A j \in 1 .. Len(queue[u]) :
              /\ j + Begun(u) \in 1 .. Len(aux_sdus[u])
              /\ queue[u][j] = aux_sdus[u][j + Begun(u)] - 1
         /\ tx_sdu[u] # NULL =>
              1 \in 1 .. Len(aux_sdus[u]) /\ tx_sdu[u] = aux_sdus[u][1] - 1
<1> DEFINE A == aux_sdus[u]
           Q == queue[u]
           b == Begun(u)
<1>0. /\ A \in Seq(1 .. MAX_READS) /\ Len(A) \in Nat
      /\ Q \in Seq(Buffer) /\ Len(Q) \in Nat /\ b \in {0, 1}
      /\ reads \in Nat /\ N_IP \in Nat \ {0} /\ Len(A) = Len(Q) + b
      /\ \A j \in 1 .. Len(A) : A[j] \in 1 .. reads
      /\ tx_sdu[u] # NULL => b = 1 /\ tx_sdu[u] = (A[1] - 1) % N_IP
  BY DEF BuffersInv, BuffersTypeOK, Recent, InPlace, Begun
<1>1. \A j \in 1 .. Len(Q) : Q[j] = (A[j + b] - 1) % N_IP
  BY DEF BuffersInv, InPlace
<1> HIDE DEF A, Q, b
<1>2. ASSUME NEW j \in 1 .. Len(A) PROVE (A[j] - 1) % N_IP = A[j] - 1
  <2>1. A[j] - 1 \in 0 .. (N_IP - 1)
    BY <1>0
  <2> DEFINE r == A[j] - 1
  <2>2. (N_IP * 0 + r) % N_IP = r
    <3>1. r \in 0 .. (N_IP - 1) /\ 0 \in Int
      BY <2>1
    <3> HIDE DEF r
    <3> QED BY <1>0, <3>1, Remainder
  <2>3. N_IP * 0 + r = r
    BY <1>0, <2>1
  <2> QED BY <2>2, <2>3
<1>3. \A j \in 1 .. Len(A) : A[j] - 1 \in 0 .. (reads - 1)
  BY <1>0
<1>4. ASSUME NEW j \in 1 .. Len(Q)
      PROVE  j + b \in 1 .. Len(A) /\ Q[j] = A[j + b] - 1
  <2>1. j + b \in 1 .. Len(A)
    BY <1>0
  <2> QED BY <1>1, <1>2, <2>1
<1>5. tx_sdu[u] # NULL => 1 \in 1 .. Len(A) /\ tx_sdu[u] = A[1] - 1
  BY <1>0, <1>2
<1>6. Packets(u) \subseteq 0 .. (reads - 1)
  BY <1>3 DEF Packets, A
<1> QED BY <1>2, <1>4, <1>5, <1>6 DEF A, Q, b

\* No two RNTIs have a packet in the same buffer.
LEMMA PacketsApart ==
  ASSUME BuffersInv, NEW u \in Rnti, NEW v \in Rnti, u # v
  PROVE  Packets(u) \cap Packets(v) = {}
<1> SUFFICES ASSUME NEW j \in 1 .. Len(aux_sdus[u]), NEW l \in 1 .. Len(aux_sdus[v]),
                    aux_sdus[u][j] - 1 = aux_sdus[v][l] - 1
             PROVE  FALSE
  BY DEF Packets
<1>1. (aux_sdus[u][j] - 1) % N_RNTI = u /\ (aux_sdus[v][l] - 1) % N_RNTI = v
  BY DEF BuffersInv, Recent
<1> QED BY <1>1

\* The SDU that is begun is not one of the queue.
LEMMA BegunApart ==
  ASSUME BuffersInv, reads <= N_IP, NEW u \in Rnti, Increasing(u),
         NEW j \in 1 .. Len(queue[u])
  PROVE  /\ queue[u][j] \in Packets(u)
         /\ tx_sdu[u] # NULL => tx_sdu[u] \in Packets(u) /\ queue[u][j] # tx_sdu[u]
<1>1. j + Begun(u) \in 1 .. Len(aux_sdus[u])
      /\ queue[u][j] = aux_sdus[u][j + Begun(u)] - 1
  BY FirstRoundPlaces
<1>2. queue[u][j] \in Packets(u)
  BY <1>1 DEF Packets
<1>3. ASSUME tx_sdu[u] # NULL
      PROVE  tx_sdu[u] \in Packets(u) /\ queue[u][j] # tx_sdu[u]
  <2>1. 1 \in 1 .. Len(aux_sdus[u]) /\ tx_sdu[u] = aux_sdus[u][1] - 1 /\ Begun(u) = 1
    BY <1>3, FirstRoundPlaces DEF Begun
  <2>2. tx_sdu[u] \in Packets(u)
    BY <2>1 DEF Packets
  <2>3. queue[u] \in Seq(Buffer) /\ aux_sdus[u] \in Seq(1 .. MAX_READS)
    BY DEF BuffersInv, BuffersTypeOK
  <2>4. aux_sdus[u][1] < aux_sdus[u][j + 1]
    BY <1>1, <2>1, <2>3 DEF Increasing
  <2>5. aux_sdus[u][1] \in Int /\ aux_sdus[u][j + 1] \in Int
    <3>1. \A l \in 1 .. Len(aux_sdus[u]) : aux_sdus[u][l] \in Int
      BY <2>3
    <3> QED BY <1>1, <2>1, <3>1
  <2> QED BY <1>1, <2>1, <2>2, <2>4, <2>5
<1> QED BY <1>2, <1>3

\* What a step does to the buffers of a sender's packets.
LEMMA PacketsStep ==
  ASSUME BuffersInv, reads <= N_IP, [Next]_vars, NEW v \in Rnti, Increasing(v)
  PROVE  Packets(v)' = IF Write /\ v = i THEN Packets(v) \cup {reads}
                       ELSE IF MoveAll(v) THEN Packets(v) \ {tx_sdu[v]}
                       ELSE Packets(v)
<1> DEFINE A == aux_sdus[v]
           B == aux_sdus'[v]
<1>0. /\ BuffersTypeOK /\ A \in Seq(1 .. MAX_READS) /\ Len(A) \in Nat
      /\ aux_sdus \in [Rnti -> Seq(1 .. MAX_READS)] /\ reads \in Nat
      /\ MoveAll(v) => tx_sdu[v] # NULL
  <2>1. BuffersTypeOK /\ Working(v)
    BY DEF BuffersInv
  <2>2. aux_sdus \in [Rnti -> Seq(1 .. MAX_READS)] /\ reads \in Nat
    BY <2>1 DEF BuffersTypeOK
  <2>3. MoveAll(v) => tx_sdu[v] # NULL
    BY <2>1 DEF Working, MoveAll
  <2> QED BY <2>1, <2>2, <2>3
<1>1. CASE Write /\ v = i
  <2>1. B = Append(A, reads + 1)
    BY <1>0, <1>1 DEF Write
  <2>2. /\ Len(B) = Len(A) + 1 /\ B[Len(A) + 1] = reads + 1
        /\ \A j \in 1 .. Len(A) : B[j] = A[j]
    BY <1>0, <2>1
  <2>3. {B[j] - 1 : j \in 1 .. Len(B)} = {A[j] - 1 : j \in 1 .. Len(A)} \cup {reads}
    <3> HIDE DEF A, B
    <3>1. 1 .. Len(B) = (1 .. Len(A)) \cup {Len(A) + 1}
      BY <1>0, <2>2
    <3>2. (reads + 1) - 1 = reads
      BY <1>0
    <3> QED BY <2>2, <3>1, <3>2
  <2> QED BY <1>1, <2>3 DEF Packets
<1>2. CASE MoveAll(v)
  <2>1. ~Write
    BY <1>0, <1>2 DEF MoveAll, Write, ipVars
  <2>2. 1 \in 1 .. Len(A) /\ tx_sdu[v] = A[1] - 1 /\ A # <<>>
    BY <1>0, <1>2, FirstRoundPlaces
  <2>3. B = Tail(A)
    BY <1>0, <1>2 DEF MoveAll
  <2>4. Len(B) = Len(A) - 1 /\ \A j \in 1 .. Len(B) : B[j] = A[j + 1]
    BY <1>0, <2>2, <2>3, TailOf
  <2>5. \A j \in 1 .. Len(A) : A[j] \in Int
    BY <1>0
  <2>6. \A j \in 2 .. Len(A) : A[1] < A[j]
    BY <1>0, <2>2 DEF Increasing
  <2>7. {B[j] - 1 : j \in 1 .. Len(B)} = {A[j] - 1 : j \in 1 .. Len(A)} \ {A[1] - 1}
    <3> HIDE DEF A, B
    <3>1. ASSUME NEW j \in 1 .. Len(B)
          PROVE  /\ B[j] - 1 \in {A[l] - 1 : l \in 1 .. Len(A)}
                 /\ B[j] - 1 # A[1] - 1
      <4>1. j + 1 \in 2 .. Len(A) /\ j + 1 \in 1 .. Len(A)
        BY <1>0, <2>4
      <4>2. B[j] = A[j + 1] /\ A[1] < A[j + 1] /\ A[1] \in Int /\ A[j + 1] \in Int
        BY <2>2, <2>4, <2>5, <2>6, <4>1
      <4> QED BY <4>1, <4>2
    <3>2. ASSUME NEW j \in 1 .. Len(A), A[j] - 1 # A[1] - 1
          PROVE  A[j] - 1 \in {B[l] - 1 : l \in 1 .. Len(B)}
      <4>1. j # 1
        BY <3>2
      <4>2. j - 1 \in 1 .. Len(B) /\ (j - 1) + 1 = j
        BY <1>0, <2>4, <4>1
      <4>3. B[j - 1] = A[j]
        BY <2>4, <4>2
      <4> QED BY <4>2, <4>3
    <3> QED BY <3>1, <3>2
  <2> QED BY <1>2, <2>1, <2>2, <2>7 DEF Packets
<1>3. CASE B = A /\ ~MoveAll(v) /\ ~(Write /\ v = i)
  BY <1>3, Zenon DEF Packets
<1>4. CASE ~MoveAll(v) /\ ~(Write /\ v = i)
  <2>1. CASE Write
    BY <1>0, <1>3, <1>4, <2>1 DEF Write
  <2>2. ASSUME NEW u \in Rnti, Sender(u) PROVE B = A
    <3>1. CASE u = v
      BY <1>0, <1>4, <2>2, <3>1, OwnSteps DEF Pull, auxVars
    <3>2. CASE u # v
      BY <1>0, <2>2, <3>2, OthersUntouched
    <3> QED BY <3>1, <3>2
  <2>3. CASE ~Write
    <3>1. B = A
      BY <2>2, <2>3 DEF Next, ReadTun, Wait, WakeSpuriously, vars, auxVars
    <3> QED BY <1>3, <1>4, <3>1
  <2> QED BY <2>1, <2>3
<1> QED BY <1>1, <1>2, <1>4

\* The pool's operations on the stack.
LEMMA AllocateStack ==
  ASSUME BuffersTypeOK, NULL \notin Buffer, allocate, first_available # NULL,
         NEW m \in Nat, NEW c \in [Nat -> Buffer], Stack(c, m)
  PROVE  /\ m - 1 \in Nat /\ Stack(c, m - 1)'
         /\ first_available \in Listed(c, m)
         /\ Listed(c, m - 1) = Listed(c, m) \ {first_available}
<1>1. m \in 1 .. m /\ m - 1 \in Nat /\ first_available = c[m]
  BY DEF Stack
<1>2. first_available' = (IF m = 1 THEN NULL ELSE c[m - 1]) /\ next' = next
  BY <1>1 DEF Stack, allocate
<1>3. Stack(c, m - 1)'
  BY <1>1, <1>2 DEF Stack
<1>4. Listed(c, m - 1) = Listed(c, m) \ {c[m]}
  <2>1. 1 .. m = (1 .. (m - 1)) \cup {m} /\ m \notin 1 .. (m - 1)
    BY <1>1
  <2> QED BY <1>1, <2>1 DEF Listed, Stack
<1> QED BY <1>1, <1>3, <1>4 DEF Listed

LEMMA DeallocateStack ==
  ASSUME BuffersTypeOK, NEW b \in Buffer, NEW lengths, deallocate(b, lengths),
         NEW m \in Nat, NEW c \in [Nat -> Buffer], Stack(c, m), b \notin Listed(c, m)
  PROVE  \E d \in [Nat -> Buffer] :
           Stack(d, m + 1)' /\ Listed(d, m + 1) = Listed(c, m) \cup {b}
<1> DEFINE d == [c EXCEPT ![m + 1] = b]
<1>1. /\ d \in [Nat -> Buffer] /\ d[m + 1] = b
      /\ \A j \in 1 .. m : d[j] = c[j] /\ c[j] # b /\ c[j] \in Buffer
      /\ 1 .. (m + 1) = (1 .. m) \cup {m + 1} /\ m + 1 \in Nat /\ m + 1 # 0
  BY DEF Listed
<1>2. /\ first_available' = b /\ next'[b] = first_available
      /\ \A x \in Buffer : x # b => next'[x] = next[x]
  BY DEF deallocate, BuffersTypeOK
<1> HIDE DEF d
<1>3. Listed(d, m + 1) = Listed(c, m) \cup {b}
  BY <1>1 DEF Listed
<1>4. \A j, l \in 1 .. (m + 1) : d[j] = d[l] => j = l
  BY <1>1 DEF Stack
<1>5. ASSUME NEW j \in 1 .. (m + 1)
      PROVE  next'[d[j]] = IF j = 1 THEN NULL ELSE d[j - 1]
  <2>1. CASE j = m + 1
    <3>1. next'[d[j]] = IF m = 0 THEN NULL ELSE c[m]
      BY <1>1, <1>2, <2>1 DEF Stack
    <3>2. m # 0 => m \in 1 .. m /\ d[m] = c[m]
      BY <1>1
    <3> QED BY <2>1, <3>1, <3>2
  <2>2. CASE j \in 1 .. m
    <3>1. next'[d[j]] = next[c[j]] /\ next[c[j]] = IF j = 1 THEN NULL ELSE c[j - 1]
      BY <1>1, <1>2, <2>2 DEF Stack
    <3>2. j # 1 => j - 1 \in 1 .. m /\ d[j - 1] = c[j - 1]
      BY <1>1, <2>2
    <3> QED BY <3>1, <3>2
  <2> QED BY <1>1, <2>1, <2>2
<1>6. Stack(d, m + 1)'
  BY <1>1, <1>2, <1>4, <1>5 DEF Stack
<1> QED BY <1>1, <1>3, <1>6

\* The list as it is set up.
LEMMA InitOneOwner == Init => OneOwner
<1> SUFFICES ASSUME Init PROVE OneOwner
  OBVIOUS
<1> DEFINE m == POOL_SIZE
           c == [j \in Nat |-> IF j \in 1 .. m THEN N_BUF - j ELSE 0]
<1>1. m \in Nat \ {0} /\ N_IP \in Nat \ {0} /\ NULL \notin Int /\ N_BUF = N_IP + m
  BY DEF N_BUF
<1>2. /\ \A j \in 1 .. m : c[j] = N_BUF - j
      /\ \A j \in Nat : j \notin 1 .. m => c[j] = 0
  OBVIOUS
<1>3. c \in [Nat -> Buffer]
  <2>1. \A j \in Nat : c[j] \in Buffer
    BY <1>1 DEF Buffer
  <2> HIDE DEF m
  <2> QED BY <2>1
<1>4. /\ \A b \in Buffer : next[b] = IF b < N_IP \/ b = N_BUF - 1 THEN NULL ELSE b + 1
      /\ first_available = N_IP /\ reads = 0
      /\ \A u \in Rnti : pdu[u] = NULL /\ aux_sdus[u] = <<>>
  BY DEF Init
<1> HIDE DEF m, c
<1>5. Stack(c, m)
  <2>1. first_available = c[m]
    <3>1. m \in 1 .. m
      BY <1>1
    <3> QED BY <1>1, <1>2, <1>4, <3>1
  <2>2. ASSUME NEW j \in 1 .. m
        PROVE  next[c[j]] = IF j = 1 THEN NULL ELSE c[j - 1]
    <3>1. c[j] = N_BUF - j /\ c[j] \in Buffer /\ (j # 1 => c[j - 1] = N_BUF - (j - 1))
      BY <1>1, <1>2 DEF Buffer
    <3> QED BY <1>1, <1>4, <3>1
  <2>3. \A j, l \in 1 .. m : c[j] = c[l] => j = l
    BY <1>1, <1>2
  <2> QED BY <1>1, <2>1, <2>2, <2>3 DEF Stack
<1>6. OwnersApart(Listed(c, m))
  <2>1. \A j \in 1 .. m : c[j] \notin Unused
    BY <1>1, <1>2, <1>4 DEF Unused
  <2>2. \A u \in Rnti : Packets(u) = {} /\ pdu[u] = NULL
    BY <1>4 DEF Packets
  <2> QED BY <2>1, <2>2 DEF OwnersApart, Listed
<1> QED BY <1>1, <1>3, <1>5, <1>6 DEF OneOwner

LEMMA OneOwnerStep ==
  ASSUME BuffersInv, [Next]_vars, FirstRound', OneOwner,
         \A u \in Rnti : Increasing(u) /\ BetweenPdus(u)
  PROVE  OneOwner'
<1>0. /\ BuffersTypeOK /\ NULL \notin Buffer /\ reads \in Nat /\ N_IP \in Nat
      /\ reads <= N_IP /\ (Write => reads < N_IP) /\ i \in Rnti
      /\ pdu \in [Rnti -> Buffer \cup {NULL}]
      /\ \A u \in Rnti : Packets(u) \subseteq 0 .. (reads - 1)
  <2>1. BuffersTypeOK
    BY DEF BuffersInv
  <2>2. reads \in Nat /\ pdu \in [Rnti -> Buffer \cup {NULL}]
    BY <2>1 DEF BuffersTypeOK
  <2>3. reads <= N_IP /\ (Write => reads < N_IP)
    BY StillFirstRound
  <2> QED BY <2>1, <2>2, <2>3, Turns, FirstRoundPlaces
<1>1. PICK m \in Nat, c \in [Nat -> Buffer] : Stack(c, m) /\ OwnersApart(Listed(c, m))
  BY DEF OneOwner
<1> DEFINE F == Listed(c, m)
<1>2. CASE UNCHANGED <<next, first_available, reads, pdu, aux_sdus>>
  <2>1. Stack(c, m)'
    BY <1>1, <1>2 DEF Stack
  <2>2. Unused' = Unused /\ \A v \in Rnti : Packets(v)' = Packets(v)
    BY <1>2 DEF Unused, Packets
  <2>3. OwnersApart(F)'
    <3> HIDE DEF F
    <3> QED BY <1>1, <1>2, <2>2 DEF OwnersApart, F
  <2> QED BY <2>1, <2>3 DEF OneOwner
<1>3. CASE Write
  <2>1. Stack(c, m)' /\ pdu' = pdu /\ reads' = reads + 1
    BY <1>1, <1>3 DEF Write, Stack, poolVars, senderVars
  <2>2. /\ Unused' = Unused \ {reads} /\ reads \in Unused
    BY <1>0, <1>3, <2>1 DEF Unused
  <2>4. ASSUME NEW v \in Rnti PROVE Packets(v)' \subseteq Packets(v) \cup {reads}
    <3>1. Increasing(v)
      OBVIOUS
    <3> QED BY <1>0, <3>1, PacketsStep
  <2> HIDE DEF F
  <2>5. OwnersApart(F)'
    BY <1>1, <2>1, <2>2, <2>4 DEF OwnersApart, F
  <2> QED BY <2>1, <2>5 DEF OneOwner, F
<1>4. ASSUME NEW u \in Rnti, BeginBuild(u) PROVE OneOwner'
  <2>1. /\ allocate /\ first_available # NULL /\ pdu[u] = NULL
        /\ pdu' = [pdu EXCEPT ![u] = first_available]
        /\ UNCHANGED <<reads, aux_sdus>>
    BY <1>4 DEF BeginBuild, BetweenPdus, Asks, ipVars, auxVars
  <2>2. /\ m - 1 \in Nat /\ Stack(c, m - 1)'
        /\ first_available \in F
        /\ Listed(c, m - 1) = F \ {first_available}
    BY <1>0, <1>1, <2>1, AllocateStack
  <2>3. /\ Unused' = Unused /\ \A v \in Rnti : Packets(v)' = Packets(v)
        /\ pdu'[u] = first_available /\ \A v \in Rnti : v # u => pdu'[v] = pdu[v]
    BY <1>0, <2>1 DEF Unused, Packets
  <2> HIDE DEF F
  <2>4. OwnersApart(F)
    BY <1>1 DEF F
  <2>5. OwnersApart(Listed(c, m - 1))'
    BY <2>1, <2>2, <2>3, <2>4 DEF OwnersApart
  <2> QED BY <2>2, <2>5 DEF OneOwner
<1>5. ASSUME NEW u \in Rnti, BuildLeaks(u) PROVE OneOwner'
  <2>1. /\ allocate /\ first_available # NULL /\ pdu' = pdu
        /\ UNCHANGED <<reads, aux_sdus>>
    BY <1>5 DEF BuildLeaks, ipVars
  <2>2. /\ m - 1 \in Nat /\ Stack(c, m - 1)'
        /\ Listed(c, m - 1) = F \ {first_available}
    BY <1>0, <1>1, <2>1, AllocateStack
  <2>3. Unused' = Unused /\ \A v \in Rnti : Packets(v)' = Packets(v)
    BY <1>0, <2>1 DEF Unused, Packets
  <2> HIDE DEF F
  <2>4. OwnersApart(F)
    BY <1>1 DEF F
  <2>5. OwnersApart(Listed(c, m - 1))'
    BY <2>1, <2>2, <2>3, <2>4 DEF OwnersApart
  <2> QED BY <2>2, <2>5 DEF OneOwner
<1>6. ASSUME NEW u \in Rnti, MoveAll(u) PROVE OneOwner'
  <2> DEFINE b == tx_sdu[u]
  <2>1. /\ b # NULL /\ b \in Buffer
        /\ deallocate(b, [n_bytes EXCEPT ![pdu[u]] = @ + n_bytes[b]])
        /\ UNCHANGED <<reads, pdu>>
    <3>1. b # NULL
      BY <1>6 DEF BuffersInv, Working, MoveAll
    <3> QED BY <1>0, <1>6, <3>1 DEF MoveAll, BuffersTypeOK, ipVars
  <2>2. b \in Packets(u)
    BY <1>0, <2>1, FirstRoundPlaces DEF Packets
  <2>3. /\ Packets(u)' = Packets(u) \ {b}
        /\ \A v \in Rnti : v # u => Packets(v)' = Packets(v) /\ b \notin Packets(v)
    <3>1. ~Write /\ \A v \in Rnti : v # u => ~MoveAll(v)
      BY <1>0, <1>6 DEF Write, MoveAll, Goto, ipVars, BuffersTypeOK
    <3>2. \A v \in Rnti : v # u => b \notin Packets(v)
      BY <2>2, PacketsApart
    <3> QED BY <1>0, <1>6, <3>1, <3>2, PacketsStep
  <2>4. b \notin F /\ b \notin Unused /\ OwnersApart(F)
        /\ \A v \in Rnti : pdu[v] # NULL => pdu[v] # b
    <3>1. b \notin Unused
      BY <1>0, <2>2 DEF Unused
    <3> QED BY <1>1, <2>2, <3>1 DEF OwnersApart
  <2>5. PICK d \in [Nat -> Buffer] : Stack(d, m + 1)' /\ Listed(d, m + 1) = F \cup {b}
    <3> HIDE DEF b
    <3> QED BY <1>0, <1>1, <2>1, <2>4, DeallocateStack
  <2>6. Unused' = Unused /\ pdu' = pdu
    BY <2>1 DEF Unused
  <2> HIDE DEF F, b
  <2>7. OwnersApart(Listed(d, m + 1))'
    BY <2>2, <2>3, <2>4, <2>5, <2>6 DEF OwnersApart
  <2>8. m + 1 \in Nat
    OBVIOUS
  <2> QED BY <2>5, <2>7, <2>8 DEF OneOwner
<1>7. ASSUME NEW u \in Rnti, Finish(u) PROVE OneOwner'
  <2> DEFINE b == pdu[u]
  <2>1. /\ b # NULL /\ b \in Buffer /\ deallocate(b, n_bytes)
        /\ pdu' = [pdu EXCEPT ![u] = NULL]
        /\ UNCHANGED <<reads, aux_sdus>>
    <3>1. b # NULL
      BY <1>7 DEF BuffersInv, Working, Finish
    <3> QED BY <1>0, <1>7, <3>1 DEF Finish, ipVars, auxVars
  <2>2. b \notin F /\ OwnersApart(F)
    BY <1>1, <2>1 DEF OwnersApart
  <2>3. PICK d \in [Nat -> Buffer] : Stack(d, m + 1)' /\ Listed(d, m + 1) = F \cup {b}
    <3> HIDE DEF b
    <3> QED BY <1>0, <1>1, <2>1, <2>2, DeallocateStack
  <2>4. /\ Unused' = Unused /\ \A v \in Rnti : Packets(v)' = Packets(v)
        /\ pdu'[u] = NULL /\ \A v \in Rnti : v # u => pdu'[v] = pdu[v]
    BY <1>0, <2>1 DEF Unused, Packets
  <2>5. /\ b \notin Unused
        /\ \A v \in Rnti : b \notin Packets(v) /\ (v # u => pdu[v] # b)
    BY <2>1, <2>2 DEF OwnersApart
  <2> HIDE DEF F, b
  <2>6. OwnersApart(Listed(d, m + 1))'
    BY <2>2, <2>3, <2>4, <2>5 DEF OwnersApart
  <2>7. m + 1 \in Nat
    OBVIOUS
  <2> QED BY <2>3, <2>6, <2>7 DEF OneOwner
<1>8. ASSUME NEW u \in Rnti,
             BuildWithoutPool(u) \/ EndPdu(u) \/ Pull(u) \/ Notify(u) \/ MovePart(u)
      PROVE  OneOwner'
  BY <1>2, <1>8 DEF BuildWithoutPool, EndPdu, Pull, Notify, MovePart, poolVars,
       ipVars, auxVars
<1> QED BY <1>2, <1>3, <1>4, <1>5, <1>6, <1>7, <1>8 DEF Next, Sender, ReadTun, Wait,
      WakeSpuriously, vars, poolVars, ipVars, senderVars, auxVars

-----------------------------------------------------------------------------
(* What is in the buffers in the first round.                              *)

\* Each packet's buffer points to the packet ...
Intact(u) ==
    \A j \in 1 .. Len(aux_sdus[u]) : content[aux_sdus[u][j] - 1] = aux_sdus[u][j]

\* ... and has its length while it is in the queue, ...
AtLength(u) ==
    \A j \in 1 .. Len(queue[u]) :
      n_bytes[queue[u][j]] = length(aux_sdus[u][j + Begun(u)])

\* ... which counts these lengths.
Lengths(u) == [j \in 1 .. Len(queue[u]) |-> n_bytes[queue[u][j]]]

Counted(u) == unread_bytes[u] = Total(Lengths(u))

Contents(u) == Intact(u) /\ AtLength(u) /\ Counted(u)

\* The packet that is read and not yet in a queue.
BeingWritten ==
    ipc # "read" =>
      content[reads] = reads + 1 /\ n_bytes[reads] = length(reads + 1)

\* A sender writes to its PDU's buffer and to that of the SDU it has begun.
LEMMA SenderTouches ==
  ASSUME BuffersInv, NEW u \in Rnti, Sender(u), NEW b \in Buffer, b # pdu[u]
  PROVE  /\ b # tx_sdu[u] => n_bytes'[b] = n_bytes[b] /\ content'[b] = content[b]
         /\ ~MoveAll(u) => content'[b] = content[b]
<1>0. /\ n_bytes \in [Buffer -> Nat] /\ content \in [Buffer -> 0 .. MAX_READS]
      /\ Working(u) /\ pdu[u] \in Buffer \cup {NULL} /\ tx_sdu[u] \in Buffer \cup {NULL}
  BY DEF BuffersInv, BuffersTypeOK
<1>1. CASE MoveAll(u)
  <2>1. pdu[u] \in Buffer /\ tx_sdu[u] \in Buffer
    BY <1>0, <1>1 DEF MoveAll, Working
  <2> DEFINE lengths == [n_bytes EXCEPT ![pdu[u]] = @ + n_bytes[tx_sdu[u]]]
  <2>2. lengths[b] = n_bytes[b] /\ DOMAIN lengths = Buffer
    BY <1>0
  <2>3. deallocate(tx_sdu[u], lengths)
    BY <1>1 DEF MoveAll
  <2> HIDE DEF lengths
  <2> QED BY <1>0, <1>1, <2>1, <2>2, <2>3 DEF deallocate
<1>2. CASE MovePart(u)
  <2>1. pdu[u] \in Buffer /\ tx_sdu[u] \in Buffer /\ content' = content
    BY <1>0, <1>2 DEF MovePart, Working
  <2>2. PICK n \in 0 .. (n_bytes[tx_sdu[u]] - 1) :
          n_bytes' = [n_bytes EXCEPT ![pdu[u]] = @ + n, ![tx_sdu[u]] = @ - n]
    BY <1>2 DEF MovePart
  <2> QED BY <1>0, <2>1, <2>2
<1>3. CASE Finish(u)
  BY <1>0, <1>3 DEF Finish, deallocate
<1>4. CASE BeginBuild(u) \/ BuildWithoutPool(u) \/ BuildLeaks(u) \/ EndPdu(u)
           \/ Pull(u) \/ Notify(u)
  BY <1>4 DEF BeginBuild, BuildWithoutPool, BuildLeaks, EndPdu, Pull, Notify, bufVars
<1> QED BY <1>1, <1>2, <1>3, <1>4 DEF Sender

\* A buffer of u's packets is written to by no other sender, and by u's own
\* only when its packet is begun.
LEMMA PacketsUntouched ==
  ASSUME BuffersInv, OneOwner, reads <= N_IP, NEW u \in Rnti, Sender(u),
         NEW v \in Rnti, NEW b \in Packets(v)
  PROVE  /\ u # v \/ b # tx_sdu[u] => n_bytes'[b] = n_bytes[b] /\ content'[b] = content[b]
         /\ ~MoveAll(v) => content'[b] = content[b]
<1>1. b \in Buffer
  <2>1. b \in 0 .. (reads - 1) /\ reads \in Nat
    BY FirstRoundPlaces DEF BuffersInv, BuffersTypeOK
  <2> QED BY <2>1 DEF Buffer, N_BUF
<1>2. b # pdu[u]
  <2>1. NULL \notin Buffer
    BY Turns DEF BuffersInv, BuffersTypeOK
  <2>2. pdu[u] # NULL => pdu[u] \notin Packets(v)
    BY DEF OneOwner, OwnersApart
  <2> QED BY <1>1, <2>1, <2>2
<1>3. u # v => b # tx_sdu[u]
  <2>1. CASE tx_sdu[u] # NULL
    <3>1. tx_sdu[u] \in Packets(u)
      BY <2>1, FirstRoundPlaces DEF Packets
    <3> QED BY <3>1, PacketsApart
  <2>2. CASE tx_sdu[u] = NULL
    BY <1>1, <2>2, Turns DEF BuffersInv, BuffersTypeOK
  <2> QED BY <2>1, <2>2
<1> QED BY <1>1, <1>2, <1>3, SenderTouches

\* A step that does not touch them.
LEMMA ContentsKept ==
  ASSUME NEW v \in Rnti, Contents(v),
         aux_sdus'[v] = aux_sdus[v], queue'[v] = queue[v],
         unread_bytes'[v] = unread_bytes[v], Begun(v)' = Begun(v),
         \A b \in Packets(v) : content'[b] = content[b],
         \A j \in 1 .. Len(queue[v]) : n_bytes'[queue[v][j]] = n_bytes[queue[v][j]]
  PROVE  Contents(v)'
<1>1. Intact(v)'
  BY DEF Contents, Intact, Packets
<1>2. AtLength(v)'
  BY DEF Contents, AtLength
<1>3. Lengths(v)' = Lengths(v)
  BY DEF Lengths
<1>4. Counted(v)'
  BY <1>3 DEF Contents, Counted
<1> QED BY <1>1, <1>2, <1>4 DEF Contents

LEMMA LengthsType ==
  ASSUME BuffersTypeOK, NEW u \in Rnti
  PROVE  Lengths(u) \in Seq(Int) /\ Len(Lengths(u)) = Len(queue[u])
<1>1. queue[u] \in Seq(Buffer) /\ n_bytes \in [Buffer -> Nat]
  BY DEF BuffersTypeOK
<1>2. Len(queue[u]) \in Nat /\ \A j \in 1 .. Len(queue[u]) : n_bytes[queue[u][j]] \in Int
  BY <1>1
<1> QED BY <1>2 DEF Lengths

\* In the first round the k-th packet read goes into the k-th buffer.
LEMMA FirstTurn ==
  ASSUME reads \in Nat, reads < N_IP
  PROVE  k = reads
<1>1. reads \in 0 .. (N_IP - 1) /\ 0 \in Int /\ N_IP \in Nat \ {0}
  OBVIOUS
<1>2. (N_IP * 0 + reads) % N_IP = reads
  BY <1>1, Remainder
<1>3. N_IP * 0 + reads = reads
  BY <1>1
<1> QED BY <1>2, <1>3 DEF k

\* A packet that is written is as it was read, and is counted.
LEMMA ContentsWrite ==
  ASSUME BuffersInv, Write, reads < N_IP, BeingWritten, NEW v \in Rnti, Contents(v),
         InPlace(v)'
  PROVE  Contents(v)'
<1> DEFINE A == aux_sdus[v]
           B == aux_sdus'[v]
           Q == queue[v]
           b == Begun(v)
<1>0. /\ BuffersTypeOK /\ reads \in Nat /\ N_IP \in Nat \ {0}
      /\ A \in Seq(1 .. MAX_READS) /\ Len(A) \in Nat
      /\ Q \in Seq(Buffer) /\ Len(Q) \in Nat /\ b \in {0, 1}
      /\ Len(A) = Len(Q) + b
      /\ n_bytes' = n_bytes /\ content' = content /\ tx_sdu' = tx_sdu
      /\ Begun(v)' = b
  <2>1. BuffersTypeOK /\ Len(A) = Len(Q) + b
    BY DEF BuffersInv, InPlace
  <2>2. /\ reads \in Nat /\ N_IP \in Nat \ {0} /\ A \in Seq(1 .. MAX_READS)
        /\ Q \in Seq(Buffer)
    BY <2>1 DEF BuffersTypeOK
  <2>3. n_bytes' = n_bytes /\ content' = content /\ tx_sdu' = tx_sdu
    BY DEF Write, bufVars, senderVars
  <2>4. b \in {0, 1} /\ Begun(v)' = b
    BY <2>3, Zenon DEF Begun
  <2> HIDE DEF A, Q, b
  <2> QED BY <2>1, <2>2, <2>3, <2>4
<1>1. CASE v # i
  <2>1. aux_sdus'[v] = A /\ queue'[v] = Q /\ unread_bytes'[v] = unread_bytes[v]
    BY <1>0, <1>1 DEF Write, BuffersTypeOK
  <2> QED BY <1>0, <2>1, ContentsKept
<1>2. CASE v = i
  <2> DEFINE R == queue'[v]
  <2>1. k = reads
    BY <1>0, FirstTurn
  <2>2. /\ content[reads] = reads + 1 /\ n_bytes[reads] = length(reads + 1)
        /\ B = Append(A, reads + 1) /\ R = Append(Q, reads)
        /\ unread_bytes'[v] = unread_bytes[v] + n_bytes[reads]
    BY <1>0, <1>2, <2>1 DEF Write, BeingWritten, BuffersTypeOK
  <2>3. /\ Len(B) = Len(A) + 1 /\ B[Len(A) + 1] = reads + 1
        /\ \A j \in 1 .. Len(A) : B[j] = A[j]
    <3> HIDE DEF A, B, Q, R
    <3> QED BY <1>0, <2>2
  <2>4. reads \in Buffer
    BY <1>0 DEF Buffer, N_BUF
  <2>5. /\ Len(R) = Len(Q) + 1 /\ R[Len(Q) + 1] = reads
        /\ \A j \in 1 .. Len(Q) : R[j] = Q[j]
    BY <1>0, <2>2, <2>4
  <2>6. Intact(v)'
    <3> SUFFICES ASSUME NEW j \in 1 .. Len(B) PROVE content[B[j] - 1] = B[j]
      BY <1>0 DEF Intact
    <3>1. CASE j \in 1 .. Len(A)
      BY <2>3, <3>1 DEF Contents, Intact
    <3>2. CASE j = Len(A) + 1
      <4>1. B[j] = reads + 1 /\ (reads + 1) - 1 = reads
        BY <1>0, <2>3, <3>2
      <4> QED BY <2>2, <4>1
    <3> QED BY <1>0, <2>3, <3>1, <3>2, SMTT(60)
  <2>7. AtLength(v)'
    <3> SUFFICES ASSUME NEW j \in 1 .. Len(R)
                 PROVE  n_bytes[R[j]] = length(B[j + b])
      BY <1>0 DEF AtLength, length
    <3>1. CASE j \in 1 .. Len(Q)
      <4>1. n_bytes[Q[j]] = length(A[j + b])
        BY <3>1 DEF Contents, AtLength
      <4>2. j + b \in 1 .. Len(A)
        BY <1>0, <3>1
      <4> HIDE DEF A, B, Q, R, b
      <4> QED BY <2>3, <2>5, <3>1, <4>1, <4>2
    <3>2. CASE j = Len(Q) + 1
      <4>1. j + b = Len(A) + 1
        BY <1>0, <3>2
      <4> HIDE DEF A, B, Q, R, b
      <4> QED BY <2>2, <2>3, <2>5, <3>2, <4>1
    <3> QED BY <1>0, <2>5, <3>1, <3>2
  <2>8. Counted(v)'
    <3> DEFINE L == Lengths(v)
    <3>1. L \in Seq(Int) /\ Len(L) = Len(Q) /\ n_bytes[reads] \in Int
      <4>1. n_bytes[reads] \in Int
        BY <1>0, <2>4 DEF BuffersTypeOK
      <4> QED BY <1>0, <4>1, LengthsType
    <3>2. Lengths(v)' = [j \in 1 .. Len(R) |-> n_bytes[R[j]]]
      BY <1>0 DEF Lengths
    <3>3. Append(L, n_bytes[reads]) = [j \in 1 .. Len(R) |-> n_bytes[R[j]]]
      <4>1. \A j \in 1 .. Len(Q) : L[j] = n_bytes[Q[j]]
        BY DEF Lengths
      <4> HIDE DEF L, Q, R
      <4>2. /\ Append(L, n_bytes[reads]) \in Seq(Int)
            /\ Len(Append(L, n_bytes[reads])) = Len(Q) + 1
            /\ Append(L, n_bytes[reads])[Len(Q) + 1] = n_bytes[reads]
            /\ \A j \in 1 .. Len(Q) : Append(L, n_bytes[reads])[j] = L[j]
        BY <3>1
      <4>3. \A j \in 1 .. Len(R) : Append(L, n_bytes[reads])[j] = n_bytes[R[j]]
        BY <1>0, <2>5, <4>1, <4>2
      <4> QED BY <1>0, <2>5, <4>2, <4>3, SMTT(60)
    <3>4. Total(Lengths(v)') = Total(L) + n_bytes[reads]
      <4> HIDE DEF L, R, Q
      <4> QED BY <3>1, <3>2, <3>3, SumAppend
    <3> QED BY <2>2, <3>4 DEF Contents, Counted
  <2> QED BY <2>6, <2>7, <2>8 DEF Contents
<1> QED BY <1>1, <1>2

\* One that is begun no longer counts.
LEMMA ContentsPull ==
  ASSUME BuffersInv, NEW v \in Rnti, Pull(v), Contents(v)
  PROVE  Contents(v)'
<1> DEFINE A == aux_sdus[v]
           Q == queue[v]
           R == queue'[v]
           L == Lengths(v)
<1>0. /\ BuffersTypeOK /\ tx_sdu[v] = NULL /\ NULL \notin Buffer
      /\ Q \in Seq(Buffer) /\ Q # <<>> /\ Len(Q) \in Nat
      /\ n_bytes' = n_bytes /\ content' = content /\ aux_sdus' = aux_sdus
      /\ n_bytes \in [Buffer -> Nat]
  <2>1. reads \in Nat /\ BuffersTypeOK
    BY DEF BuffersInv, BuffersTypeOK
  <2>2. tx_sdu[v] = NULL /\ Q # <<>>
    BY DEF BuffersInv, Working, Pull
  <2>3. Q \in Seq(Buffer) /\ n_bytes \in [Buffer -> Nat]
    BY <2>1 DEF BuffersTypeOK
  <2>4. n_bytes' = n_bytes /\ content' = content /\ aux_sdus' = aux_sdus
    BY DEF Pull, bufVars, auxVars
  <2>5. NULL \notin Buffer
    BY <2>1, Turns
  <2> HIDE DEF Q
  <2> QED BY <2>1, <2>2, <2>3, <2>4, <2>5
<1>1. /\ R = Tail(Q) /\ tx_sdu'[v] = Head(Q)
      /\ unread_bytes'[v] = unread_bytes[v] - n_bytes[Head(Q)]
  BY <1>0 DEF Pull, BuffersTypeOK
<1>2. /\ Head(Q) = Q[1] /\ Head(Q) \in Buffer /\ Len(R) = Len(Q) - 1
      /\ \A j \in 1 .. Len(R) : R[j] = Q[j + 1]
  BY <1>0, <1>1, TailOf
<1>3. Begun(v) = 0 /\ Begun(v)' = 1
  BY <1>0, <1>1, <1>2 DEF Begun
<1>4. ASSUME NEW j \in 1 .. Len(Q) PROVE n_bytes[Q[j]] = length(A[j])
  <2>1. n_bytes[Q[j]] = length(A[j + 0])
    BY <1>3, Zenon DEF Contents, AtLength
  <2>2. j + 0 = j
    OBVIOUS
  <2> QED BY <2>1, <2>2
<1>5. AtLength(v)'
  <2> SUFFICES ASSUME NEW j \in 1 .. Len(R)
               PROVE  n_bytes[R[j]] = length(A[j + 1])
    BY <1>0, <1>3 DEF AtLength, length
  <2>1. j + 1 \in 1 .. Len(Q)
    BY <1>0, <1>2
  <2> HIDE DEF A, Q, R
  <2> QED BY <1>2, <1>4, <2>1
<1>6. Counted(v)'
  <2>1. L \in Seq(Int) /\ Len(L) = Len(Q) /\ \A j \in 1 .. Len(Q) : L[j] = n_bytes[Q[j]]
    BY <1>0, LengthsType DEF Lengths
  <2>2. L # <<>>
    BY <1>0, <2>1
  <2> HIDE DEF L
  <2>3. /\ Head(L) = L[1] /\ Tail(L) \in Seq(Int) /\ Len(Tail(L)) = Len(Q) - 1
        /\ \A j \in 1 .. Len(Tail(L)) : Tail(L)[j] = L[j + 1]
    BY <2>1, <2>2, TailOf
  <2>4. Lengths(v)' = [j \in 1 .. Len(R) |-> n_bytes[R[j]]]
    BY <1>0 DEF Lengths
  <2>5. Tail(L) = [j \in 1 .. Len(R) |-> n_bytes[R[j]]]
    <3> HIDE DEF Q, R
    <3>1. ASSUME NEW j \in 1 .. Len(R) PROVE Tail(L)[j] = n_bytes[R[j]]
      <4>1. j + 1 \in 1 .. Len(Q) /\ j \in 1 .. Len(Tail(L))
        BY <1>0, <1>2, <2>3
      <4> QED BY <1>2, <2>1, <2>3, <4>1
    <3>2. Tail(L) = [j \in 1 .. Len(Tail(L)) |-> Tail(L)[j]]
      <4> DEFINE T == Tail(L)
      <4>1. T \in Seq(Int)
        BY <2>3
      <4> HIDE DEF T
      <4>2. T = [j \in 1 .. Len(T) |-> T[j]]
        BY <4>1
      <4> QED BY <4>2 DEF T
    <3>3. Len(Tail(L)) = Len(R)
      BY <1>2, <2>3
    <3> QED BY <3>1, <3>2, <3>3, Zenon
  <2>6. Total(Lengths(v)') = Total(L) - Head(L)
    <3> HIDE DEF Q, R
    <3> QED BY <2>1, <2>2, <2>4, <2>5, SumTail
  <2>7. Head(L) = n_bytes[Head(Q)]
    <3>1. 1 \in 1 .. Len(Q)
      BY <1>0
    <3> QED BY <1>2, <2>1, <2>3, <3>1
  <2> QED BY <1>1, <2>6, <2>7 DEF Contents, Counted, L
<1>7. Intact(v)'
  BY <1>0 DEF Contents, Intact
<1> QED BY <1>5, <1>6, <1>7 DEF Contents

\* One that is used up leaves the others as they are.
LEMMA ContentsMoveAll ==
  ASSUME BuffersInv, OneOwner, reads <= N_IP, NEW v \in Rnti, Increasing(v),
         MoveAll(v), Contents(v)
  PROVE  Contents(v)'
<1> DEFINE A == aux_sdus[v]
           B == aux_sdus'[v]
           Q == queue[v]
<1>0. /\ BuffersTypeOK /\ tx_sdu[v] # NULL /\ Sender(v)
      /\ A \in Seq(1 .. MAX_READS) /\ Len(A) \in Nat
      /\ Q \in Seq(Buffer) /\ Len(Q) \in Nat /\ Len(A) = Len(Q) + 1
      /\ queue' = queue /\ unread_bytes' = unread_bytes
  <2>1. tx_sdu[v] # NULL /\ BuffersTypeOK
    BY DEF BuffersInv, Working, MoveAll
  <2>2. queue' = queue /\ unread_bytes' = unread_bytes /\ Sender(v)
    BY DEF MoveAll, queueVars, Sender
  <2>3. Len(A) = Len(Q) + 1
    BY <2>1 DEF BuffersInv, InPlace, Begun
  <2>4. A \in Seq(1 .. MAX_READS) /\ Q \in Seq(Buffer)
    BY <2>1 DEF BuffersTypeOK
  <2> QED BY <2>1, <2>2, <2>3, <2>4
<1>1. /\ 1 \in 1 .. Len(A) /\ tx_sdu[v] = A[1] - 1
      /\ \A j \in 1 .. Len(A) : A[j] \in Int /\ (j # 1 => A[1] < A[j])
  <2>1. 1 \in 1 .. Len(A) /\ tx_sdu[v] = A[1] - 1
    BY <1>0, FirstRoundPlaces
  <2>2. \A j \in 1 .. Len(A) : A[j] \in Int /\ (j # 1 => A[1] < A[j])
    <3>1. \A j, l \in 1 .. Len(A) : j < l => A[j] < A[l]
      BY DEF Increasing
    <3> HIDE DEF A
    <3>2. \A j \in 1 .. Len(A) : A[j] \in Int /\ (j # 1 => 1 < j)
      BY <1>0, SMTT(60)
    <3> QED BY <2>1, <3>1, <3>2
  <2> QED BY <2>1, <2>2
<1>2. Begun(v) = 1 /\ Begun(v)' = 0
  BY <1>0 DEF MoveAll, Begun, BuffersTypeOK
<1>3. /\ B = Tail(A) /\ Len(B) = Len(A) - 1
      /\ \A j \in 1 .. Len(B) : B[j] = A[j + 1]
  <2>1. A # <<>>
    BY <1>0
  <2>2. B = Tail(A)
    BY <1>0 DEF MoveAll, BuffersTypeOK
  <2> QED BY <1>0, <2>1, <2>2, TailOf
<1>4. ASSUME NEW b \in Packets(v), b # tx_sdu[v]
      PROVE  n_bytes'[b] = n_bytes[b] /\ content'[b] = content[b]
  BY <1>0, <1>4, PacketsUntouched
<1>5. Intact(v)'
  <2> SUFFICES ASSUME NEW j \in 1 .. Len(B) PROVE content'[B[j] - 1] = B[j]
    BY DEF Intact
  <2>1. j + 1 \in 1 .. Len(A) /\ j + 1 # 1 /\ B[j] = A[j + 1]
    BY <1>0, <1>3
  <2>2. A[j + 1] - 1 \in Packets(v) /\ A[j + 1] - 1 # tx_sdu[v]
    <3>1. A[j + 1] - 1 \in Packets(v)
      BY <2>1 DEF Packets
    <3>2. A[j + 1] \in Int /\ A[1] \in Int /\ A[1] < A[j + 1]
      BY <1>1, <2>1
    <3> HIDE DEF A
    <3> QED BY <1>1, <3>1, <3>2
  <2>3. content[A[j + 1] - 1] = A[j + 1]
    BY <2>1 DEF Contents, Intact
  <2> HIDE DEF A, B
  <2> QED BY <1>4, <2>1, <2>2, <2>3
<1>6. \A j \in 1 .. Len(Q) : n_bytes'[Q[j]] = n_bytes[Q[j]]
  BY <1>0, <1>4, BegunApart
<1>7. AtLength(v)'
  <2> SUFFICES ASSUME NEW j \in 1 .. Len(Q)
               PROVE  n_bytes'[Q[j]] = length(B[j + 0])
    BY <1>0, <1>2 DEF AtLength, length
  <2>1. n_bytes[Q[j]] = length(A[j + 1])
    BY <1>2, Zenon DEF Contents, AtLength
  <2>2. j + 0 = j /\ B[j] = A[j + 1]
    BY <1>0, <1>3, SMTT(60)
  <2> HIDE DEF A, B, Q
  <2> QED BY <1>6, <2>1, <2>2
<1>8. Counted(v)'
  <2>1. Lengths(v)' = Lengths(v)
    BY <1>0, <1>6 DEF Lengths
  <2> QED BY <1>0, <2>1 DEF Contents, Counted
<1> QED BY <1>5, <1>7, <1>8 DEF Contents

\* The buffer a packet is read into is no unfinished packet's.
LEMMA ReadContents ==
  ASSUME BuffersInv, ReadTun, reads < N_IP
  PROVE  /\ BeingWritten'
         /\ \A v \in Rnti : Increasing(v) /\ Contents(v) => Contents(v)'
<1>0. /\ reads \in Nat /\ N_IP \in Nat \ {0} /\ reads < N_IP
      /\ n_bytes \in [Buffer -> Nat] /\ content \in [Buffer -> 0 .. MAX_READS]
      /\ reads \in Buffer
  <2>1. reads \in Nat /\ n_bytes \in [Buffer -> Nat] /\ content \in [Buffer -> 0 .. MAX_READS]
    BY DEF BuffersInv, BuffersTypeOK
  <2>2. reads \in Buffer
    BY <2>1 DEF Buffer, N_BUF
  <2> QED BY <2>1, <2>2
<1>1. /\ content'[reads] = reads + 1 /\ n_bytes'[reads] = length(reads + 1)
      /\ \A b \in Buffer : b # reads => content'[b] = content[b] /\ n_bytes'[b] = n_bytes[b]
  <2>1. /\ content' = [content EXCEPT ![reads] = reads + 1]
        /\ n_bytes' = [n_bytes EXCEPT ![reads] = length(reads + 1)]
    BY <1>0, FirstTurn DEF ReadTun
  <2> QED BY <1>0, <2>1
<1>2. BeingWritten'
  BY <1>1 DEF BeingWritten, ReadTun, length
<1>3. ASSUME NEW v \in Rnti, Increasing(v), Contents(v) PROVE Contents(v)'
  <2>1. \A b \in Packets(v) : b \in Buffer /\ b # reads
    <3>1. Packets(v) \subseteq 0 .. (reads - 1)
      BY <1>0, FirstRoundPlaces
    <3> QED BY <1>0, <3>1 DEF Buffer, N_BUF
  <2>2. \A j \in 1 .. Len(queue[v]) : queue[v][j] \in Packets(v)
    BY <1>0, <1>3, BegunApart
  <2>3. /\ aux_sdus'[v] = aux_sdus[v] /\ queue'[v] = queue[v]
        /\ unread_bytes'[v] = unread_bytes[v] /\ Begun(v)' = Begun(v)
    BY DEF ReadTun, queueVars, senderVars, auxVars, Begun
  <2> QED BY <1>1, <1>3, <2>1, <2>2, <2>3, ContentsKept
<1> QED BY <1>2, <1>3

LEMMA SenderCounts ==
  ASSUME BuffersInv, NEW u \in Rnti, Sender(u), NEW v \in Rnti,
         u # v \/ ~(Pull(u) \/ MoveAll(u))
  PROVE  /\ aux_sdus'[v] = aux_sdus[v] /\ queue'[v] = queue[v]
         /\ unread_bytes'[v] = unread_bytes[v] /\ Begun(v)' = Begun(v)
<1>0. BuffersTypeOK
  BY DEF BuffersInv
<1>1. unread_bytes'[v] = unread_bytes[v]
  BY <1>0 DEF Sender, BeginBuild, BuildWithoutPool, BuildLeaks, EndPdu, Pull, Notify,
     MovePart, MoveAll, Finish, queueVars, BuffersTypeOK
<1>2. aux_sdus'[v] = aux_sdus[v] /\ queue'[v] = queue[v] /\ tx_sdu'[v] = tx_sdu[v]
  <2>1. CASE u = v
    BY <1>0, <2>1, OwnSteps
  <2>2. CASE u # v
    BY <1>0, <2>2, OthersUntouched
  <2> QED BY <2>1, <2>2
<1> QED BY <1>1, <1>2 DEF Begun

LEMMA ContentsStep ==
  ASSUME BuffersInv, [Next]_vars, FirstRound', OneOwner, BeingWritten,
         \A u \in Rnti : Increasing(u) /\ Contents(u),
         \A u \in Rnti : InPlace(u)',
         NEW v \in Rnti
  PROVE  Contents(v)'
<1>0. /\ reads <= N_IP /\ (ReadTun \/ Write => reads < N_IP) /\ Increasing(v) /\ Contents(v)
  BY StillFirstRound
<1>1. CASE ReadTun
  BY <1>0, <1>1, ReadContents
<1>2. CASE Write
  BY <1>0, <1>2, ContentsWrite
<1>3. ASSUME NEW u \in Rnti, Sender(u), u # v \/ ~(Pull(u) \/ MoveAll(u))
      PROVE  Contents(v)'
  <2>1. /\ aux_sdus'[v] = aux_sdus[v] /\ queue'[v] = queue[v]
        /\ unread_bytes'[v] = unread_bytes[v] /\ Begun(v)' = Begun(v)
    BY <1>3, SenderCounts
  <2>2. ~MoveAll(v)
    <3>1. BuffersTypeOK
      BY DEF BuffersInv
    <3>2. CASE u = v
      BY <1>3, <3>2
    <3>3. CASE u # v
      BY <1>3, <3>1, <3>3, OthersUntouched DEF MoveAll, Goto, BuffersTypeOK
    <3> QED BY <3>2, <3>3
  <2>3. \A b \in Packets(v) : content'[b] = content[b]
    BY <1>0, <1>3, <2>2, PacketsUntouched
  <2>4. \A j \in 1 .. Len(queue[v]) : n_bytes'[queue[v][j]] = n_bytes[queue[v][j]]
    <3>1. ASSUME NEW j \in 1 .. Len(queue[v])
          PROVE  /\ queue[v][j] \in Packets(v) /\ queue[v][j] \in Buffer
                 /\ tx_sdu[v] # NULL => queue[v][j] # tx_sdu[v]
      <4>1. queue[v][j] \in Buffer
        BY DEF BuffersInv, BuffersTypeOK
      <4> QED BY <1>0, <4>1, BegunApart
    <3>2. NULL \notin Buffer
      BY Turns DEF BuffersInv, BuffersTypeOK
    <3> QED BY <1>0, <1>3, <3>1, <3>2, PacketsUntouched
  <2> QED BY <1>0, <2>1, <2>3, <2>4, ContentsKept
<1>4. CASE Pull(v)
  BY <1>0, <1>4, ContentsPull
<1>5. CASE MoveAll(v)
  BY <1>0, <1>5, ContentsMoveAll
<1>6. CASE Wait \/ WakeSpuriously \/ UNCHANGED vars
  <2>1. /\ aux_sdus' = aux_sdus /\ queue' = queue /\ content' = content
        /\ unread_bytes' = unread_bytes /\ Begun(v)' = Begun(v) /\ n_bytes' = n_bytes
    BY <1>6 DEF Wait, WakeSpuriously, vars, bufVars, queueVars, senderVars, auxVars, Begun
  <2> QED BY <1>0, <2>1, ContentsKept
<1> QED BY <1>1, <1>2, <1>3, <1>4, <1>5, <1>6 DEF Next

\* No sender touches the buffer that is being filled.
LEMMA BeingWrittenStep ==
  ASSUME BuffersInv, [Next]_vars, FirstRound', OneOwner, BeingWritten
  PROVE  BeingWritten'
<1>0. /\ reads <= N_IP /\ (ReadTun \/ Write => reads < N_IP) /\ FirstRound
      /\ reads \in Nat /\ N_IP \in Nat /\ ipc \in {"read", "write", "wait"}
      /\ BuffersTypeOK
  BY StillFirstRound DEF BuffersInv, BuffersTypeOK
<1>1. CASE ReadTun
  BY <1>0, <1>1, ReadContents
<1>2. CASE Write
  BY <1>2 DEF Write, BeingWritten
<1>3. ASSUME NEW u \in Rnti, Sender(u), ipc' # "read" PROVE BeingWritten'
  <2>1. reads' = reads /\ ipc # "read"
    BY <1>0, <1>3 DEF Sender, BeginBuild, BuildWithoutPool, BuildLeaks, EndPdu, Pull,
       Notify, MovePart, MoveAll, Finish, ipVars
  <2>2. reads \in Buffer /\ reads \in Unused
    BY <1>0, <2>1 DEF FirstRound, Buffer, N_BUF, Unused
  <2>3. reads # pdu[u]
    <3>1. pdu[u] # NULL => pdu[u] \notin Unused
      BY DEF OneOwner, OwnersApart
    <3> QED BY <1>0, <2>2, <3>1
  <2>4. reads # tx_sdu[u]
    <3>1. tx_sdu[u] # NULL => tx_sdu[u] \in Packets(u)
      BY <1>0, FirstRoundPlaces DEF Packets
    <3>2. Packets(u) \subseteq 0 .. (reads - 1)
      BY <1>0, FirstRoundPlaces
    <3> QED BY <1>0, <2>2, <3>1, <3>2
  <2>5. n_bytes'[reads] = n_bytes[reads] /\ content'[reads] = content[reads]
    BY <1>3, <2>2, <2>3, <2>4, SenderTouches
  <2> QED BY <2>1, <2>5 DEF BeingWritten, length
<1>4. CASE Wait \/ WakeSpuriously \/ UNCHANGED vars
  BY <1>4 DEF Wait, WakeSpuriously, vars, bufVars, ipVars, BeingWritten, length
<1>5. CASE ipc' = "read"
  BY <1>5 DEF BeingWritten
<1> QED BY <1>1, <1>2, <1>3, <1>4, <1>5 DEF Next

\* The inductive invariant of the first round.
OwnersInv ==
    /\ BuffersInv
    /\ \A u \in Rnti : Increasing(u) /\ BetweenPdus(u)
    /\ FirstRound => OneOwner /\ BeingWritten /\ \A u \in Rnti : Contents(u)

LEMMA InitOwners == Init => OwnersInv
<1> SUFFICES ASSUME Init PROVE OwnersInv
  OBVIOUS
<1>1. BuffersInv /\ OneOwner
  BY InitInv, InitOneOwner
<1>2. BeingWritten /\ \A u \in Rnti : Increasing(u) /\ BetweenPdus(u)
  BY DEF Init, BeingWritten, Increasing, BetweenPdus
<1>3. ASSUME NEW u \in Rnti PROVE Contents(u)
  <2>1. /\ queue[u] = <<>> /\ aux_sdus[u] = <<>> /\ unread_bytes[u] = 0
    BY DEF Init
  <2>2. Intact(u) /\ AtLength(u)
    BY <2>1 DEF Intact, AtLength
  <2>3. Lengths(u) = <<>>
    BY <2>1 DEF Lengths
  <2>4. Total(<<>>) = 0
    BY SumEmpty
  <2> QED BY <2>1, <2>2, <2>3, <2>4 DEF Contents, Counted
<1> QED BY <1>1, <1>2, <1>3 DEF OwnersInv

LEMMA OwnersStep == OwnersInv /\ [Next]_vars => OwnersInv'
<1> SUFFICES ASSUME OwnersInv, [Next]_vars PROVE OwnersInv'
  OBVIOUS
<1>1. BuffersInv /\ BuffersInv'
  BY InvStep DEF OwnersInv
<1>2. \A u \in Rnti : Increasing(u)' /\ BetweenPdus(u)'
  BY <1>1, IncreasingStep, BetweenPdusStep DEF OwnersInv
<1>3. ASSUME FirstRound'
      PROVE  OneOwner' /\ BeingWritten' /\ \A u \in Rnti : Contents(u)'
  <2>1. /\ OneOwner /\ BeingWritten
        /\ \A u \in Rnti : Increasing(u) /\ BetweenPdus(u) /\ Contents(u) /\ InPlace(u)'
    BY <1>1, <1>3, StillFirstRound DEF OwnersInv, BuffersInv
  <2>2. OneOwner'
    BY <1>1, <1>3, <2>1, OneOwnerStep
  <2>3. BeingWritten'
    BY <1>1, <1>3, <2>1, BeingWrittenStep
  <2>4. \A u \in Rnti : Contents(u)'
    BY <1>1, <1>3, <2>1, ContentsStep
  <2> QED BY <2>2, <2>3, <2>4
<1> QED BY <1>1, <1>2, <1>3 DEF OwnersInv

LEMMA OwnersInvariant == Spec => []OwnersInv
BY InitOwners, OwnersStep, PTL DEF Spec

\* In the first round an unfinished packet's buffer has the packet's number.
LEMMA UnfinishedPlaces ==
  ASSUME BuffersInv, reads <= N_IP, NEW u \in Rnti
  PROVE  /\ Unfinished(u) \in Seq(Buffer)
         /\ Len(Unfinished(u)) = Len(aux_sdus[u]) /\ Len(aux_sdus[u]) \in Nat
         /\ \A j \in 1 .. Len(aux_sdus[u]) :
              Unfinished(u)[j] = aux_sdus[u][j] - 1 /\ aux_sdus[u][j] \in Nat
<1> DEFINE U == Unfinished(u)
           A == aux_sdus[u]
<1>1. BuffersTypeOK /\ InPlace(u)
  BY DEF BuffersInv
<1>2. queue[u] \in Seq(Buffer) /\ (tx_sdu[u] # NULL => tx_sdu[u] \in Buffer)
      /\ A \in Seq(1 .. MAX_READS)
  BY <1>1 DEF BuffersTypeOK
<1>3. U \in Seq(Buffer)
  <2>1. CASE tx_sdu[u] = NULL
    BY <1>2, <2>1 DEF Unfinished
  <2>2. CASE tx_sdu[u] # NULL
    <3>1. <<tx_sdu[u]>> \in Seq(Buffer)
      BY <1>2, <2>2
    <3> QED BY <1>2, <2>2, <3>1 DEF Unfinished
  <2> QED BY <2>1, <2>2
<1>4. DOMAIN U = 1 .. Len(A) /\ \A j \in 1 .. Len(A) : U[j] = A[j] - 1
  BY <1>1, UnfinishedInPlace, FirstRoundPlaces
<1> HIDE DEF U, A
<1>5. Len(U) = Len(A)
  BY <1>2, <1>3, <1>4
<1>6. \A j \in 1 .. Len(A) : A[j] \in Nat
  BY <1>2
<1> QED BY <1>2, <1>3, <1>4, <1>5, <1>6 DEF U, A

(***************************************************************************)
(* In the first round a packet's bytes stay as they were read, and         *)
(* size_bytes() is the length of what is queued (rlc_um.cc:290-330,        *)
(* msg_queue.h:31-93).                                                     *)
(***************************************************************************)
THEOREM FirstRoundStaysIntact == Spec => []FirstRoundIntact
<1>1. OwnersInv => FirstRoundIntact
  <2> SUFFICES ASSUME OwnersInv, FirstRound, NEW u \in Rnti
               PROVE  /\ Len(Unfinished(u)) = Len(aux_sdus[u])
                      /\ \A j \in DOMAIN Unfinished(u) :
                           content[Unfinished(u)[j]] = aux_sdus[u][j]
                      /\ \A j \in DOMAIN queue[u] :
                           n_bytes[queue[u][j]] = length(content[queue[u][j]])
                      /\ unread_bytes[u] =
                           FoldLeft(+, 0, [j \in DOMAIN queue[u] |-> n_bytes[queue[u][j]]])
    BY Zenon DEF FirstRoundIntact, PacketsIntact
  <2>1. /\ BuffersInv /\ BuffersTypeOK /\ Contents(u) /\ reads \in Nat
    BY SMTT(60) DEF OwnersInv, BuffersInv, BuffersTypeOK
  <2>2. reads <= N_IP
    BY <2>1 DEF FirstRound
  <2>3. DOMAIN queue[u] = 1 .. Len(queue[u])
    BY <2>1 DEF BuffersTypeOK
  <2>4. /\ Len(Unfinished(u)) = Len(aux_sdus[u])
        /\ DOMAIN Unfinished(u) = 1 .. Len(aux_sdus[u])
    BY <2>1, <2>2, UnfinishedPlaces
  <2>5. \A j \in 1 .. Len(aux_sdus[u]) : content[Unfinished(u)[j]] = aux_sdus[u][j]
    BY <2>1, <2>2, UnfinishedPlaces DEF Contents, Intact
  <2>6. ASSUME NEW j \in 1 .. Len(queue[u])
        PROVE  n_bytes[queue[u][j]] = length(content[queue[u][j]])
    <3>1. /\ j + Begun(u) \in 1 .. Len(aux_sdus[u])
          /\ queue[u][j] = aux_sdus[u][j + Begun(u)] - 1
      BY <2>1, <2>2, FirstRoundPlaces
    <3>2. content[queue[u][j]] = aux_sdus[u][j + Begun(u)]
      BY <2>1, <3>1 DEF Contents, Intact
    <3> QED BY <2>1, <3>2 DEF Contents, AtLength
  <2>7. unread_bytes[u] =
          FoldLeft(+, 0, [j \in DOMAIN queue[u] |-> n_bytes[queue[u][j]]])
    BY <2>1, <2>3, Zenon DEF Contents, Counted, Lengths, Total
  <2> QED BY <2>3, <2>4, <2>5, <2>6, <2>7
<1> QED BY <1>1, OwnersInvariant, PTL

\* The list has no more than all the buffers.
LEMMA StackBounded ==
  ASSUME NEW m \in Nat, NEW c \in [Nat -> Buffer], Stack(c, m)
  PROVE  m <= N_BUF
<1>1. N_BUF \in Nat
  BY DEF N_BUF
<1>2. SUFFICES ASSUME N_BUF < m PROVE FALSE
  BY <1>1
<1> DEFINE f == [j \in 1 .. m |-> c[j]]
<1>3. IsFiniteSet(1 .. m) /\ Cardinality(1 .. m) = m
  <2>1. 1 \in Int /\ m \in Int /\ ~(1 > m) /\ m - 1 + 1 = m
    BY <1>1, <1>2
  <2> QED BY <2>1, FS_Interval
<1>4. IsFiniteSet(Buffer) /\ Cardinality(Buffer) = N_BUF
  <2>1. 0 \in Int /\ N_BUF - 1 \in Int /\ ~(0 > N_BUF - 1) /\ N_BUF - 1 - 0 + 1 = N_BUF
    BY <1>1 DEF N_BUF
  <2> QED BY <2>1, FS_Interval DEF Buffer
<1>5. f \in [1 .. m -> Buffer]
  OBVIOUS
<1>6. \E x, y \in 1 .. m : x # y /\ f[x] = f[y]
  <2> HIDE DEF f
  <2> QED BY <1>2, <1>3, <1>4, <1>5, FS_PigeonHole
<1> QED BY <1>6 DEF Stack

\* Followed from its head, it gives the stack from its top, and then NULL.
LEMMA ChainOfStack ==
  ASSUME NULL \notin Buffer, NEW m \in Nat, NEW c \in [Nat -> Buffer], Stack(c, m),
         m <= N_BUF
  PROVE  \A n \in 0 .. N_BUF : Chain[n] = IF n < m THEN c[m - n] ELSE NULL
<1> DEFINE g == [n \in 0 .. N_BUF |-> IF n < m THEN c[m - n] ELSE NULL]
           Eq(h) == h = [n \in 0 .. N_BUF |->
                           IF n = 0 THEN first_available
                           ELSE LET b == h[n - 1] IN IF b = NULL THEN NULL ELSE next[b]]
<1>1. N_BUF \in Nat
  BY DEF N_BUF
<1>2. ASSUME NEW n \in 0 .. N_BUF
      PROVE  g[n] = IF n = 0 THEN first_available
                    ELSE IF g[n - 1] = NULL THEN NULL ELSE next[g[n - 1]]
  <2>1. CASE n = 0
    <3>1. m - 0 = m /\ 0 \in 0 .. N_BUF /\ (0 < m <=> m # 0)
      BY <1>1
    <3> QED BY <2>1, <3>1 DEF Stack
  <2>2. CASE n # 0 /\ n - 1 < m
    <3>1. /\ n - 1 \in 0 .. N_BUF /\ m - (n - 1) \in 1 .. m /\ g[n - 1] = c[m - (n - 1)]
          /\ m - (n - 1) - 1 = m - n /\ (m - (n - 1) = 1 <=> ~(n < m))
      BY <1>1, <2>2, SMTT(60)
    <3>2. g[n - 1] # NULL
      BY <3>1
    <3>3. next[c[m - (n - 1)]] = IF m - (n - 1) = 1 THEN NULL ELSE c[m - (n - 1) - 1]
      BY <3>1 DEF Stack
    <3>4. g[n] = IF n < m THEN c[m - n] ELSE NULL
      OBVIOUS
    <3> HIDE DEF g
    <3> QED BY <2>2, <3>1, <3>2, <3>3, <3>4
  <2>3. CASE n # 0 /\ ~(n - 1 < m)
    <3>1. n - 1 \in 0 .. N_BUF /\ ~(n < m)
      BY <1>1, <2>3
    <3> QED BY <2>3, <3>1
  <2> QED BY <2>1, <2>2, <2>3
<1>3. Eq(g)
  <2>1. g = [n \in 0 .. N_BUF |-> g[n]]
    OBVIOUS
  <2> HIDE DEF g
  <2> QED BY <1>2, <2>1, Zenon
<1>4. Chain = CHOOSE h : Eq(h)
  BY DEF Chain
<1>5. Eq(Chain)
  <2> HIDE DEF Eq
  <2> QED BY <1>3, <1>4, Zenon
<1>6. ASSUME NEW n \in 0 .. N_BUF
      PROVE  Chain[n] = IF n = 0 THEN first_available
                        ELSE IF Chain[n - 1] = NULL THEN NULL ELSE next[Chain[n - 1]]
  <2> HIDE DEF g
  <2> QED BY <1>5
<1> HIDE DEF Eq
<1> DEFINE S == {n \in 0 .. N_BUF : Chain[n] = g[n]}
<1>7. 0 \in S
  <2>1. 0 \in 0 .. N_BUF
    BY <1>1
  <2> HIDE DEF g
  <2> QED BY <1>2, <1>6, <2>1
<1>8. ASSUME NEW n \in 0 .. (N_BUF - 1), n \in S PROVE n + 1 \in S
  <2>1. n + 1 \in 0 .. N_BUF /\ n + 1 # 0 /\ n + 1 - 1 = n
    BY <1>1
  <2> HIDE DEF g
  <2> QED BY <1>2, <1>6, <1>8, <2>1
<1>9. 0 .. N_BUF \subseteq S
  <2> HIDE DEF S
  <2> QED BY <1>1, <1>7, <1>8, InductionTo
<1> QED BY <1>9

\* A sequence without repetitions has as many elements as it is long.
LEMMA DistinctElements ==
  ASSUME NEW B, NEW s \in Seq(B), \A j, l \in 1 .. Len(s) : s[j] = s[l] => j = l
  PROVE  IsFiniteSet(Range(s)) /\ Cardinality(Range(s)) = Len(s)
<1>1. /\ Len(s) \in Nat /\ DOMAIN s = 1 .. Len(s)
      /\ s \in [1 .. Len(s) -> Range(s)]
  BY DEF Range
<1>2. IsFiniteSet(1 .. Len(s)) /\ Cardinality(1 .. Len(s)) = Len(s)
  <2>1. 1 \in Int /\ Len(s) \in Int /\ (1 > Len(s) => Len(s) = 0) /\ Len(s) - 1 + 1 = Len(s)
    BY <1>1
  <2> QED BY <2>1, FS_Interval
<1>3. s \in Surjection(1 .. Len(s), Range(s)) /\ s \in Injection(1 .. Len(s), Range(s))
  BY <1>1 DEF Surjection, Injection, IsInjective, Range
<1> QED BY <1>2, <1>3, FS_Surjection

\* What u holds are the buffers of its packets and its PDU.
LEMMA HeldBuffers ==
  ASSUME BuffersInv, reads <= N_IP, NEW u \in Rnti, Increasing(u),
         pdu[u] # NULL => pdu[u] \notin Packets(u)
  PROVE  /\ Held(u) = Packets(u) \cup ({pdu[u]} \ {NULL})
         /\ Cardinality(Held(u)) =
              Len(Unfinished(u)) + (IF pdu[u] = NULL THEN 0 ELSE 1)
<1> DEFINE U == Unfinished(u)
           A == aux_sdus[u]
<1>1. /\ U \in Seq(Buffer) /\ Len(U) = Len(A) /\ Len(A) \in Nat
      /\ \A j \in 1 .. Len(A) : U[j] = A[j] - 1 /\ A[j] \in Nat
      /\ DOMAIN U = 1 .. Len(A)
  BY UnfinishedPlaces
<1>2. Range(U) = Packets(u)
  BY <1>1 DEF Range, Packets
<1>3. IsFiniteSet(Range(U)) /\ Cardinality(Range(U)) = Len(U)
  <2>1. \A j, l \in 1 .. Len(A) : j < l => A[j] < A[l]
    BY DEF Increasing
  <2> HIDE DEF U, A
  <2>2. \A j, l \in 1 .. Len(U) : U[j] = U[l] => j = l
    BY <1>1, <2>1
  <2> QED BY <1>1, <2>2, DistinctElements
<1>4. Held(u) = IF pdu[u] = NULL THEN Range(U) ELSE Range(U) \cup {pdu[u]}
  <2> HIDE DEF U
  <2> QED BY DEF Held, U
<1>5. Cardinality(Held(u)) = Len(U) + (IF pdu[u] = NULL THEN 0 ELSE 1)
  <2>1. CASE pdu[u] = NULL
    <3> HIDE DEF U
    <3> QED BY <1>1, <1>3, <1>4, <2>1
  <2>2. CASE pdu[u] # NULL
    <3>1. pdu[u] \notin Range(U)
      BY <1>2, <2>2
    <3> DEFINE R == Range(U)
    <3>2. IsFiniteSet(R) /\ Cardinality(R) = Len(U) /\ pdu[u] \notin R
      BY <1>3, <3>1
    <3>3. Held(u) = R \cup {pdu[u]}
      BY <1>4, <2>2
    <3> HIDE DEF R
    <3>4. Cardinality(R \cup {pdu[u]}) = Cardinality(R) + 1
      BY <3>2, FS_AddElement
    <3> HIDE DEF U
    <3> QED BY <2>2, <3>2, <3>3, <3>4
  <2> QED BY <2>1, <2>2
<1>6. Held(u) = Packets(u) \cup ({pdu[u]} \ {NULL})
  BY <1>2 DEF Held
<1> QED BY <1>5, <1>6

(***************************************************************************)
(* In the first round the free list ends and no buffer has two owners:     *)
(* the list, one of the RNTIs, or the IP thread that has still to fill it  *)
(* (buffer_pool.h:44-140, lte-ip-pkt.cc:22-60).                            *)
(***************************************************************************)
THEOREM FirstRoundOneOwner == Spec => []FirstRoundOwners
<1>1. OwnersInv => FirstRoundOwners
  <2> SUFFICES ASSUME OwnersInv, FirstRound PROVE FirstRoundOwners
    BY DEF FirstRoundOwners
  <2>1. /\ BuffersInv /\ NULL \notin Buffer /\ reads \in Nat /\ reads <= N_IP
        /\ \A u \in Rnti : Increasing(u)
    <3>1. BuffersInv /\ reads \in Nat
      BY DEF OwnersInv, BuffersInv, BuffersTypeOK
    <3> QED BY <3>1, Turns DEF OwnersInv, FirstRound
  <2>2. PICK m \in Nat, c \in [Nat -> Buffer] : Stack(c, m) /\ OwnersApart(Listed(c, m))
    BY DEF OwnersInv, OneOwner
  <2>3. m <= N_BUF /\ \A n \in 0 .. N_BUF : Chain[n] = IF n < m THEN c[m - n] ELSE NULL
    BY <2>1, <2>2, StackBounded, ChainOfStack
  <2>4. N_BUF \in 0 .. N_BUF /\ N_BUF \in Nat
    BY DEF N_BUF
  <2>5. Chain[N_BUF] = NULL
    BY <2>3, <2>4
  <2>6. Free \subseteq Listed(c, m)
    <3> SUFFICES ASSUME NEW n \in 0 .. (N_BUF - 1), Chain[n] # NULL
                 PROVE  Chain[n] \in Listed(c, m)
      BY DEF Free
    <3>1. n \in 0 .. N_BUF /\ n < m
      BY <2>3, <2>4
    <3>2. m - n \in 1 .. m
      BY <3>1
    <3> QED BY <2>3, <3>1, <3>2 DEF Listed
  <2> DEFINE F == Listed(c, m)
  <2>7. /\ OwnersApart(F)
        /\ \A u \in Rnti :
             /\ Held(u) = Packets(u) \cup ({pdu[u]} \ {NULL})
             /\ Cardinality(Held(u)) =
                  Len(Unfinished(u)) + (IF pdu[u] = NULL THEN 0 ELSE 1)
    BY <2>1, <2>2, HeldBuffers DEF OwnersApart
  <2>8. \A u \in Rnti : Packets(u) \cap Unused = {}
    <3>1. \A u \in Rnti : Packets(u) \subseteq 0 .. (reads - 1)
      BY <2>1, FirstRoundPlaces
    <3> QED BY <2>1, <3>1 DEF Unused
  <2>9. \A u, v \in Rnti : u # v => Packets(u) \cap Packets(v) = {}
    BY <2>1, PacketsApart
  <2>10. Unused = reads .. N_IP - 1
    BY DEF Unused
  <2> HIDE DEF F
  <2>11. ASSUME NEW u \in Rnti
         PROVE  /\ Held(u) \cap (F \cup Unused) = {}
                /\ \A v \in Rnti \ {u} : Held(u) \cap Held(v) = {}
    BY <2>7, <2>8, <2>9 DEF OwnersApart
  <2>12. F \cap Unused = {}
    BY <2>7 DEF OwnersApart
  <2> QED BY <2>5, <2>6, <2>7, <2>10, <2>11, <2>12 DEF FirstRoundOwners, F
<1> QED BY <1>1, OwnersInvariant, PTL
=============================================================================
