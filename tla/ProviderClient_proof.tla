-------------------------- MODULE ProviderClient_proof --------------------------
(***************************************************************************)
(* Proofs about the provider client, for any length of chunks, size of the *)
(* buffer, number of chunks and restarts.                                  *)
(***************************************************************************)
EXTENDS ProviderClient, SequenceTheorems, WellFoundedInduction, TLAPS

(* The list of strings and its count *)

\* A non-empty set of numbers has a least one.
LEMMA LeastNat ==
  ASSUME NEW T \in SUBSET Nat, T # {}
  PROVE  \E x \in T : \A y \in T : x <= y
<1> DEFINE Less == OpToRel(<, Nat)
<1>1. \E x \in T : \A y \in T : ~(<<y, x>> \in Less)
  BY NatLessThanWellFounded, WFMin, Zenon DEF Less
<1>2. \A y, z \in Nat : y < z => <<y, z>> \in Less
  BY DEF OpToRel
<1> HIDE DEF Less
<1>3. PICK x \in T : \A y \in T : ~(<<y, x>> \in Less)
  BY <1>1, Zenon
<1>4. \A y \in T : ~(y < x)
  BY <1>2, <1>3, Zenon
<1> QED
  BY <1>4

\* Induction up to a bound: a set with 0 and the successor of each of its members.
LEMMA BoundedInduction ==
  ASSUME NEW L \in Nat, NEW T, 0 \in T, \A k \in 0 .. L : k + 1 \in 0 .. L /\ k \in T => k + 1 \in T
  PROVE  \A k \in 0 .. L : k \in T
<1> SUFFICES ASSUME {k \in 0 .. L : k \notin T} # {} PROVE FALSE
  OBVIOUS
<1>1. {k \in 0 .. L : k \notin T} \in SUBSET Nat
  OBVIOUS
<1>2. PICK x \in {k \in 0 .. L : k \notin T} : \A y \in {k \in 0 .. L : k \notin T} : x <= y
  BY <1>1, LeastNat, Zenon
<1>3. x \in 1 .. L /\ x - 1 \in 0 .. L
  BY <1>2
<1>4. x - 1 \in T
  BY <1>2, <1>3
<1> QED
  BY <1>2, <1>3, <1>4

\* The length of a string is a number.
LEMMA TextNat ==
  ASSUME NEW buf \in Seq(Element)
  PROVE  \A k \in 1 .. Len(buf) : buf[k] \in Element /\ buf[k].text \in Nat
<1>1. \A e \in Element : e.text \in 0 .. MaxLen
  BY DEF Element
<1>2. 0 .. MaxLen \subseteq Nat
  BY ProviderAssumption
<1>3. \A k \in 1 .. Len(buf) : buf[k] \in Element
  OBVIOUS
<1> QED
  BY <1>1, <1>2, <1>3, Zenon

\* There is a function that sums up the texts of a list.
LEMMA SumsExist ==
  ASSUME NEW buf \in Seq(Element)
  PROVE  \E f : f = [n \in 0 .. Len(buf) |-> IF n = 0 THEN 0 ELSE f[n - 1] + buf[n].text]
<1> DEFINE P(k) == \E f : f = [n \in 0 .. k |-> IF n = 0 THEN 0 ELSE f[n - 1] + buf[n].text]
           T == {k \in 0 .. Len(buf) : P(k)}
<1>1. 0 \in T
  <2>1. PICK f : f = [n \in 0 .. 0 |-> 0]
    OBVIOUS
  <2>2. f = [n \in 0 .. 0 |-> IF n = 0 THEN 0 ELSE f[n - 1] + buf[n].text]
    BY <2>1
  <2> QED BY <2>2
<1>2. ASSUME NEW k \in 0 .. Len(buf), k + 1 \in 0 .. Len(buf), k \in T
      PROVE  k + 1 \in T
  <2>1. PICK f : f = [n \in 0 .. k |-> IF n = 0 THEN 0 ELSE f[n - 1] + buf[n].text]
    BY <1>2
  <2>2. PICK g : g = [n \in 0 .. k + 1 |-> IF n = k + 1 THEN f[k] + buf[k + 1].text ELSE f[n]]
    OBVIOUS
  <2>3. ASSUME NEW n \in 0 .. k + 1
        PROVE  g[n] = IF n = 0 THEN 0 ELSE g[n - 1] + buf[n].text
    <3>1. CASE n = k + 1
      <4>1. g[k] = f[k] BY <2>2
      <4> QED BY <2>2, <3>1, <4>1
    <3>2. CASE n # k + 1
      <4>1. n \in 0 .. k /\ g[n] = f[n] BY <2>2, <3>2
      <4>2. n # 0 => n - 1 \in 0 .. k /\ g[n - 1] = f[n - 1] BY <2>2, <4>1
      <4>3. f[n] = IF n = 0 THEN 0 ELSE f[n - 1] + buf[n].text BY <2>1, <4>1
      <4> QED BY <4>1, <4>2, <4>3
    <3> QED BY <3>1, <3>2
  <2>4. g = [n \in 0 .. k + 1 |-> IF n = 0 THEN 0 ELSE g[n - 1] + buf[n].text]
    BY <2>2, <2>3
  <2> QED BY <1>2, <2>4
<1>3. Len(buf) \in Nat
  OBVIOUS
<1> HIDE DEF P, T
<1>4. \A k \in 0 .. Len(buf) : k \in T
  BY <1>1, <1>2, <1>3, BoundedInduction
<1> QED
  BY <1>3, <1>4 DEF T, P

\* The sums of the texts: none for no string, and each string adds its length.
LEMMA SumsAre ==
  ASSUME NEW buf \in Seq(Element)
  PROVE  /\ Sums(buf) \in [0 .. Len(buf) -> Nat]
         /\ Sums(buf)[0] = 0
         /\ \A n \in 1 .. Len(buf) : Sums(buf)[n] = Sums(buf)[n - 1] + buf[n].text
<1> DEFINE s == Sums(buf)
<1>1. s = [n \in 0 .. Len(buf) |-> IF n = 0 THEN 0 ELSE s[n - 1] + buf[n].text]
  BY SumsExist, Zenon DEF Sums
<1> HIDE DEF s
<1>2. s[0] = 0 /\ \A n \in 1 .. Len(buf) : s[n] = s[n - 1] + buf[n].text
  BY <1>1
<1> DEFINE T == {k \in 0 .. Len(buf) : s[k] \in Nat}
<1>3. 0 \in T
  BY <1>2
<1>4. ASSUME NEW k \in 0 .. Len(buf), k + 1 \in 0 .. Len(buf), k \in T
      PROVE  k + 1 \in T
  <2>1. buf[k + 1].text \in Nat
    BY <1>4, TextNat
  <2>2. s[k + 1] = s[k] + buf[k + 1].text
    BY <1>2, <1>4
  <2> QED BY <1>4, <2>1, <2>2
<1>5. Len(buf) \in Nat
  OBVIOUS
<1> HIDE DEF T
<1>6. \A k \in 0 .. Len(buf) : k \in T
  BY <1>3, <1>4, <1>5, BoundedInduction
<1>7. s \in [0 .. Len(buf) -> Nat]
  BY <1>1, <1>6 DEF T
<1> QED
  BY <1>2, <1>7 DEF s

\* push_back adds the length of the new string.
LEMMA TextAppend ==
  ASSUME NEW buf \in Seq(Element), NEW e \in Element
  PROVE  Text(Append(buf, e)) = Text(buf) + e.text
<1> DEFINE b == Append(buf, e)
           T == {k \in 0 .. Len(buf) : Sums(b)[k] = Sums(buf)[k]}
<1>1. /\ b \in Seq(Element) /\ Len(b) = Len(buf) + 1 /\ b[Len(buf) + 1] = e
      /\ \A k \in 1 .. Len(buf) : b[k] = buf[k]
  OBVIOUS
<1> HIDE DEF b
<1>2. /\ Sums(b) \in [0 .. Len(b) -> Nat] /\ Sums(b)[0] = 0
      /\ \A n \in 1 .. Len(b) : Sums(b)[n] = Sums(b)[n - 1] + b[n].text
  BY <1>1, SumsAre, Zenon
<1>3. 0 \in T
  BY <1>2, SumsAre
<1>4. ASSUME NEW k \in 0 .. Len(buf), k + 1 \in 0 .. Len(buf), k \in T
      PROVE  k + 1 \in T
  <2>1. Sums(buf)[k + 1] = Sums(buf)[k] + buf[k + 1].text
    BY <1>4, SumsAre
  <2>2. Sums(b)[k + 1] = Sums(b)[k] + b[k + 1].text /\ b[k + 1] = buf[k + 1]
    BY <1>1, <1>2, <1>4
  <2> QED BY <1>4, <2>1, <2>2
<1>5. Len(buf) \in Nat
  OBVIOUS
<1> HIDE DEF T
<1>6. \A k \in 0 .. Len(buf) : k \in T
  BY <1>3, <1>4, <1>5, BoundedInduction
<1>7. Sums(b)[Len(buf)] = Sums(buf)[Len(buf)]
  BY <1>5, <1>6 DEF T
<1> QED
  BY <1>1, <1>2, <1>5, <1>7 DEF Text, b

\* What erasing the first n strings leaves.
LEMMA TextSuffix ==
  ASSUME NEW buf \in Seq(Element), NEW n \in 0 .. Len(buf)
  PROVE  Text(SubSeq(buf, n + 1, Len(buf))) = Text(buf) - Sums(buf)[n]
<1> DEFINE b == SubSeq(buf, n + 1, Len(buf))
           T == {k \in 0 .. Len(b) : Sums(b)[k] = Sums(buf)[n + k] - Sums(buf)[n]}
<1>1. /\ b \in Seq(Element) /\ Len(b) = Len(buf) - n
      /\ \A k \in 1 .. Len(b) : b[k] = buf[n + k]
  OBVIOUS
<1> HIDE DEF b
<1>2. /\ Sums(b) \in [0 .. Len(b) -> Nat] /\ Sums(b)[0] = 0
      /\ \A m \in 1 .. Len(b) : Sums(b)[m] = Sums(b)[m - 1] + b[m].text
  BY <1>1, SumsAre, Zenon
<1>3. /\ Sums(buf) \in [0 .. Len(buf) -> Nat]
      /\ \A m \in 1 .. Len(buf) : Sums(buf)[m] = Sums(buf)[m - 1] + buf[m].text
  BY SumsAre, Zenon
<1>4. 0 \in T
  <2>1. n \in Nat /\ n + 0 = n /\ Len(b) \in Nat /\ 0 \in 0 .. Len(b)
    BY <1>1
  <2>2. Sums(buf)[n] \in Nat
    BY <1>3
  <2>3. Sums(b)[0] = Sums(buf)[n] - Sums(buf)[n]
    BY <1>2, <2>2
  <2> QED BY <2>1, <2>3
<1>5. ASSUME NEW k \in 0 .. Len(b), k + 1 \in 0 .. Len(b), k \in T
      PROVE  k + 1 \in T
  <2>1. n + k + 1 \in 1 .. Len(buf) /\ n + (k + 1) = (n + k) + 1 /\ n + k \in 0 .. Len(buf)
    BY <1>1, <1>5
  <2>2. Sums(buf)[n + (k + 1)] = Sums(buf)[n + k] + buf[n + (k + 1)].text
    BY <1>3, <2>1
  <2>3. Sums(b)[k + 1] = Sums(b)[k] + b[k + 1].text /\ b[k + 1] = buf[n + (k + 1)]
    BY <1>1, <1>2, <1>5
  <2>4. buf[n + (k + 1)].text \in Nat /\ Sums(buf)[n] \in Nat /\ Sums(buf)[n + k] \in Nat
    BY <1>3, <2>1, TextNat
  <2> QED BY <1>5, <2>2, <2>3, <2>4
<1>6. Len(b) \in Nat
  BY <1>1
<1> HIDE DEF T
<1>7. \A k \in 0 .. Len(b) : k \in T
  BY <1>4, <1>5, <1>6, BoundedInduction
<1>8. Sums(b)[Len(b)] = Sums(buf)[n + Len(b)] - Sums(buf)[n]
  BY <1>6, <1>7 DEF T
<1>9. n + Len(b) = Len(buf)
  BY <1>1
<1> QED
  BY <1>8, <1>9 DEF Text, b

\* The strings in the list have a length.
LEMMA TextTyped == ASSUME NEW b \in Seq(Element) PROVE Text(b) \in Nat
<1>1. Len(b) \in 0 .. Len(b) OBVIOUS
<1>2. Sums(b) \in [0 .. Len(b) -> Nat] BY SumsAre, Zenon
<1> QED BY <1>1, <1>2, Zenon DEF Text

\* The trimming loop erases the first n strings and keeps the count, or resets it: the
\* count covers what is left and fits the configured size.
LEMMA TrimFits ==
  ASSUME NEW buf \in Seq(Element), NEW count \in Nat, Text(buf) <= count
  PROVE  \E n \in 0 .. Len(buf) :
            /\ Trim(buf, count).buf = SubSeq(buf, n + 1, Len(buf))
            /\ Trim(buf, count).count \in 0 .. BufferSize
            /\ Text(SubSeq(buf, n + 1, Len(buf))) <= Trim(buf, count).count
<1> DEFINE L == Len(buf)
           s == Sums(buf)
           Ends(k) == k = L \/ count - s[k] <= BufferSize
           Before(k) == \A j \in 0 .. k - 1 : count - s[j] > BufferSize
<1>1. L \in Nat /\ s \in [0 .. L -> Nat] /\ s[L] <= count
  BY SumsAre DEF Text
<1> HIDE DEF L, s
<1>2. \E k \in 0 .. L : Ends(k) /\ Before(k)
  <2> DEFINE T == {k \in 0 .. L : Ends(k)}
  <2>1. T \in SUBSET Nat /\ T # {}
    BY <1>1
  <2>2. PICK k \in T : \A j \in T : k <= j
    BY <2>1, LeastNat, Zenon
  <2>3. ASSUME NEW j \in 0 .. k - 1 PROVE count - s[j] > BufferSize
    BY <1>1, <2>2, ProviderAssumption
  <2> QED BY <2>2, <2>3
<1> DEFINE n == CHOOSE k \in 0 .. L : Ends(k) /\ Before(k)
<1>3. n \in 0 .. L /\ Ends(n)
  BY <1>2, Zenon
<1>4. Trim(buf, count) = [buf |-> SubSeq(buf, n + 1, L),
                          count |-> IF n = L THEN 0 ELSE count - s[n]]
  BY Zenon DEF Trim, L, s
<1> HIDE DEF n
<1>5. Text(SubSeq(buf, n + 1, Len(buf))) = s[L] - s[n]
  BY <1>3, TextSuffix DEF s, L, Text
<1>6. /\ Trim(buf, count).buf = SubSeq(buf, n + 1, L)
      /\ Trim(buf, count).count = IF n = L THEN 0 ELSE count - s[n]
  <2>1. \A x, c : [buf |-> x, count |-> c].buf = x /\ [buf |-> x, count |-> c].count = c
    OBVIOUS
  <2> QED BY <1>4, <2>1, Zenon
<1>7. s[n] \in Nat /\ s[L] \in Nat /\ s[n] <= s[L]
  <2>1. SubSeq(buf, n + 1, Len(buf)) \in Seq(Element)
    BY <1>3 DEF L
  <2>2. Text(SubSeq(buf, n + 1, Len(buf))) \in Nat
    BY <2>1, TextTyped, Zenon
  <2> QED BY <1>1, <1>3, <1>5, <2>2
<1>8. /\ Trim(buf, count).count \in 0 .. BufferSize
      /\ s[L] - s[n] <= Trim(buf, count).count
  BY <1>1, <1>3, <1>6, <1>7, ProviderAssumption
<1> QED
  BY <1>3, <1>5, <1>6, <1>8 DEF L


(* The state *)

\* The types of the two threads.
Reader == [pc : {"none", "loop", "sleep", "local", "writer", "check", "read",
                 "dial", "handshake", "send", "unlock", "unlocking", "exit"},
           joinable : BOOLEAN, stop : BOOLEAN, next : {"loop", "exit"}]
Writer == [pc : {"none", "loop", "dial", "handshake", "check", "wait",
                 "drain", "send", "sleep", "exit"},
           joinable : BOOLEAN, stop : BOOLEAN]
Socket == {"null", "closed", "open", "lost"}
Remote == Socket \cup {"mute"}

\* The state of the threads and the sockets.
ControlType ==
    /\ m_use_buffer \in BOOLEAN /\ certified \subseteq Remotes
    /\ rt \in Reader /\ wt \in Writer
    /\ ctl \in {"idle", "writer", "join_writer", "reader", "local", "remote",
                "join_reader"}
    /\ mp_local_socket \in Socket /\ mp_remote_socket \in Remote
    /\ todo \subseteq Remotes
    /\ copied \in [{"reader", "control"} -> BOOLEAN]
    /\ starts \in 0 .. MaxStarts

\* The list, with the bounds that keep its count from wrapping.
DataType ==
    /\ m_buffer \in Seq(Element) /\ m_buffer_count \in Nat
    /\ data \in Element \cup {NoData}
    /\ chunks \in 0 .. MaxChunks /\ last \in 0 .. MaxChunks
    /\ BufferBounded

\* The constructor leaves an empty list.
LEMMA TypeInit == Init => ControlType /\ DataType
<1> SUFFICES ASSUME Init PROVE ControlType /\ DataType
  OBVIOUS
<1>1. m_buffer \in Seq(Element) /\ Len(m_buffer) = 0
  BY DEF Init
<1>2. Text(m_buffer) = 0
  BY <1>1, SumsAre DEF Text
<1>3. BufferBounded
  BY <1>2, ProviderAssumption DEF Init, BufferBounded
<1>4. chunks \in 0 .. MaxChunks /\ last \in 0 .. MaxChunks /\ starts \in 0 .. MaxStarts
      /\ m_buffer_count \in Nat
  BY ProviderAssumption DEF Init
<1>5. rt \in Reader /\ wt \in Writer
  BY DEF Init, Reader, Writer
<1> QED
  BY <1>1, <1>3, <1>4, <1>5 DEF Init, ControlType, DataType, Socket, Remote

\* An exception in the reader or the writer leaves the thread and its socket in a
\* proper state.
LEMMA Throws ==
  ASSUME ControlType
  PROVE  /\ \A n \in {"loop", "exit"} : RThrow(n) =>
               rt' \in Reader /\ mp_local_socket' \in Socket /\ mp_remote_socket' \in Remote
         /\ \A p \in {"sleep", "exit"} : WThrow(p) =>
               wt' \in Writer /\ mp_remote_socket' \in Remote
<1>1. ASSUME NEW n \in {"loop", "exit"}, RThrow(n)
      PROVE  rt' \in Reader /\ mp_local_socket' \in Socket /\ mp_remote_socket' \in Remote
  <2>1. rt' \in Reader
    BY <1>1 DEF RThrow, ControlType, Reader
  <2>2. mp_remote_socket' \in Remote
    BY <1>1 DEF RThrow, ControlType, Socket, Remote
  <2> QED BY <1>1, <2>1, <2>2 DEF RThrow, Socket, Remote
<1>2. ASSUME NEW p \in {"sleep", "exit"}, WThrow(p)
      PROVE  wt' \in Writer /\ mp_remote_socket' \in Remote
  BY <1>2 DEF WThrow, WGo, ControlType, Writer, Socket, Remote
<1> QED BY <1>1, <1>2

\* A thread goes from one step to the next.
LEMMA Goes ==
  ASSUME ControlType
  PROVE  /\ \A p \in {"loop", "sleep", "local", "writer", "check", "read", "dial",
                      "handshake", "send", "unlocking", "exit"} :
               RGo(p) => rt' \in Reader
         /\ \A p \in {"dial", "handshake", "check", "wait", "drain", "send", "exit"} :
               WGo(p) => wt' \in Writer
         /\ Notified(wt) \in Writer
BY DEF ControlType, Reader, Writer, RGo, WGo, Notified

\* Every step keeps the types of the threads and the sockets.
LEMMA ControlStep == ControlType /\ [Next]_vars => ControlType'
<1> SUFFICES ASSUME ControlType, [Next]_vars PROVE ControlType'
  OBVIOUS
<1> USE DEF ControlType, sockVars, envVars
<1> USE Throws, Goes
<1>1. CASE RStep
  <2>1. CASE RLoop BY <2>1 DEF RLoop
  <2>2. CASE RSleep
    BY <2>2 DEF RSleep, Socket, Remote
  <2>3. CASE RConnect
    BY <2>3 DEF RConnect, Socket, Remote
  <2>4. CASE RStartWriter
    <3>1. [pc |-> "loop", joinable |-> TRUE, stop |-> FALSE] \in Writer BY DEF Writer
    <3> QED BY <2>4, <3>1 DEF RStartWriter
  <2>5. CASE RCheck BY <2>5 DEF RCheck
  <2>6. CASE RReadFails BY <2>6 DEF RReadFails
  <2>7. CASE RUnlock BY <2>7 DEF RUnlock
  <2>8. CASE RUnlocked
    <3>1. rt' \in Reader BY <2>8 DEF RUnlocked, RGo, Reader
    <3>2. mp_remote_socket' \in Remote BY <2>8 DEF RUnlocked, Shut, Socket, Remote
    <3>3. copied' \in [{"reader", "control"} -> BOOLEAN] BY <2>8 DEF RUnlocked
    <3> QED BY <2>8, <3>1, <3>2, <3>3 DEF RUnlocked
  <2>9. CASE RDial
    BY <2>9 DEF RDial, Socket, Remote
  <2>10. CASE RHandshake BY <2>10 DEF RHandshake
  <2>11. CASE RSend BY <2>11 DEF RSend
  <2> QED BY <1>1, <2>1, <2>2, <2>3, <2>4, <2>5, <2>6, <2>7, <2>8, <2>9, <2>10, <2>11 DEF RStep
<1>2. CASE WStep
  <2>1. CASE WLoop
    BY <2>1 DEF WLoop, Socket, Remote
  <2>2. CASE WDial
    BY <2>2 DEF WDial, Socket, Remote
  <2>3. CASE WHandshake BY <2>3 DEF WHandshake
  <2>4. CASE WCheck BY <2>4 DEF WCheck
  <2>5. CASE WWaitTimeout BY <2>5 DEF WWaitTimeout
  <2>6. CASE WTake BY <2>6 DEF WTake
  <2>7. CASE WSend BY <2>7 DEF WSend
  <2> QED BY <1>2, <2>1, <2>2, <2>3, <2>4, <2>5, <2>6, <2>7 DEF WStep
<1>3. CASE CtlStep
  <2>1. CASE CtlStopWriter
    <3>1. wt' \in Writer BY <2>1 DEF CtlStopWriter, Notified, Writer
    <3> QED BY <2>1, <3>1 DEF CtlStopWriter
  <2>2. CASE CtlJoinWriter
    <3>1. wt' \in Writer BY <2>2 DEF CtlJoinWriter, Writer
    <3> QED BY <2>2, <3>1 DEF CtlJoinWriter
  <2>3. CASE CtlStopReader
    <3>1. rt' \in Reader BY <2>3 DEF CtlStopReader, Reader
    <3>2. copied' \in [{"reader", "control"} -> BOOLEAN] BY <2>3 DEF CtlStopReader
    <3> QED BY <2>3, <3>1, <3>2 DEF CtlStopReader
  <2>4. CASE CtlShutLocal BY <2>4 DEF CtlShutLocal, Shut, Socket, Remote
  <2>5. CASE CtlShutRemote BY <2>5 DEF CtlShutRemote, Shut, Socket, Remote
  <2>6. CASE CtlJoinReader
    <3>1. rt' \in Reader BY <2>6 DEF CtlJoinReader, Reader
    <3> QED BY <2>6, <3>1 DEF CtlJoinReader
  <2> QED BY <1>3, <2>1, <2>2, <2>3, <2>4, <2>5, <2>6 DEF CtlStep
<1>4. CASE CtlStart
  <2>1. rt' \in Reader BY <1>4 DEF CtlStart, Reader
  <2>2. starts' \in 0 .. MaxStarts BY <1>4, ProviderAssumption DEF CtlStart
  <2> QED BY <1>4, <2>1, <2>2 DEF CtlStart
<1>5. CASE CtlStop BY <1>5 DEF CtlStop
<1>6. CASE PeerLeaves
  BY <1>6 DEF PeerLeaves, Socket, Remote
<1>7. CASE CertificateArrives BY <1>7 DEF CertificateArrives
<1>10. CASE PeerPauses BY <1>10 DEF PeerPauses, Socket, Remote
<1>8. ASSUME NEW len \in 1 .. MaxLen, NEW text \in 0 .. len, RRead(len, text)
      PROVE  ControlType'
  BY <1>8 DEF RRead
<1>9. CASE UNCHANGED vars BY <1>9 DEF vars
<1> QED BY <1>1, <1>2, <1>3, <1>4, <1>5, <1>6, <1>7, <1>8, <1>9, <1>10 DEF Next

\* What the writer takes is a string of the list; the others stay.
LEMMA TextTail ==
  ASSUME NEW b \in Seq(Element), b # <<>>
  PROVE  Tail(b) \in Seq(Element) /\ Head(b) \in Element /\ Text(Tail(b)) <= Text(b)
<1>1. Len(b) \in Nat /\ 1 \in 0 .. Len(b) /\ Tail(b) = SubSeq(b, 2, Len(b))
  OBVIOUS
<1>2. PICK k : k = 1 OBVIOUS
<1>3. Text(SubSeq(b, k + 1, Len(b))) = Text(b) - Sums(b)[k]
  BY <1>1, <1>2, TextSuffix
<1>4. Sums(b)[k] \in Nat
  <2>1. Sums(b) \in [0 .. Len(b) -> Nat] BY SumsAre, Zenon
  <2> QED BY <1>1, <1>2, <2>1
<1>5. SubSeq(b, k + 1, Len(b)) = Tail(b)
  BY <1>1, <1>2
<1>6. Text(b) \in Nat
  BY TextTyped, Zenon
<1>7. Text(Tail(b)) = Text(b) - Sums(b)[k]
  BY <1>3, <1>5, Zenon
<1>8. Text(Tail(b)) <= Text(b)
  BY <1>4, <1>6, <1>7
<1> QED BY <1>8

\* The number of a chunk.
LEMMA Ids == ASSUME NEW d \in Element \cup {NoData} PROVE d.id \in 0 .. MaxChunks
BY ProviderAssumption DEF Element, NoData

\* Every step keeps the bounds of the list: the trimming loop before a string is
\* appended, and the writer that takes strings without reducing the count.
LEMMA DataStep == DataType /\ ControlType /\ [Next]_vars => DataType'
<1> SUFFICES ASSUME DataType, m_use_buffer \in BOOLEAN, [Next]_vars PROVE DataType'
  BY DEF ControlType
<1> USE DEF DataType, BufferBounded, bufVars
<1>1. CASE RStep
  <2>1. CASE RLoop BY <2>1 DEF RLoop, RGo
  <2>2. CASE RSleep BY <2>2 DEF RSleep, RGo
  <2>3. CASE RConnect BY <2>3 DEF RConnect, RGo, RThrow
  <2>4. CASE RStartWriter BY <2>4 DEF RStartWriter, RGo, RThrow
  <2>5. CASE RCheck BY <2>5 DEF RCheck, RGo, RThrow
  <2>6. CASE RReadFails BY <2>6 DEF RReadFails, RThrow
  <2>7. CASE RUnlock BY <2>7 DEF RUnlock, RGo
  <2>8. CASE RUnlocked BY <2>8 DEF RUnlocked, RGo, Shut
  <2>9. CASE RDial BY <2>9 DEF RDial, RGo, RThrow
  <2>10. CASE RHandshake BY <2>10 DEF RHandshake, RGo, RThrow
  <2>11. CASE RSend
    <3>1. last' \in 0 .. MaxChunks BY <2>11, Ids DEF RSend, RThrow
    <3> QED BY <2>11, <3>1 DEF RSend, RGo, RThrow
  <2> QED BY <1>1, <2>1, <2>2, <2>3, <2>4, <2>5, <2>6, <2>7, <2>8, <2>9, <2>10, <2>11 DEF RStep
<1>2. CASE WStep
  <2>1. CASE WLoop BY <2>1 DEF WLoop, WGo
  <2>2. CASE WDial BY <2>2 DEF WDial, WGo, WThrow
  <2>3. CASE WHandshake BY <2>3 DEF WHandshake, WGo, WThrow
  <2>4. CASE WCheck BY <2>4 DEF WCheck, WGo, WThrow
  <2>5. CASE WWaitTimeout BY <2>5 DEF WWaitTimeout, WGo
  <2>6. CASE WTake
    <3>1. CASE m_buffer = <<>> BY <2>6, <3>1 DEF WTake, WGo
    <3>2. CASE m_buffer # <<>>
      <4>1. /\ m_buffer' \in Seq(Element) /\ Text(m_buffer') \in Nat
            /\ Text(m_buffer') <= Text(m_buffer) /\ Text(m_buffer) \in Nat
        BY <2>6, <3>2, TextTail, TextTyped DEF WTake
      <4>2. BufferBounded'
        BY <2>6, <4>1, ProviderAssumption DEF WTake
      <4>3. data' \in Element \cup {NoData}
        BY <2>6, <3>2, TextTail DEF WTake
      <4> QED BY <2>6, <4>1, <4>2, <4>3 DEF WTake
    <3> QED BY <3>1, <3>2
  <2>7. CASE WSend
    <3>1. last' \in 0 .. MaxChunks BY <2>7, Ids DEF WSend, WThrow
    <3> QED BY <2>7, <3>1 DEF WSend, WGo, WThrow
  <2> QED BY <1>2, <2>1, <2>2, <2>3, <2>4, <2>5, <2>6, <2>7 DEF WStep
<1>3. CASE CtlStep
  <2>1. CASE CtlStopWriter BY <2>1 DEF CtlStopWriter, Notified
  <2>2. CASE CtlJoinWriter BY <2>2 DEF CtlJoinWriter
  <2>3. CASE CtlStopReader BY <2>3 DEF CtlStopReader
  <2>4. CASE CtlShutLocal BY <2>4 DEF CtlShutLocal, Shut
  <2>5. CASE CtlShutRemote BY <2>5 DEF CtlShutRemote, Shut
  <2>6. CASE CtlJoinReader BY <2>6 DEF CtlJoinReader
  <2> QED BY <1>3, <2>1, <2>2, <2>3, <2>4, <2>5, <2>6 DEF CtlStep
<1>4. CASE CtlStart BY <1>4 DEF CtlStart
<1>5. CASE CtlStop BY <1>5 DEF CtlStop, Notified
<1>6. CASE PeerLeaves BY <1>6 DEF PeerLeaves
<1>7. CASE CertificateArrives BY <1>7 DEF CertificateArrives
<1>10. CASE PeerPauses BY <1>10 DEF PeerPauses
<1>8. ASSUME NEW len \in 1 .. MaxLen, NEW text \in 0 .. len, RRead(len, text)
      PROVE  DataType'
  <2>1. chunks + 1 \in 1 .. MaxChunks /\ chunks' \in 0 .. MaxChunks
    BY <1>8, ProviderAssumption DEF RRead
  <2>2. text \in 0 .. MaxLen /\ len \in 0 .. MaxLen /\ text \in Nat /\ len \in Nat /\ text <= len
        /\ text <= MaxLen
    BY ProviderAssumption
  <2>3. CASE m_use_buffer
    <3>0. PICK n \in 0 .. Len(m_buffer) :
            /\ Trim(m_buffer, m_buffer_count).buf = SubSeq(m_buffer, n + 1, Len(m_buffer))
            /\ Trim(m_buffer, m_buffer_count).count \in 0 .. BufferSize
            /\ Text(SubSeq(m_buffer, n + 1, Len(m_buffer))) <= Trim(m_buffer, m_buffer_count).count
      BY TrimFits
    <3>1. PICK b, c, e :
            /\ b = SubSeq(m_buffer, n + 1, Len(m_buffer))
            /\ Trim(m_buffer, m_buffer_count).buf = b
            /\ Trim(m_buffer, m_buffer_count).count = c
            /\ c \in 0 .. BufferSize /\ Text(b) <= c
            /\ e = [id |-> chunks + 1, text |-> text]
      BY <3>0, Zenon
    <3>2. b \in Seq(Element) /\ e \in Element /\ e.text = text
      <4>1. b \in Seq(Element) BY <3>1
      <4>2. e \in Element /\ e.text = text BY <2>1, <2>2, <3>1 DEF Element
      <4> QED BY <4>1, <4>2
    <3>3. m_buffer' = Append(b, e) /\ m_buffer_count' = c + len
      BY <1>8, <2>3, <3>1 DEF RRead, Pushed
    <3>4. m_buffer' \in Seq(Element)
      BY <3>2, <3>3
    <3>5. Text(m_buffer') = Text(b) + text /\ Text(b) \in Nat
      BY <3>2, <3>3, TextAppend, TextTyped
    <3>6. m_buffer_count' \in Nat /\ BufferBounded'
      BY <2>2, <3>1, <3>3, <3>5, ProviderAssumption
    <3>7. UNCHANGED <<data, last>>
      BY <1>8, <2>3 DEF RRead
    <3> QED BY <2>1, <3>4, <3>6, <3>7
  <2>4. CASE ~m_use_buffer
    <3>1. [id |-> chunks + 1, text |-> len] \in Element
      BY <2>1, <2>2 DEF Element
    <3>2. data' \in Element \cup {NoData} /\ UNCHANGED <<m_buffer, m_buffer_count, last>>
      BY <1>8, <2>4, <3>1 DEF RRead
    <3> QED BY <2>1, <3>2
  <2> QED BY <2>3, <2>4
<1>9. CASE UNCHANGED vars BY <1>9 DEF vars
<1> QED BY <1>1, <1>2, <1>3, <1>4, <1>5, <1>6, <1>7, <1>8, <1>9, <1>10 DEF Next

(* The threads *)

\* Why the threads are accounted for: a thread is joinable from its start until it has
\* been joined, and holds a pointer to a socket only while it is in the scope of that
\* socket; only a reader without a buffer connects to the remote itself, and the writer,
\* which a reader with a buffer starts, is asked to stop only by a stop() that then
\* joins it.
ThreadInv ==
    /\ ~rt.joinable => rt.pc = "none"
    /\ rt.pc = "none" => ~rt.joinable
    /\ ~wt.joinable => wt.pc = "none"
    /\ wt.pc = "none" => ~wt.joinable
    /\ rt.pc \in {"dial", "handshake", "send"} => ~m_use_buffer
    /\ rt.pc = "writer" => m_use_buffer
    /\ wt.pc # "none" => m_use_buffer
    /\ m_use_buffer /\ wt.pc \in {"none", "loop", "sleep", "exit"} =>
           mp_remote_socket = "null"

\* The rest of the account: the sockets of the reader's scope, a writer that was asked
\* to stop, and the writer of a reader that fills the list.
AccountInv ==
    /\ rt.pc \in {"none", "loop", "sleep", "unlock", "unlocking", "exit"} =>
           /\ mp_local_socket = "null"
           /\ m_use_buffer \/ mp_remote_socket = "null"
    /\ wt.joinable /\ wt.stop => ctl = "join_writer"
    /\ m_use_buffer /\ rt.pc \in {"check", "read"} =>
           wt.joinable \/ ctl \in {"reader", "local", "remote", "join_reader"}
    /\ ctl = "join_writer" => wt.joinable
    /\ ctl \in {"local", "remote", "join_reader"} => rt.joinable /\ rt.stop

\* Every step of the threads and of stop() keeps the account of the threads.
LEMMA ThreadStep == ControlType /\ ThreadInv /\ [Next]_vars => ThreadInv'
<1> SUFFICES ASSUME ControlType, ThreadInv, [Next]_vars PROVE ThreadInv'
  OBVIOUS
<1> USE DEF ControlType, ThreadInv, Reader, Writer, Socket, Remote, sockVars, envVars
<1>1. CASE RStep
  <2>1. CASE RLoop BY <2>1 DEF RLoop, RGo
  <2>2. CASE RSleep BY <2>2 DEF RSleep, RGo
  <2>3. CASE RConnect BY <2>3 DEF RConnect, RGo, RThrow
  <2>4. CASE RStartWriter
    <3>1. CASE wt.joinable BY <2>4, <3>1 DEF RStartWriter, RThrow
    <3>2. CASE ~wt.joinable
      <4>1. wt'.pc = "loop" /\ wt'.joinable /\ rt'.pc = "check" /\ rt'.joinable = rt.joinable
        BY <2>4, <3>2 DEF RStartWriter, RGo
      <4>2. UNCHANGED <<m_use_buffer, mp_remote_socket>> /\ wt.pc = "none" /\ rt.pc = "writer"
        BY <2>4, <3>2 DEF RStartWriter
      <4> QED BY <4>1, <4>2
    <3> QED BY <3>1, <3>2
  <2>5. CASE RCheck BY <2>5 DEF RCheck, RGo, RThrow
  <2>6. CASE RReadFails BY <2>6 DEF RReadFails, RThrow
  <2>7. CASE RUnlock BY <2>7 DEF RUnlock, RGo
  <2>8. CASE RUnlocked BY <2>8 DEF RUnlocked, RGo, Shut
  <2>9. CASE RDial BY <2>9 DEF RDial, RGo, RThrow
  <2>10. CASE RHandshake BY <2>10 DEF RHandshake, RGo, RThrow
  <2>11. CASE RSend BY <2>11 DEF RSend, RGo, RThrow
  <2> QED BY <1>1, <2>1, <2>2, <2>3, <2>4, <2>5, <2>6, <2>7, <2>8, <2>9, <2>10, <2>11 DEF RStep
<1>2. CASE WStep
  <2>1. CASE WLoop BY <2>1 DEF WLoop, WGo
  <2>2. CASE WDial BY <2>2 DEF WDial, WGo, WThrow
  <2>3. CASE WHandshake BY <2>3 DEF WHandshake, WGo, WThrow
  <2>4. CASE WCheck BY <2>4 DEF WCheck, WGo, WThrow
  <2>5. CASE WWaitTimeout BY <2>5 DEF WWaitTimeout, WGo
  <2>6. CASE WTake BY <2>6 DEF WTake, WGo
  <2>7. CASE WSend BY <2>7 DEF WSend, WGo, WThrow
  <2> QED BY <1>2, <2>1, <2>2, <2>3, <2>4, <2>5, <2>6, <2>7 DEF WStep
<1>3. CASE CtlStep
  <2>1. CASE CtlStopWriter BY <2>1 DEF CtlStopWriter, Notified
  <2>2. CASE CtlJoinWriter BY <2>2 DEF CtlJoinWriter
  <2>3. CASE CtlStopReader BY <2>3 DEF CtlStopReader
  <2>4. CASE CtlShutLocal BY <2>4 DEF CtlShutLocal, Shut
  <2>5. CASE CtlShutRemote BY <2>5 DEF CtlShutRemote, Shut
  <2>6. CASE CtlJoinReader BY <2>6 DEF CtlJoinReader
  <2> QED BY <1>3, <2>1, <2>2, <2>3, <2>4, <2>5, <2>6 DEF CtlStep
<1>4. CASE CtlStart BY <1>4 DEF CtlStart
<1>5. CASE CtlStop BY <1>5 DEF CtlStop, Notified
<1>6. CASE PeerLeaves BY <1>6 DEF PeerLeaves
<1>7. CASE CertificateArrives BY <1>7 DEF CertificateArrives
<1>10. CASE PeerPauses BY <1>10 DEF PeerPauses
<1>8. ASSUME NEW len \in 1 .. MaxLen, NEW text \in 0 .. len, RRead(len, text)
      PROVE  ThreadInv'
  BY <1>8 DEF RRead, RGo, Notified
<1>9. CASE UNCHANGED vars BY <1>9 DEF vars
<1> QED BY <1>1, <1>2, <1>3, <1>4, <1>5, <1>6, <1>7, <1>8, <1>9, <1>10 DEF Next

\* Every step keeps the rest of the account.
LEMMA AccountStep ==
  ControlType /\ ThreadInv /\ AccountInv /\ [Next]_vars => AccountInv'
<1> SUFFICES ASSUME ControlType, ThreadInv, AccountInv, [Next]_vars PROVE AccountInv'
  OBVIOUS
<1> USE DEF ControlType, ThreadInv, AccountInv, Reader, Writer, Socket, Remote, sockVars, envVars
<1>1. CASE RStep
  <2>1. CASE RLoop BY <2>1 DEF RLoop, RGo
  <2>2. CASE RSleep BY <2>2 DEF RSleep, RGo
  <2>3. CASE RConnect BY <2>3 DEF RConnect, RGo, RThrow
  <2>4. CASE RStartWriter
    <3>1. CASE wt.joinable BY <2>4, <3>1 DEF RStartWriter, RThrow
    <3>2. CASE ~wt.joinable
      <4>1. wt'.pc = "loop" /\ wt'.joinable /\ ~wt'.stop /\ rt'.pc = "check"
            /\ rt'.joinable = rt.joinable /\ rt'.stop = rt.stop
        BY <2>4, <3>2 DEF RStartWriter, RGo
      <4>2. UNCHANGED <<m_use_buffer, mp_local_socket, mp_remote_socket, ctl>> /\ wt.pc = "none" /\ rt.pc = "writer"
        BY <2>4, <3>2 DEF RStartWriter
      <4> QED BY <4>1, <4>2
    <3> QED BY <3>1, <3>2
  <2>5. CASE RCheck BY <2>5 DEF RCheck, RGo, RThrow
  <2>6. CASE RReadFails BY <2>6 DEF RReadFails, RThrow
  <2>7. CASE RUnlock BY <2>7 DEF RUnlock, RGo
  <2>8. CASE RUnlocked BY <2>8 DEF RUnlocked, RGo, Shut
  <2>9. CASE RDial BY <2>9 DEF RDial, RGo, RThrow
  <2>10. CASE RHandshake BY <2>10 DEF RHandshake, RGo, RThrow
  <2>11. CASE RSend BY <2>11 DEF RSend, RGo, RThrow
  <2> QED BY <1>1, <2>1, <2>2, <2>3, <2>4, <2>5, <2>6, <2>7, <2>8, <2>9, <2>10, <2>11 DEF RStep
<1>2. CASE WStep
  <2>1. CASE WLoop BY <2>1 DEF WLoop, WGo
  <2>2. CASE WDial BY <2>2 DEF WDial, WGo, WThrow
  <2>3. CASE WHandshake BY <2>3 DEF WHandshake, WGo, WThrow
  <2>4. CASE WCheck BY <2>4 DEF WCheck, WGo, WThrow
  <2>5. CASE WWaitTimeout BY <2>5 DEF WWaitTimeout, WGo
  <2>6. CASE WTake BY <2>6 DEF WTake, WGo
  <2>7. CASE WSend BY <2>7 DEF WSend, WGo, WThrow
  <2> QED BY <1>2, <2>1, <2>2, <2>3, <2>4, <2>5, <2>6, <2>7 DEF WStep
<1>3. CASE CtlStep
  <2>1. CASE CtlStopWriter BY <2>1 DEF CtlStopWriter, Notified
  <2>2. CASE CtlJoinWriter BY <2>2 DEF CtlJoinWriter
  <2>3. CASE CtlStopReader BY <2>3 DEF CtlStopReader
  <2>4. CASE CtlShutLocal BY <2>4 DEF CtlShutLocal, Shut
  <2>5. CASE CtlShutRemote BY <2>5 DEF CtlShutRemote, Shut
  <2>6. CASE CtlJoinReader BY <2>6 DEF CtlJoinReader
  <2> QED BY <1>3, <2>1, <2>2, <2>3, <2>4, <2>5, <2>6 DEF CtlStep
<1>4. CASE CtlStart BY <1>4 DEF CtlStart
<1>5. CASE CtlStop BY <1>5 DEF CtlStop, Notified
<1>6. CASE PeerLeaves BY <1>6 DEF PeerLeaves
<1>7. CASE CertificateArrives BY <1>7 DEF CertificateArrives
<1>10. CASE PeerPauses BY <1>10 DEF PeerPauses
<1>8. ASSUME NEW len \in 1 .. MaxLen, NEW text \in 0 .. len, RRead(len, text)
      PROVE  AccountInv'
  BY <1>8 DEF RRead, RGo, Notified
<1>9. CASE UNCHANGED vars BY <1>9 DEF vars
<1> QED BY <1>1, <1>2, <1>3, <1>4, <1>5, <1>6, <1>7, <1>8, <1>9, <1>10 DEF Next

\* stop() and the assertion in thread::start account for every thread: after stop() the
\* reader has ended and so has the writer, but for one that the reader started behind
\* stop()'s back, which is joinable and waits for the next stop(); and a reader that
\* fills the list has a writer, or a stop() at work that joined it.
THEOREM ThreadsKept == Spec => []ThreadsAccounted
<1>1. Init => ThreadInv /\ AccountInv
  BY DEF Init, ThreadInv, AccountInv
<1>2. ControlType /\ ThreadInv /\ AccountInv => ThreadsAccounted
  BY DEF ControlType, Reader, Writer, ThreadInv, AccountInv, ThreadsAccounted
<1> QED
  BY <1>1, <1>2, TypeInit, ControlStep, ThreadStep, AccountStep, PTL DEF Spec

\* The list of strings holds at most the configured size and one more chunk, and its
\* count covers what it holds, for every length of the chunks and every size.
THEOREM ListBounded == Spec => []BufferBounded
<1>1. DataType => BufferBounded
  BY DEF DataType
<1> QED
  BY <1>1, TypeInit, ControlStep, DataStep, PTL DEF Spec

\* The types of the state; that the count is a number says that it never wraps.
THEOREM ProviderTypes == Spec => []TypeOK
<1>1. ControlType /\ DataType => TypeOK
  BY DEF ControlType, DataType, TypeOK, Reader, Writer, Socket, Remote
<1> QED
  BY <1>1, TypeInit, ControlStep, DataStep, PTL DEF Spec

(* The order *)

\* The numbers in a list of chunks grow, after one number and up to another.
Ordered(b, lo, hi) ==
    /\ \A i \in 1 .. Len(b) : lo < b[i].id /\ b[i].id <= hi
    /\ \A i, j \in 1 .. Len(b) : i < j => b[i].id < b[j].id

\* Why chunks are written in order: what waits is newer than what is held and what was
\* sent; only the thread that writes holds a chunk, and only until it was sent or the
\* connection is lost.
OrderInv ==
    /\ last <= chunks /\ Ordered(m_buffer, last, chunks)
    /\ data # NoData => /\ last < data.id /\ data.id <= chunks
                        /\ Ordered(m_buffer, data.id, chunks)
                        /\ wt.pc = "send" \/ rt.pc = "send"
    /\ ~m_use_buffer => m_buffer = <<>>
    /\ wt.pc = "send" \/ rt.pc = "send" => data # NoData

\* A step that leaves the list alone, and goes on with the chunk it holds or drops it.
OrderKept ==
    /\ UNCHANGED <<m_buffer, last, chunks, m_use_buffer>>
    /\ \/ /\ data' = data
          /\ wt'.pc = "send" <=> wt.pc = "send"
          /\ rt'.pc = "send" <=> rt.pc = "send"
       \/ data' = NoData /\ wt'.pc # "send" /\ rt'.pc # "send"

\* The numbers of chunks are natural.
LEMMA ChunksNat == DataType => chunks \in Nat /\ last \in Nat
BY ProviderAssumption DEF DataType

\* The numbers of chunks start at one.
LEMMA IdsPositive ==
  ASSUME NEW b \in Seq(Element)
  PROVE  \A k \in 1 .. Len(b) : b[k].id \in Nat \ {0} /\ b[k] # NoData
<1>1. \A e \in Element : e.id \in 1 .. MaxChunks
  BY DEF Element
<1>2. 1 .. MaxChunks \subseteq Nat \ {0} /\ NoData.id = 0
  BY ProviderAssumption DEF NoData
<1>3. \A k \in 1 .. Len(b) : b[k] \in Element
  OBVIOUS
<1>4. \A k \in 1 .. Len(b) : b[k].id \in Nat \ {0}
  BY <1>1, <1>2, <1>3, Zenon
<1>5. \A k \in 1 .. Len(b) : b[k].id # 0
  BY <1>4
<1> QED
  BY <1>2, <1>4, <1>5, Zenon

\* An empty list is in order.
LEMMA OrderedEmpty == \A lo, hi : Ordered(<<>>, lo, hi)
BY DEF Ordered

\* Dropping the oldest and appending the newest chunk keeps the order.
LEMMA OrderedAppend ==
  ASSUME NEW b \in Seq(Element), NEW n \in 0 .. Len(b), NEW e \in Element,
         NEW lo \in Nat, NEW hi \in Nat, lo <= hi, e.id = hi + 1, Ordered(b, lo, hi)
  PROVE  Ordered(Append(SubSeq(b, n + 1, Len(b)), e), lo, hi + 1)
<1>1. PICK c : c = SubSeq(b, n + 1, Len(b))
  OBVIOUS
<1>2. /\ c \in Seq(Element) /\ Len(c) = Len(b) - n
      /\ \A i \in 1 .. Len(c) : c[i] = b[i + n]
  BY <1>1
<1>3. PICK d : d = Append(c, e)
  OBVIOUS
<1>4. /\ Len(d) = Len(c) + 1 /\ d[Len(c) + 1] = e
      /\ \A i \in 1 .. Len(c) : d[i] = c[i]
  BY <1>2, <1>3
<1>5. \A i \in 1 .. Len(b) : b[i].id \in Nat
  BY IdsPositive
<1>6. \A i \in 1 .. Len(c) : /\ lo < d[i].id /\ d[i].id <= hi /\ d[i].id \in Nat
                             /\ d[i].id = b[i + n].id /\ i + n \in 1 .. Len(b)
  BY <1>2, <1>4, <1>5 DEF Ordered
<1>0. Len(c) \in Nat /\ Len(b) \in Nat
  BY <1>2
<1>7. \A i \in 1 .. Len(d) : lo < d[i].id /\ d[i].id <= hi + 1
  BY <1>2, <1>4, <1>6
<1>8. ASSUME NEW i \in 1 .. Len(d), NEW j \in 1 .. Len(d), i < j
      PROVE  d[i].id < d[j].id
  <2>1. CASE j = Len(c) + 1
    <3>1. i \in 1 .. Len(c) /\ d[j].id = hi + 1
      BY <1>0, <1>4, <1>8, <2>1
    <3> QED BY <1>6, <3>1
  <2>2. CASE j # Len(c) + 1
    <3>1. i \in 1 .. Len(c) /\ j \in 1 .. Len(c) /\ i + n < j + n
      BY <1>0, <1>4, <1>8, <2>2
    <3> QED BY <1>6, <3>1, Zenon DEF Ordered
  <2> QED BY <2>1, <2>2
<1> QED
  BY <1>1, <1>3, <1>7, <1>8, Zenon DEF Ordered

\* The oldest chunk is taken: it is older than what stays.
LEMMA OrderedTail ==
  ASSUME NEW b \in Seq(Element), b # <<>>, NEW lo, NEW hi, Ordered(b, lo, hi)
  PROVE  /\ Ordered(Tail(b), lo, hi) /\ Ordered(Tail(b), Head(b).id, hi)
         /\ lo < Head(b).id /\ Head(b).id <= hi
<1>1. PICK c : c = Tail(b)
  OBVIOUS
<1>2. Len(c) = Len(b) - 1 /\ Len(b) \in Nat \ {0} /\ \A i \in 1 .. Len(c) : c[i] = b[i + 1]
  BY <1>1
<1>3. Head(b) = b[1] /\ 1 \in 1 .. Len(b)
  BY <1>2
<1>4. \A i \in 1 .. Len(c) : i + 1 \in 1 .. Len(b) /\ 1 < i + 1
  BY <1>2
<1>5. \A i \in 1 .. Len(c) : lo < c[i].id /\ c[i].id <= hi /\ b[1].id < c[i].id
  BY <1>2, <1>3, <1>4, Zenon DEF Ordered
<1>6. \A i, j \in 1 .. Len(c) : i < j => c[i].id < c[j].id
  <2> SUFFICES ASSUME NEW i \in 1 .. Len(c), NEW j \in 1 .. Len(c), i < j
               PROVE  c[i].id < c[j].id
    OBVIOUS
  <2>1. i + 1 \in 1 .. Len(b) /\ j + 1 \in 1 .. Len(b) /\ i + 1 < j + 1
    BY <1>2
  <2> QED BY <1>2, <2>1, Zenon DEF Ordered
<1> QED
  BY <1>1, <1>3, <1>5, <1>6, Zenon DEF Ordered

\* Such a step keeps the order.
LEMMA OrderIfKept == OrderInv /\ OrderKept => OrderInv'
<1> SUFFICES ASSUME OrderInv, OrderKept PROVE OrderInv'
  OBVIOUS
<1>1. UNCHANGED <<m_buffer, last, chunks, m_use_buffer>>
  BY DEF OrderKept
<1>2. CASE data' = data /\ (wt'.pc = "send" <=> wt.pc = "send") /\ (rt'.pc = "send" <=> rt.pc = "send")
  BY <1>1, <1>2 DEF OrderInv
<1>3. CASE data' = NoData /\ wt'.pc # "send" /\ rt'.pc # "send"
  BY <1>1, <1>3 DEF OrderInv
<1> QED BY <1>2, <1>3 DEF OrderKept

\* Every step keeps the order of what was sent, what is held and what waits.
LEMMA OrderStep ==
  ControlType /\ DataType /\ ThreadInv /\ OrderInv /\ [Next]_vars => OrderInv'
<1> SUFFICES ASSUME ControlType, DataType, ThreadInv, OrderInv, [Next]_vars PROVE OrderInv'
  OBVIOUS
<1>0. /\ m_buffer \in Seq(Element) /\ m_use_buffer \in BOOLEAN
      /\ rt \in Reader /\ wt \in Writer
  BY DEF DataType, ControlType
<1> USE <1>0 DEF OrderInv, ThreadInv, bufVars, envVars, Reader, Writer
<1>1. CASE RStep
  <2>1. CASE RLoop BY <2>1, OrderIfKept DEF OrderKept, RLoop, RGo
  <2>2. CASE RSleep BY <2>2, OrderIfKept DEF OrderKept, RSleep, RGo
  <2>3. CASE RConnect BY <2>3, OrderIfKept DEF OrderKept, RConnect, RGo, RThrow
  <2>4. CASE RStartWriter
    <3>1. CASE wt.joinable BY <2>4, <3>1, OrderIfKept DEF OrderKept, RStartWriter, RThrow
    <3>2. CASE ~wt.joinable
      <4>1. wt.pc = "none" /\ rt.pc = "writer" /\ wt'.pc = "loop" /\ rt'.pc = "check"
        BY <2>4, <3>2 DEF RStartWriter, RGo
      <4>2. UNCHANGED <<m_buffer, last, chunks, m_use_buffer, data>>
        BY <2>4, <3>2 DEF RStartWriter
      <4> QED BY <4>1, <4>2, OrderIfKept DEF OrderKept
    <3> QED BY <3>1, <3>2
  <2>5. CASE RCheck BY <2>5, OrderIfKept DEF OrderKept, RCheck, RGo, RThrow
  <2>6. CASE RReadFails BY <2>6, OrderIfKept DEF OrderKept, RReadFails, RThrow
  <2>7. CASE RUnlock BY <2>7, OrderIfKept DEF OrderKept, RUnlock, RGo
  <2>8. CASE RUnlocked BY <2>8, OrderIfKept DEF OrderKept, RUnlocked, RGo, Shut
  <2>9. CASE RDial BY <2>9, OrderIfKept DEF OrderKept, RDial, RGo, RThrow
  <2>10. CASE RHandshake BY <2>10, OrderIfKept DEF OrderKept, RHandshake, RGo, RThrow
  <2>11. CASE RSend
    <3>1. ~m_use_buffer /\ wt.pc = "none" /\ data # NoData BY <2>11 DEF RSend, ThreadInv
    <3>2. data' = NoData /\ rt'.pc # "send" /\ wt' = wt
      BY <2>11, <3>1 DEF RSend, RThrow, RGo
    <3>3. UNCHANGED <<m_buffer, chunks, m_use_buffer>> /\ (last' = data.id \/ last' = last)
      BY <2>11 DEF RSend
    <3> QED BY <3>1, <3>2, <3>3
  <2> QED BY <1>1, <2>1, <2>2, <2>3, <2>4, <2>5, <2>6, <2>7, <2>8, <2>9, <2>10, <2>11 DEF RStep
<1>2. CASE WStep
  <2>1. CASE WLoop BY <2>1, OrderIfKept DEF OrderKept, WLoop, WGo
  <2>2. CASE WDial BY <2>2, OrderIfKept DEF OrderKept, WDial, WGo, WThrow
  <2>3. CASE WHandshake BY <2>3, OrderIfKept DEF OrderKept, WHandshake, WGo, WThrow
  <2>4. CASE WCheck BY <2>4, OrderIfKept DEF OrderKept, WCheck, WGo, WThrow
  <2>5. CASE WWaitTimeout BY <2>5, OrderIfKept DEF OrderKept, WWaitTimeout, WGo
  <2>6. CASE WTake
    <3>1. CASE m_buffer = <<>> BY <2>6, <3>1, OrderIfKept DEF WTake, WGo, OrderKept
    <3>2. CASE m_buffer # <<>>
      <4>1. rt.pc # "send" /\ m_use_buffer /\ data = NoData
        BY <2>6 DEF WTake, ThreadInv
      <4>2. /\ m_buffer' = Tail(m_buffer)
            /\ UNCHANGED <<m_use_buffer, rt, chunks, last>>
            /\ \/ data' = data /\ wt'.pc # "send"
               \/ data' = Head(m_buffer) /\ wt'.pc = "send"
        BY <2>6, <3>2 DEF WTake, WGo
      <4>3. /\ Ordered(Tail(m_buffer), last, chunks)
            /\ Ordered(Tail(m_buffer), Head(m_buffer).id, chunks)
            /\ last < Head(m_buffer).id /\ Head(m_buffer).id <= chunks
        BY <3>2, OrderedTail
      <4>4. Head(m_buffer) # NoData
        <5>1. 1 \in 1 .. Len(m_buffer) /\ Head(m_buffer) = m_buffer[1] BY <3>2
        <5> QED BY <5>1, IdsPositive
      <4> QED BY <4>1, <4>2, <4>3, <4>4
    <3> QED BY <3>1, <3>2
  <2>7. CASE WSend
    <3>1. m_use_buffer /\ rt.pc # "send" /\ data # NoData BY <2>7 DEF WSend, ThreadInv
    <3>2. data' = NoData /\ wt'.pc # "send" /\ rt' = rt
      BY <2>7, <3>1 DEF WSend, WThrow, WGo
    <3>3. UNCHANGED <<m_buffer, chunks, m_use_buffer>> /\ (last' = data.id \/ last' = last)
      BY <2>7 DEF WSend
    <3> QED BY <3>1, <3>2, <3>3
  <2> QED BY <1>2, <2>1, <2>2, <2>3, <2>4, <2>5, <2>6, <2>7 DEF WStep
<1>3. CASE CtlStep
  <2>1. CASE CtlStopWriter BY <2>1, OrderIfKept DEF OrderKept, CtlStopWriter, Notified
  <2>2. CASE CtlJoinWriter BY <2>2, OrderIfKept DEF OrderKept, CtlJoinWriter
  <2>3. CASE CtlStopReader BY <2>3, OrderIfKept DEF OrderKept, CtlStopReader
  <2>4. CASE CtlShutLocal BY <2>4, OrderIfKept DEF OrderKept, CtlShutLocal, Shut
  <2>5. CASE CtlShutRemote BY <2>5, OrderIfKept DEF OrderKept, CtlShutRemote, Shut
  <2>6. CASE CtlJoinReader BY <2>6, OrderIfKept DEF OrderKept, CtlJoinReader
  <2> QED BY <1>3, <2>1, <2>2, <2>3, <2>4, <2>5, <2>6 DEF CtlStep
<1>4. CASE CtlStart BY <1>4, OrderIfKept DEF OrderKept, CtlStart
<1>5. CASE CtlStop BY <1>5, OrderIfKept DEF OrderKept, CtlStop, Notified
<1>6. CASE PeerLeaves BY <1>6, OrderIfKept DEF OrderKept, PeerLeaves
<1>7. CASE CertificateArrives BY <1>7, OrderIfKept DEF OrderKept, CertificateArrives
<1>10. CASE PeerPauses BY <1>10, OrderIfKept DEF OrderKept, PeerPauses
<1>8. ASSUME NEW len \in 1 .. MaxLen, NEW text \in 0 .. len, RRead(len, text)
      PROVE  OrderInv'
  <2>1. rt.pc = "read" /\ chunks' = chunks + 1 /\ chunks \in Nat /\ last \in Nat
        /\ UNCHANGED <<last, m_use_buffer>>
    BY <1>8, ChunksNat DEF RRead, envVars
  <2>2. CASE m_use_buffer
    <3>1. PICK n \in 0 .. Len(m_buffer) :
            Trim(m_buffer, m_buffer_count).buf = SubSeq(m_buffer, n + 1, Len(m_buffer))
      BY TrimFits DEF DataType, BufferBounded
    <3>2. PICK e : e = [id |-> chunks + 1, text |-> text]
      OBVIOUS
    <3>3. m_buffer' = Append(SubSeq(m_buffer, n + 1, Len(m_buffer)), e)
      BY <1>8, <2>2, <3>1, <3>2 DEF RRead, Pushed
    <3>4. e \in Element /\ e.id = chunks + 1
      BY <1>8, <3>2, ProviderAssumption DEF RRead, Element, DataType
    <3>5. Ordered(m_buffer', last, chunks + 1)
      BY <2>1, <3>3, <3>4, OrderedAppend
    <3>6. data # NoData => Ordered(m_buffer', data.id, chunks + 1) /\ data.id <= chunks + 1
      <4>1. data.id \in Nat BY Ids, ProviderAssumption DEF DataType
      <4> QED BY <2>1, <3>3, <3>4, <4>1, OrderedAppend
    <3>7. UNCHANGED data /\ (wt'.pc = "send" <=> wt.pc = "send") /\ rt'.pc = "check"
      BY <1>8, <2>1, <2>2 DEF RRead, RGo, Notified
    <3>8. last <= chunks + 1
      BY <2>1
    <3> QED BY <2>1, <2>2, <3>5, <3>6, <3>7, <3>8
  <2>3. CASE ~m_use_buffer
    <3>1. m_buffer' = <<>> /\ wt.pc = "none" /\ data = NoData
      BY <1>8, <2>1, <2>3 DEF RRead, bufVars, ThreadInv
    <3>2. \/ data' = NoData /\ rt'.pc = "check"
          \/ rt'.pc = "send" /\ data' = [id |-> chunks + 1, text |-> len]
      BY <1>8, <2>3, <3>1 DEF RRead, RGo
    <3>3. [id |-> chunks + 1, text |-> len] # NoData
          /\ [id |-> chunks + 1, text |-> len].id = chunks + 1
      BY <2>1 DEF NoData
    <3>4. last <= chunks + 1 /\ last < chunks + 1 /\ chunks + 1 <= chunks + 1 /\ wt' = wt
      BY <1>8, <2>1, <2>3 DEF RRead
    <3> QED BY <2>1, <3>1, <3>2, <3>3, <3>4, OrderedEmpty, Zenon
  <2> QED BY <2>2, <2>3
<1>9. CASE UNCHANGED vars BY <1>9, OrderIfKept DEF OrderKept, vars
<1> QED BY <1>1, <1>2, <1>3, <1>4, <1>5, <1>6, <1>7, <1>8, <1>9, <1>10 DEF Next

\* What the invariant says of the chunk that is held and of those that wait, as one
\* sequence of numbers.
LEMMA OrderSequence == DataType /\ OrderInv => StreamOrder
<1> SUFFICES ASSUME DataType, OrderInv PROVE StreamOrder
  OBVIOUS
<1>1. PICK held : held = IF data = NoData THEN <<>> ELSE <<data>>
  OBVIOUS
<1>2. PICK q : q = held \o m_buffer
  OBVIOUS
<1>3. m_buffer \in Seq(Element)
  BY DEF DataType
<1>4. q \in Seq(Element) /\ Ordered(q, last, chunks)
  <2>1. CASE data = NoData
    <3>1. q = m_buffer BY <1>1, <1>2, <1>3, <2>1
    <3> QED BY <1>3, <3>1 DEF OrderInv
  <2>2. CASE data # NoData
    <3>1. data \in Element BY <2>2 DEF DataType
    <3>2. /\ q \in Seq(Element) /\ Len(q) = Len(m_buffer) + 1 /\ q[1] = data
          /\ \A i \in 1 .. Len(q) : i # 1 => i - 1 \in 1 .. Len(m_buffer) /\ q[i] = m_buffer[i - 1]
      BY <1>1, <1>2, <1>3, <2>2, <3>1
    <3>3. /\ last < data.id /\ data.id <= chunks
          /\ Ordered(m_buffer, data.id, chunks) /\ Ordered(m_buffer, last, chunks)
      BY <2>2 DEF OrderInv
    <3>4. \A i \in 1 .. Len(q) : last < q[i].id /\ q[i].id <= chunks
      BY <3>2, <3>3, Zenon DEF Ordered
    <3>5. \A i \in 1 .. Len(q) : i # 1 => q[1].id < q[i].id
      BY <3>2, <3>3, Zenon DEF Ordered
    <3>6. ASSUME NEW i \in 1 .. Len(q), NEW j \in 1 .. Len(q), i < j
          PROVE  q[i].id < q[j].id
      <4>1. CASE i = 1 BY <3>5, <3>6, <4>1
      <4>2. CASE i # 1
        <5>1. i - 1 < j - 1 /\ j # 1 BY <3>6
        <5> QED BY <3>2, <3>3, <4>2, <5>1, Zenon DEF Ordered
      <4> QED BY <4>1, <4>2
    <3> QED BY <3>2, <3>4, <3>6, Zenon DEF Ordered
  <2> QED BY <2>1, <2>2
<1>5. PICK f : f = [i \in 1 .. Len(q) |-> q[i].id]
  OBVIOUS
<1>6. last \in Nat /\ chunks \in Nat /\ last <= chunks
  BY ChunksNat DEF OrderInv
<1>7. f \in Seq(Nat) /\ Len(f) = Len(q) /\ \A i \in 1 .. Len(q) : f[i] = q[i].id
  <2>1. \A i \in 1 .. Len(q) : q[i].id \in Nat
    BY <1>4, IdsPositive
  <2>2. Len(q) \in Nat /\ f \in [1 .. Len(q) -> Nat]
    BY <1>4, <1>5, <2>1
  <2> QED BY <1>5, <2>2
<1>8. PICK ids : ids = <<last>> \o f
  OBVIOUS
<1>9. /\ ids \in Seq(Nat) /\ Len(ids) = Len(q) + 1 /\ ids[1] = last
      /\ \A i \in 1 .. Len(ids) : i # 1 => i - 1 \in 1 .. Len(q) /\ ids[i] = f[i - 1]
  BY <1>6, <1>7, <1>8
<1>10. Len(q) \in Nat
  BY <1>4
<1>11. ASSUME NEW i \in 1 .. Len(ids) - 1 PROVE ids[i] < ids[i + 1]
  <2>1. i \in 1 .. Len(q) /\ i + 1 \in 1 .. Len(ids) /\ i \in 1 .. Len(ids)
    BY <1>9, <1>10
  <2>2. ids[i + 1] = q[i].id
    <3>1. i + 1 # 1 /\ (i + 1) - 1 = i BY <2>1
    <3> QED BY <1>7, <1>9, <2>1, <3>1
  <2>3. CASE i = 1
    BY <1>4, <1>9, <2>1, <2>2, <2>3 DEF Ordered
  <2>4. CASE i # 1
    <3>1. ids[i] = q[i - 1].id /\ i - 1 \in 1 .. Len(q) /\ i - 1 < i
      <4>1. i - 1 \in 1 .. Len(q) /\ ids[i] = f[i - 1] BY <1>9, <2>1, <2>4, Zenon
      <4>2. f[i - 1] = q[i - 1].id BY <1>7, <4>1, Zenon
      <4> QED BY <4>1, <4>2
    <3> QED BY <1>4, <2>1, <2>2, <3>1, Zenon DEF Ordered
  <2> QED BY <2>3, <2>4
<1>12. ids[Len(ids)] <= chunks
  <2>1. CASE Len(q) = 0
    BY <1>6, <1>9, <2>1
  <2>2. CASE Len(q) # 0
    <3>1. Len(q) \in 1 .. Len(q) /\ ids[Len(ids)] = q[Len(q)].id
      BY <1>7, <1>9, <1>10, <2>2
    <3> QED BY <1>4, <3>1, Zenon DEF Ordered
  <2> QED BY <2>1, <2>2
<1> QED
  BY <1>1, <1>2, <1>5, <1>8, <1>11, <1>12, Zenon DEF StreamOrder

\* A chunk is written at most once and never after a later one, for any number of
\* chunks, sizes of the buffer, reconnects and restarts.
THEOREM WrittenInOrder == Spec => []StreamOrder
<1>1. Init => ThreadInv /\ OrderInv
  BY OrderedEmpty DEF Init, ThreadInv, OrderInv
<1> QED
  BY <1>1, OrderSequence, TypeInit, ControlStep, DataStep, ThreadStep, OrderStep, PTL DEF Spec

===============================================================================
