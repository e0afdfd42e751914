-------------------------- MODULE Application_proof --------------------------
(***************************************************************************)
(* The lists of hosts and clients through uploads, restarts and switches,  *)
(* for any documents, any number of workers and any ports of other         *)
(* programs.                                                               *)
(***************************************************************************)
EXTENDS Application, WellFoundedInduction, TLAPS

(* Passes over a sequence *)

\* A non-empty set of numbers has a least one.
LEMMA LeastNat ==
  ASSUME NEW T \in SUBSET Nat, T # {}
  PROVE  \E x \in T : \A y \in T : x <= y
<1> DEFINE Less == OpToRel(<, Nat)
<1>1. \E x \in T : \A y \in T : ~(<<y, x>> \in Less)
  BY NatLessThanWellFounded, WFMin, Zenon DEF Less
<1>2. \A y, z \in Nat : y < z => <<y, z>> \in Less
  BY DEF OpToRel
<1> HIDE DEF Less
<1>3. PICK x \in T : \A y \in T : ~(<<y, x>> \in Less)
  BY <1>1, Zenon
<1>4. \A y \in T : ~(y < x)
  BY <1>2, <1>3, Zenon
<1> QED
  BY <1>4

\* Induction up to a bound: a set with 0 and the successor of each of its members.
LEMMA BoundedInduction ==
  ASSUME NEW L \in Nat, NEW T, 0 \in T, \A k \in 0 .. L : k + 1 \in 0 .. L /\ k \in T => k + 1 \in T
  PROVE  \A k \in 0 .. L : k \in T
<1> SUFFICES ASSUME {k \in 0 .. L : k \notin T} # {} PROVE FALSE
  OBVIOUS
<1>1. {k \in 0 .. L : k \notin T} \in SUBSET Nat
  OBVIOUS
<1>2. PICK x \in {k \in 0 .. L : k \notin T} : \A y \in {k \in 0 .. L : k \notin T} : x <= y
  BY <1>1, LeastNat, Zenon
<1>3. x \in 1 .. L /\ x - 1 \in 0 .. L
  BY <1>2
<1>4. x - 1 \in T
  BY <1>2, <1>3
<1> QED
  BY <1>2, <1>3, <1>4

\* The first L steps of G from base, each within the set of its position.
Run(f, L, S, base, G) ==
  /\ f = [n \in 0 .. L |-> f[n]]
  /\ f[0] = base
  /\ \A n \in 1 .. L : f[n] = G[n][f[n - 1]]
  /\ \A n \in 0 .. L : f[n] \in S[n]

\* A step that stays within the set of its position can be taken L times.
LEMMA Iterates ==
  ASSUME NEW L \in Nat, NEW S, NEW base, base \in S[0], NEW G,
         \A n \in 1 .. L : \A m \in S[n - 1] : G[n][m] \in S[n]
  PROVE  \E f : Run(f, L, S, base, G)
<1> USE DEF Run
<1> DEFINE P(k) == \E f : Run(f, k, S, base, G)
           T == {k \in 0 .. L : P(k)}
<1>1. 0 \in T
  <2>1. PICK f : f = [n \in 0 .. 0 |-> base]
    OBVIOUS
  <2>2. f = [n \in 0 .. 0 |-> f[n]] /\ f[0] = base /\ (\A n \in 0 .. 0 : f[n] \in S[n])
    BY <2>1
  <2>3. \A n \in 1 .. 0 : f[n] = G[n][f[n - 1]]
    OBVIOUS
  <2> QED BY <2>2, <2>3
<1>2. ASSUME NEW k \in 0 .. L, k + 1 \in 0 .. L, k \in T
      PROVE  k + 1 \in T
  <2>1. PICK f : /\ f = [n \in 0 .. k |-> f[n]]
                 /\ f[0] = base
                 /\ \A n \in 1 .. k : f[n] = G[n][f[n - 1]]
                 /\ \A n \in 0 .. k : f[n] \in S[n]
    BY <1>2
  <2>2. PICK h : h = [n \in 0 .. k + 1 |-> IF n = k + 1 THEN G[k + 1][f[k]] ELSE f[n]]
    OBVIOUS
  <2>3. (\A n \in 0 .. k : h[n] = f[n]) /\ h[k + 1] = G[k + 1][f[k]]
    BY <2>2
  <2>4. h = [n \in 0 .. k + 1 |-> h[n]] /\ h[0] = base
    BY <2>1, <2>2, <2>3
  <2>5. \A n \in 1 .. k + 1 : h[n] = G[n][h[n - 1]]
    <3> SUFFICES ASSUME NEW n \in 1 .. k + 1 PROVE h[n] = G[n][h[n - 1]]
      OBVIOUS
    <3>1. CASE n = k + 1
      BY <2>3, <3>1
    <3>2. CASE n \in 1 .. k
      <4>1. n \in 0 .. k /\ n - 1 \in 0 .. k
        BY <3>2
      <4>2. f[n] = G[n][f[n - 1]] /\ h[n] = f[n] /\ h[n - 1] = f[n - 1]
        BY <2>1, <2>3, <3>2, <4>1, Zenon
      <4> QED BY <4>2, Zenon
    <3> QED BY <3>1, <3>2
  <2>6. \A n \in 0 .. k + 1 : h[n] \in S[n]
    <3>1. G[k + 1][f[k]] \in S[k + 1]
      <4>1. k + 1 \in 1 .. L /\ (k + 1) - 1 = k /\ f[k] \in S[k]
        BY <1>2, <2>1
      <4> QED BY <4>1
    <3> SUFFICES ASSUME NEW n \in 0 .. k + 1 PROVE h[n] \in S[n]
      OBVIOUS
    <3>2. CASE n = k + 1
      BY <2>3, <3>1, <3>2
    <3>3. CASE n \in 0 .. k
      BY <2>1, <2>3, <3>3
    <3> QED BY <3>2, <3>3
  <2>7. P(k + 1)
    BY <2>4, <2>5, <2>6
  <2> QED BY <1>2, <2>7
<1> HIDE DEF P, T, Run
<1>3. \A k \in 0 .. L : k \in T
  BY <1>1, <1>2, BoundedInduction
<1> QED
  BY <1>3 DEF T, P

\* A function that stays within the set of its position ends in the last set.
LEMMA Stays ==
  ASSUME NEW L \in Nat, NEW S, NEW f, f[0] \in S[0],
         \A n \in 1 .. L : f[n - 1] \in S[n - 1] => f[n] \in S[n]
  PROVE  \A n \in 0 .. L : f[n] \in S[n]
<1> DEFINE T == {k \in 0 .. L : f[k] \in S[k]}
<1>1. 0 \in T
  OBVIOUS
<1>2. ASSUME NEW k \in 0 .. L, k + 1 \in 0 .. L, k \in T
      PROVE  k + 1 \in T
  <2>1. k + 1 \in 1 .. L /\ (k + 1) - 1 = k
    BY <1>2
  <2> QED BY <1>2, <2>1
<1> HIDE DEF T
<1>3. \A k \in 0 .. L : k \in T
  BY <1>1, <1>2, BoundedInduction
<1> QED
  BY <1>3 DEF T

\* One step of Kept.
KeptStep(q, s, n, positions) == IF n \in positions THEN Append(q, s[n]) ELSE q

\* The elements of a sequence at some positions, when each step of the pass stays
\* within the set of its position.
LEMMA KeptPass ==
  ASSUME NEW s, Len(s) \in Nat, NEW positions, NEW S, <<>> \in S[0],
         \A n \in 1 .. Len(s) : \A m \in S[n - 1] : KeptStep(m, s, n, positions) \in S[n]
  PROVE  \E f : /\ f[0] = <<>> /\ f[Len(s)] = Kept(s, positions)
                /\ \A n \in 1 .. Len(s) : f[n] = KeptStep(f[n - 1], s, n, positions)
                /\ \A n \in 0 .. Len(s) : f[n] \in S[n]
<1>1. PICK L \in Nat : L = Len(s)
  OBVIOUS
<1>2. PICK G : G = [n \in 1 .. L |-> [m \in S[n - 1] |-> KeptStep(m, s, n, positions)]]
  OBVIOUS
<1>3. \A n \in 1 .. L : \A m \in S[n - 1] : G[n][m] = KeptStep(m, s, n, positions)
  BY <1>2
<1>4. \A n \in 1 .. L : \A m \in S[n - 1] : G[n][m] \in S[n]
  BY <1>1, <1>3
<1>5. PICK f : Run(f, L, S, <<>>, G)
  BY <1>4, Iterates, Zenon
<1>6. f = [n \in 0 .. L |-> IF n = 0 THEN <<>> ELSE KeptStep(f[n - 1], s, n, positions)]
  <2>1. f = [n \in 0 .. L |-> f[n]] /\ f[0] = <<>>
    BY <1>5, Zenon DEF Run
  <2>2. ASSUME NEW n \in 1 .. L PROVE f[n] = KeptStep(f[n - 1], s, n, positions)
    <3>1. n - 1 \in 0 .. L
      OBVIOUS
    <3> QED BY <1>3, <1>5, <3>1 DEF Run
  <2>3. \A n \in 0 .. L : f[n] = IF n = 0 THEN <<>> ELSE KeptStep(f[n - 1], s, n, positions)
    <3>1. \A n \in 0 .. L : n = 0 \/ n \in 1 .. L
      OBVIOUS
    <3> QED BY <2>1, <2>2, <3>1, Zenon
  <2> QED BY <2>1, <2>3, Zenon
<1>7. PICK g : /\ g = [n \in 0 .. L |-> IF n = 0 THEN <<>> ELSE KeptStep(g[n - 1], s, n, positions)]
               /\ Kept(s, positions) = g[L]
  BY <1>1, <1>6, Zenon DEF Kept, KeptStep
<1>8. g[0] = <<>> /\ \A n \in 1 .. L : g[n] = KeptStep(g[n - 1], s, n, positions)
  BY <1>7
<1>9. \A n \in 0 .. L : g[n] \in S[n]
  <2>1. \A n \in 1 .. L : g[n - 1] \in S[n - 1] => g[n] \in S[n]
    BY <1>1, <1>8
  <2> QED BY <1>8, <2>1, Stays
<1> QED
  BY <1>1, <1>7, <1>8, <1>9

\* The same for the pass over the clients of a document,
LEMMA ClientsPass ==
  ASSUME NEW l, NEW items, Len(items) \in Nat, NEW S, l \in S[0],
         \A n \in 1 .. Len(items) : \A m \in S[n - 1] : PopulateClient(m, items[n]) \in S[n]
  PROVE  \E f : /\ f[0] = l /\ f[Len(items)] = PopulateClients(l, items)
                /\ \A n \in 1 .. Len(items) : f[n] = PopulateClient(f[n - 1], items[n])
                /\ \A n \in 0 .. Len(items) : f[n] \in S[n]
<1>1. PICK L \in Nat : L = Len(items)
  OBVIOUS
<1>2. PICK G : G = [n \in 1 .. L |-> [m \in S[n - 1] |-> PopulateClient(m, items[n])]]
  OBVIOUS
<1>3. \A n \in 1 .. L : \A m \in S[n - 1] : G[n][m] = PopulateClient(m, items[n])
  BY <1>2
<1>4. \A n \in 1 .. L : \A m \in S[n - 1] : G[n][m] \in S[n]
  BY <1>1, <1>3
<1>5. PICK f : Run(f, L, S, l, G)
  BY <1>4, Iterates, Zenon
<1>6. f = [n \in 0 .. L |-> IF n = 0 THEN l ELSE PopulateClient(f[n - 1], items[n])]
  <2>1. f = [n \in 0 .. L |-> f[n]] /\ f[0] = l
    BY <1>5, Zenon DEF Run
  <2>2. ASSUME NEW n \in 1 .. L PROVE f[n] = PopulateClient(f[n - 1], items[n])
    <3>1. n - 1 \in 0 .. L
      OBVIOUS
    <3> QED BY <1>3, <1>5, <3>1 DEF Run
  <2>3. \A n \in 0 .. L : f[n] = IF n = 0 THEN l ELSE PopulateClient(f[n - 1], items[n])
    <3>1. \A n \in 0 .. L : n = 0 \/ n \in 1 .. L
      OBVIOUS
    <3> QED BY <2>1, <2>2, <3>1, Zenon
  <2> QED BY <2>1, <2>3, Zenon
<1>7. PICK g : /\ g = [n \in 0 .. L |-> IF n = 0 THEN l ELSE PopulateClient(g[n - 1], items[n])]
               /\ PopulateClients(l, items) = g[L]
  BY <1>1, <1>6, Zenon DEF PopulateClients
<1>8. g[0] = l /\ \A n \in 1 .. L : g[n] = PopulateClient(g[n - 1], items[n])
  BY <1>7
<1>9. \A n \in 0 .. L : g[n] \in S[n]
  <2>1. \A n \in 1 .. L : g[n - 1] \in S[n - 1] => g[n] \in S[n]
    BY <1>1, <1>8
  <2> QED BY <1>8, <2>1, Stays
<1> QED
  BY <1>1, <1>7, <1>8, <1>9

\* The lists after each item.
HostsRun(f, l, items, keyOk, S) ==
  /\ f[0] = l /\ f[Len(items)] = PopulateHosts(l, items, keyOk)
  /\ \A n \in 1 .. Len(items) : f[n] = PopulateHost(f[n - 1], items[n], keyOk)
  /\ \A n \in 0 .. Len(items) : f[n] \in S[n]

\* ... over its hosts,
LEMMA HostsPass ==
  ASSUME NEW l, NEW items, Len(items) \in Nat, NEW keyOk, NEW S, l \in S[0],
         \A n \in 1 .. Len(items) : \A m \in S[n - 1] : PopulateHost(m, items[n], keyOk) \in S[n]
  PROVE  \E f : HostsRun(f, l, items, keyOk, S)
<1>1. PICK L \in Nat : L = Len(items)
  OBVIOUS
<1>2. PICK G : G = [n \in 1 .. L |-> [m \in S[n - 1] |-> PopulateHost(m, items[n], keyOk)]]
  OBVIOUS
<1>3. \A n \in 1 .. L : \A m \in S[n - 1] : G[n][m] = PopulateHost(m, items[n], keyOk)
  BY <1>2
<1>4. \A n \in 1 .. L : \A m \in S[n - 1] : G[n][m] \in S[n]
  BY <1>1, <1>3
<1>5. PICK f : Run(f, L, S, l, G)
  BY <1>4, Iterates, Zenon
<1>6. f = [n \in 0 .. L |-> IF n = 0 THEN l ELSE PopulateHost(f[n - 1], items[n], keyOk)]
  <2>1. f = [n \in 0 .. L |-> f[n]] /\ f[0] = l
    BY <1>5, Zenon DEF Run
  <2>2. ASSUME NEW n \in 1 .. L PROVE f[n] = PopulateHost(f[n - 1], items[n], keyOk)
    <3>1. n - 1 \in 0 .. L
      OBVIOUS
    <3> QED BY <1>3, <1>5, <3>1 DEF Run
  <2>3. \A n \in 0 .. L : f[n] = IF n = 0 THEN l ELSE PopulateHost(f[n - 1], items[n], keyOk)
    <3>1. \A n \in 0 .. L : n = 0 \/ n \in 1 .. L
      OBVIOUS
    <3> QED BY <2>1, <2>2, <3>1, Zenon
  <2> QED BY <2>1, <2>3, Zenon
<1>7. PICK g : /\ g = [n \in 0 .. L |-> IF n = 0 THEN l ELSE PopulateHost(g[n - 1], items[n], keyOk)]
               /\ PopulateHosts(l, items, keyOk) = g[L]
  BY <1>1, <1>6, Zenon DEF PopulateHosts
<1>8. g[0] = l /\ \A n \in 1 .. L : g[n] = PopulateHost(g[n - 1], items[n], keyOk)
  BY <1>7
<1>9. \A n \in 0 .. L : g[n] \in S[n]
  <2>1. \A n \in 1 .. L : g[n - 1] \in S[n - 1] => g[n] \in S[n]
    BY <1>1, <1>8
  <2> QED BY <1>8, <2>1, Stays
<1> QED
  BY <1>1, <1>7, <1>8, <1>9, Zenon DEF HostsRun

\* The lists after each host.
UnpopulateRun(f, l, hosts, doc, S) ==
  /\ f[0] = l /\ f[Len(hosts)] = UnpopulateHosts(l, hosts, doc)
  /\ \A n \in 1 .. Len(hosts) : f[n] = UnpopulateHost(f[n - 1], hosts[n], doc)
  /\ \A n \in 0 .. Len(hosts) : f[n] \in S[n]

\* ... over the hosts that run when a document is taken over,
LEMMA UnpopulatePass ==
  ASSUME NEW l, NEW hosts, Len(hosts) \in Nat, NEW doc, NEW S, l \in S[0],
         \A n \in 1 .. Len(hosts) : \A m \in S[n - 1] : UnpopulateHost(m, hosts[n], doc) \in S[n]
  PROVE  \E f : UnpopulateRun(f, l, hosts, doc, S)
<1>1. PICK L \in Nat : L = Len(hosts)
  OBVIOUS
<1>2. PICK G : G = [n \in 1 .. L |-> [m \in S[n - 1] |-> UnpopulateHost(m, hosts[n], doc)]]
  OBVIOUS
<1>3. \A n \in 1 .. L : \A m \in S[n - 1] : G[n][m] = UnpopulateHost(m, hosts[n], doc)
  BY <1>2
<1>4. \A n \in 1 .. L : \A m \in S[n - 1] : G[n][m] \in S[n]
  BY <1>1, <1>3
<1>5. PICK f : Run(f, L, S, l, G)
  BY <1>4, Iterates, Zenon
<1>6. f = [n \in 0 .. L |-> IF n = 0 THEN l ELSE UnpopulateHost(f[n - 1], hosts[n], doc)]
  <2>1. f = [n \in 0 .. L |-> f[n]] /\ f[0] = l
    BY <1>5, Zenon DEF Run
  <2>2. ASSUME NEW n \in 1 .. L PROVE f[n] = UnpopulateHost(f[n - 1], hosts[n], doc)
    <3>1. n - 1 \in 0 .. L
      OBVIOUS
    <3> QED BY <1>3, <1>5, <3>1 DEF Run
  <2>3. \A n \in 0 .. L : f[n] = IF n = 0 THEN l ELSE UnpopulateHost(f[n - 1], hosts[n], doc)
    <3>1. \A n \in 0 .. L : n = 0 \/ n \in 1 .. L
      OBVIOUS
    <3> QED BY <2>1, <2>2, <3>1, Zenon
  <2> QED BY <2>1, <2>3, Zenon
<1>7. PICK g : /\ g = [n \in 0 .. L |-> IF n = 0 THEN l ELSE UnpopulateHost(g[n - 1], hosts[n], doc)]
               /\ UnpopulateHosts(l, hosts, doc) = g[L]
  BY <1>1, <1>6, Zenon DEF UnpopulateHosts
<1>8. g[0] = l /\ \A n \in 1 .. L : g[n] = UnpopulateHost(g[n - 1], hosts[n], doc)
  BY <1>7
<1>9. \A n \in 0 .. L : g[n] \in S[n]
  <2>1. \A n \in 1 .. L : g[n - 1] \in S[n - 1] => g[n] \in S[n]
    BY <1>1, <1>8
  <2> QED BY <1>8, <2>1, Stays
<1> QED
  BY <1>1, <1>7, <1>8, <1>9, Zenon DEF UnpopulateRun

\* The lists after each start().
StartRun(f, l, S) ==
  /\ f[0] = l /\ f[Len(l.hosts)] = StartHosts(l)
  /\ \A n \in 1 .. Len(l.hosts) : f[n] = StartNext(f[n - 1], n)
  /\ \A n \in 0 .. Len(l.hosts) : f[n] \in S[n]

\* ... and over the hosts that lock() starts.
LEMMA StartPass ==
  ASSUME NEW l, Len(l.hosts) \in Nat, NEW S, l \in S[0],
         \A n \in 1 .. Len(l.hosts) : \A m \in S[n - 1] : StartNext(m, n) \in S[n]
  PROVE  \E f : StartRun(f, l, S)
<1>1. PICK L \in Nat : L = Len(l.hosts)
  OBVIOUS
<1>2. PICK G : G = [n \in 1 .. L |-> [m \in S[n - 1] |-> StartNext(m, n)]]
  OBVIOUS
<1>3. \A n \in 1 .. L : \A m \in S[n - 1] : G[n][m] = StartNext(m, n)
  BY <1>2
<1>4. \A n \in 1 .. L : \A m \in S[n - 1] : G[n][m] \in S[n]
  BY <1>1, <1>3
<1>5. PICK f : Run(f, L, S, l, G)
  BY <1>4, Iterates, Zenon
<1>6. f = [n \in 0 .. L |-> IF n = 0 THEN l ELSE StartNext(f[n - 1], n)]
  <2>1. f = [n \in 0 .. L |-> f[n]] /\ f[0] = l
    BY <1>5, Zenon DEF Run
  <2>2. ASSUME NEW n \in 1 .. L PROVE f[n] = StartNext(f[n - 1], n)
    <3>1. n - 1 \in 0 .. L
      OBVIOUS
    <3> QED BY <1>3, <1>5, <3>1 DEF Run
  <2>3. \A n \in 0 .. L : f[n] = IF n = 0 THEN l ELSE StartNext(f[n - 1], n)
    <3>1. \A n \in 0 .. L : n = 0 \/ n \in 1 .. L
      OBVIOUS
    <3> QED BY <2>1, <2>2, <3>1, Zenon
  <2> QED BY <2>1, <2>3, Zenon
<1>7. PICK g : /\ g = [n \in 0 .. L |-> IF n = 0 THEN l ELSE StartNext(g[n - 1], n)]
               /\ StartHosts(l) = g[L]
  BY <1>1, <1>6, Zenon DEF StartHosts
<1>8. g[0] = l /\ \A n \in 1 .. L : g[n] = StartNext(g[n - 1], n)
  BY <1>7
<1>9. \A n \in 0 .. L : g[n] \in S[n]
  <2>1. \A n \in 1 .. L : g[n - 1] \in S[n - 1] => g[n] \in S[n]
    BY <1>1, <1>8
  <2> QED BY <1>8, <2>1, Stays
<1> QED
  BY <1>1, <1>7, <1>8, <1>9, Zenon DEF StartRun

------------------------------------------------------------------------------
(* Types *)

\* Appending keeps a sequence one, leaves what it had and adds one element.
LEMMA AppendIs ==
  ASSUME NEW T, NEW s \in Seq(T), NEW x \in T
  PROVE  /\ Append(s, x) \in Seq(T)
         /\ Len(s) \in Nat /\ DOMAIN s = 1 .. Len(s)
         /\ DOMAIN Append(s, x) = 1 .. Len(s) + 1
         /\ Append(s, x)[Len(s) + 1] = x
         /\ \A k \in DOMAIN s : Append(s, x)[k] = s[k] /\ s[k] \in T
OBVIOUS

\* A function on 1 .. Len(s) is a sequence.
LEMMA SameLength ==
  ASSUME NEW T, NEW U, NEW s \in Seq(U), NEW f, DOMAIN f = DOMAIN s, f = [k \in DOMAIN s |-> f[k]],
         \A k \in DOMAIN s : f[k] \in T
  PROVE  f \in Seq(T) /\ Len(f) = Len(s)
<1>1. Len(s) \in Nat /\ DOMAIN s = 1 .. Len(s)
  OBVIOUS
<1>2. f \in [1 .. Len(s) -> T]
  BY <1>1
<1> QED
  BY <1>1, <1>2

\* Sequences with the same elements in the same order are the same.
LEMMA SameElements ==
  ASSUME NEW T, NEW q \in Seq(T), NEW s \in Seq(T), Len(q) = Len(s), \A k \in 1 .. Len(s) : q[k] = s[k]
  PROVE  q = s
<1>1. q = [k \in 1 .. Len(q) |-> q[k]] /\ s = [k \in 1 .. Len(s) |-> s[k]]
  OBVIOUS
<1>2. [k \in 1 .. Len(s) |-> q[k]] = [k \in 1 .. Len(s) |-> s[k]]
  OBVIOUS
<1> QED
  BY <1>1, <1>2

\* q has the elements of s at the positions: none when there are none, all when
\* there are all.
IsKept(q, s, positions) ==
  /\ \A k \in DOMAIN q : \E j \in DOMAIN s : j \in positions /\ q[k] = s[j]
  /\ \A j \in DOMAIN s : j \in positions => \E k \in DOMAIN q : q[k] = s[j]
  /\ (\A j \in DOMAIN s : j \notin positions) => q = <<>>
  /\ (\A j \in DOMAIN s : j \in positions) => q = s

\* What Kept leaves of a sequence.
LEMMA KeptIs ==
  ASSUME NEW T, NEW s \in Seq(T), NEW positions
  PROVE  Kept(s, positions) \in Seq(T) /\ IsKept(Kept(s, positions), s, positions)
<1>1. PICK L \in Nat : L = Len(s) /\ DOMAIN s = 1 .. L
  OBVIOUS
<1> DEFINE Good(q, n) ==
             /\ \A k \in DOMAIN q : \E j \in 1 .. n : j \in positions /\ q[k] = s[j]
             /\ \A j \in 1 .. n : j \in positions => \E k \in DOMAIN q : q[k] = s[j]
             /\ (\A j \in 1 .. n : j \notin positions) => q = <<>>
             /\ (\A j \in 1 .. n : j \in positions) => Len(q) = n /\ \A k \in 1 .. n : q[k] = s[k]
<1>2. PICK S : S = [n \in 0 .. L |-> {q \in Seq(T) : Good(q, n)}]
  OBVIOUS
<1>3. \A n \in 0 .. L : S[n] = {q \in Seq(T) : Good(q, n)}
  BY <1>2, Zenon
<1>4. <<>> \in S[0]
  <2>1. 0 \in 0 .. L /\ <<>> \in Seq(T) /\ Good(<<>>, 0)
    OBVIOUS
  <2> HIDE DEF Good
  <2> QED BY <1>3, <2>1, Zenon
<1>5. ASSUME NEW n \in 1 .. L, NEW q \in S[n - 1]
      PROVE  KeptStep(q, s, n, positions) \in S[n]
  <2>1. q \in Seq(T) /\ Good(q, n - 1) /\ s[n] \in T /\ n \in 0 .. L
    <3>1. n - 1 \in 0 .. L
      OBVIOUS
    <3> HIDE DEF Good
    <3> QED BY <1>1, <1>3, <1>5, <3>1
  <2>2. CASE n \in positions
    <3>1. PICK r : r = Append(q, s[n])
      OBVIOUS
    <3>2. /\ r \in Seq(T) /\ DOMAIN q = 1 .. Len(q) /\ DOMAIN r = 1 .. Len(q) + 1 /\ Len(q) \in Nat
          /\ r[Len(q) + 1] = s[n] /\ \A k \in DOMAIN q : r[k] = q[k]
      <4>1. q \in Seq(T) /\ s[n] \in T
        BY <2>1, Zenon
      <4> HIDE DEF Good
      <4> QED BY <3>1, <4>1, AppendIs
    <3>3. \A k \in DOMAIN r : \E j \in 1 .. n : j \in positions /\ r[k] = s[j]
      <4> SUFFICES ASSUME NEW k \in DOMAIN r PROVE \E j \in 1 .. n : j \in positions /\ r[k] = s[j]
        OBVIOUS
      <4>1. CASE k = Len(q) + 1
        BY <2>2, <3>2, <4>1
      <4>2. CASE k # Len(q) + 1
        <5>1. k \in DOMAIN q
          BY <3>2, <4>2
        <5>2. PICK j \in 1 .. n - 1 : j \in positions /\ q[k] = s[j]
          BY <2>1, <5>1, Zenon
        <5> QED BY <3>2, <5>1, <5>2
      <4> QED BY <4>1, <4>2
    <3>4. \A j \in 1 .. n : j \in positions => \E k \in DOMAIN r : r[k] = s[j]
      <4> SUFFICES ASSUME NEW j \in 1 .. n, j \in positions PROVE \E k \in DOMAIN r : r[k] = s[j]
        OBVIOUS
      <4>1. CASE j = n
        BY <3>2, <4>1
      <4>2. CASE j # n
        <5>1. PICK k \in DOMAIN q : q[k] = s[j]
          BY <2>1, <4>2
        <5> QED BY <3>2, <5>1
      <4> QED BY <4>1, <4>2
    <3>5. (\A j \in 1 .. n : j \in positions) => Len(r) = n /\ \A k \in 1 .. n : r[k] = s[k]
      <4> SUFFICES ASSUME \A j \in 1 .. n : j \in positions
                   PROVE  Len(r) = n /\ \A k \in 1 .. n : r[k] = s[k]
        OBVIOUS
      <4>1. Len(q) = n - 1 /\ \A k \in 1 .. n - 1 : q[k] = s[k]
        <5>1. \A j \in 1 .. n - 1 : j \in 1 .. n
          OBVIOUS
        <5>2. \A j \in 1 .. n - 1 : j \in positions
          BY <5>1, Zenon
        <5> QED BY <2>1, <5>2, Zenon
      <4> QED BY <3>2, <4>1
    <3>6. Good(r, n)
      BY <2>2, <3>3, <3>4, <3>5
    <3> HIDE DEF Good
    <3> QED BY <1>3, <2>1, <2>2, <3>1, <3>2, <3>6 DEF KeptStep
  <2>3. CASE n \notin positions
    <3>1. Good(q, n)
      BY <2>1, <2>3
    <3> HIDE DEF Good
    <3> QED BY <1>3, <2>1, <2>3, <3>1 DEF KeptStep
  <2> QED BY <2>2, <2>3
<1>6. \E f : f[Len(s)] = Kept(s, positions) /\ \A n \in 0 .. Len(s) : f[n] \in S[n]
  <2> HIDE DEF Good
  <2>1. Len(s) \in Nat /\ \A n \in 1 .. Len(s) : \A m \in S[n - 1] : KeptStep(m, s, n, positions) \in S[n]
    BY <1>1, <1>5
  <2> QED BY <1>4, <2>1, KeptPass
<1>7. Kept(s, positions) \in Seq(T) /\ Good(Kept(s, positions), L)
  <2> HIDE DEF Good
  <2>1. L \in 0 .. L
    OBVIOUS
  <2> QED BY <1>1, <1>3, <1>6, <2>1
<1>8. PICK q \in Seq(T) : q = Kept(s, positions) /\ Good(q, L)
  BY <1>7, Zenon
<1>9. (\A j \in DOMAIN s : j \in positions) => q = s
  <2> SUFFICES ASSUME \A j \in DOMAIN s : j \in positions PROVE q = s
    OBVIOUS
  <2>1. Len(q) = Len(s) /\ \A k \in 1 .. Len(s) : q[k] = s[k]
    BY <1>1, <1>8
  <2> QED BY <2>1, SameElements
<1> QED
  BY <1>1, <1>8, <1>9, Zenon DEF IsKept

\* The number of values of an unsigned short, a name that the provers do not expand.
Width == 65536

\* A mylib::port_type is what is left of an int modulo 65536.
LEMMA PortRange == Width \in Nat \ {0} /\ Port = 0 .. Width - 1
<1>1. Width \in Nat \ {0}
  BY DEF Width
<1>2. PICK m : m = Width - 1
  OBVIOUS
<1>3. m = 65535
  BY <1>2 DEF Width
<1>4. Port = 0 .. m
  BY <1>3, SMT DEF Port
<1> QED
  BY <1>1, <1>2, <1>4, Zenon

\* Ports are numbers, 0 or positive; those the program has of its own are ports.
LEMMA PortFacts ==
  /\ 0 \in Port /\ ActivatePort \in Port /\ WebPort \in Port
  /\ \A q \in Port : q \in Int /\ (q > 0 <=> q # 0)
<1>1. PICK m \in Nat : m = Width - 1
  BY PortRange
<1>2. m = 65535
  BY <1>1 DEF Width
<1>3. 0 \in 0 .. m
  OBVIOUS
<1>4. ActivatePort \in 0 .. m /\ WebPort \in 0 .. m
  BY <1>2 DEF ActivatePort, WebPort
<1>5. \A q \in 0 .. m : q \in Int /\ (q > 0 <=> q # 0)
  OBVIOUS
<1>6. Port = 0 .. m
  BY <1>1, PortRange, Zenon
<1> QED
  BY <1>3, <1>4, <1>5, <1>6, Zenon

\* What check_int, check_port, check_string and check_bool return.
LEMMA ChecksTyped ==
  ASSUME NEW obj, NEW key, Parsed(obj, key)
  PROVE  /\ \A d \in Int : check_port(obj, key, d) \in Port
         /\ \A d \in Text : check_string(obj, key, d) \in Text
         /\ \A d \in BOOLEAN : check_bool(obj, key, d) \in BOOLEAN
         /\ Items(obj, key) \in Seq(Range(Items(obj, key)))
<1>1. PICK v : v = find(obj, key)
  OBVIOUS
<1>2. /\ v.t = "number" => v.v \in Int
      /\ v.t = "string" => v.v \in Text /\ v.n \in Int
      /\ v.t = "boolean" => v.v \in BOOLEAN
      /\ v.t = "array" => v.v \in Seq(Range(v.v))
  BY <1>1, Zenon DEF Parsed
<1>3. ASSUME NEW d \in Int PROVE check_port(obj, key, d) \in Port
  <2>1. PICK i \in Int : i = check_int(obj, key, d)
    BY <1>1, <1>2 DEF check_int
  <2>2. i % Width \in 0 .. Width - 1
    BY PortRange
  <2>3. check_port(obj, key, d) = i % Width
    BY <2>1 DEF check_port, Width
  <2> QED BY <2>2, <2>3, PortRange, Zenon
<1>4. ASSUME NEW d \in Text PROVE check_string(obj, key, d) \in Text
  BY <1>1, <1>2 DEF check_string
<1>5. ASSUME NEW d \in BOOLEAN PROVE check_bool(obj, key, d) \in BOOLEAN
  <2>1. CASE v.t = "number"
    <3>1. check_bool(obj, key, d) = (v.v > 0)
      BY <1>1, <2>1 DEF check_bool
    <3> QED BY <3>1
  <2>2. CASE v.t = "string"
    <3>1. check_bool(obj, key, d) = (v.v \in {"true", "on"})
      BY <1>1, <2>2 DEF check_bool
    <3> QED BY <3>1
  <2>3. CASE v.t = "boolean"
    <3>1. check_bool(obj, key, d) = v.v
      BY <1>1, <2>3 DEF check_bool
    <3> QED BY <1>2, <2>3, <3>1, Zenon
  <2>4. CASE v.t \notin {"number", "string", "boolean"}
    <3>1. check_bool(obj, key, d) = d
      BY <1>1, <2>4 DEF check_bool
    <3> QED BY <3>1, Zenon
  <2> QED BY <2>1, <2>2, <2>3, <2>4
<1>6. Items(obj, key) \in Seq(Range(Items(obj, key)))
  <2>1. CASE v.t = "array"
    BY <1>1, <1>2, <2>1, Zenon DEF Items
  <2>2. CASE v.t # "array"
    <3>1. Items(obj, key) = <<>>
      BY <1>1, <2>2, Zenon DEF Items
    <3>2. <<>> \in Seq(Range(<<>>))
      OBVIOUS
    <3> QED BY <3>1, <3>2, Zenon
  <2> QED BY <2>1, <2>2
<1> QED
  BY <1>3, <1>4, <1>5, <1>6, Zenon

\* An endpoint that is read has a 16-bit port and strings.
LEMMA EndpointTyped ==
  ASSUME NEW item, EndpointParsed(item)
  PROVE  /\ \A d \in Int : LocalEndpoint(item, d) \in LocalType
         /\ RemoteEndpoint(item) \in RemoteType
<1>1. Parsed(item, "port") /\ \A key \in {"name", "hostname", "username", "password"} : Parsed(item, key)
  BY DEF EndpointParsed
<1>2. \A d \in Int : check_port(item, "port", d) \in Port
  BY <1>1, ChecksTyped, Zenon
<1>3. \A key \in {"name", "hostname", "username", "password"} : check_string(item, key, "") \in Text
  <2>1. "" \in Text
    BY DEF Text
  <2> QED BY <1>1, <2>1, ChecksTyped, Zenon
<1>4. /\ check_string(item, "hostname", "") \in Text /\ check_string(item, "name", "") \in Text
      /\ check_string(item, "username", "") \in Text /\ check_string(item, "password", "") \in Text
  BY <1>3
<1>5. ASSUME NEW d \in Int PROVE LocalEndpoint(item, d) \in LocalType
  BY <1>2, <1>4 DEF LocalEndpoint, LocalType
<1>6. check_port(item, "port", 0) \in Port
  BY <1>2
<1>7. RemoteEndpoint(item) \in RemoteType
  BY <1>4, <1>6 DEF RemoteEndpoint, RemoteType
<1> QED
  BY <1>5, <1>7

\* The endpoints of an array that load: locals with a port, remotes with a name.
LEMMA EndpointsTyped ==
  ASSUME NEW item, ItemParsed(item)
  PROVE  /\ Locals(item) \in Seq(LocalType) /\ \A k \in DOMAIN Locals(item) : Locals(item)[k].port > 0
         /\ Remotes(item) \in Seq(RemoteType) /\ \A k \in DOMAIN Remotes(item) : Remotes(item)[k].name # ""
<1>1. ArrayParsed(item, "locals") /\ ArrayParsed(item, "remotes")
  BY Zenon DEF ItemParsed
<1>2. Locals(item) \in Seq(LocalType) /\ \A k \in DOMAIN Locals(item) : Locals(item)[k].port > 0
  <2>1. PICK all : all = Items(item, "locals")
    OBVIOUS
  <2>2. all \in Seq(Range(all)) /\ \A k \in DOMAIN all : EndpointParsed(all[k])
    BY <1>1, <2>1, ChecksTyped DEF ArrayParsed
  <2>3. PICK s : s = [k \in DOMAIN all |-> LocalEndpoint(all[k], 0)]
    OBVIOUS
  <2>4. \A k \in DOMAIN all : s[k] = LocalEndpoint(all[k], 0) /\ s[k] \in LocalType
    BY <2>2, <2>3, EndpointTyped
  <2>5. DOMAIN s = DOMAIN all /\ s = [k \in DOMAIN all |-> s[k]]
    BY <2>3
  <2>6. s \in Seq(LocalType)
    BY <2>2, <2>4, <2>5, SameLength
  <2>7. PICK ok : ok = {k \in DOMAIN all : LocalLoads(all[k], 0)}
    OBVIOUS
  <2>8. Locals(item) = Kept(s, ok)
    BY <2>1, <2>3, <2>7 DEF Locals
  <2>9. Kept(s, ok) \in Seq(LocalType) /\ IsKept(Kept(s, ok), s, ok)
    BY <2>6, KeptIs, Zenon
  <2>10. \A j \in ok : s[j].port > 0
    BY <2>4, <2>7 DEF LocalLoads
  <2> QED BY <2>8, <2>9, <2>10 DEF IsKept
<1>3. Remotes(item) \in Seq(RemoteType) /\ \A k \in DOMAIN Remotes(item) : Remotes(item)[k].name # ""
  <2>1. PICK all : all = Items(item, "remotes")
    OBVIOUS
  <2>2. all \in Seq(Range(all)) /\ \A k \in DOMAIN all : EndpointParsed(all[k])
    BY <1>1, <2>1, ChecksTyped DEF ArrayParsed
  <2>3. PICK s : s = [k \in DOMAIN all |-> RemoteEndpoint(all[k])]
    OBVIOUS
  <2>4. \A k \in DOMAIN all : s[k] = RemoteEndpoint(all[k]) /\ s[k] \in RemoteType
    BY <2>2, <2>3, EndpointTyped
  <2>5. DOMAIN s = DOMAIN all /\ s = [k \in DOMAIN all |-> s[k]]
    BY <2>3
  <2>6. s \in Seq(RemoteType)
    BY <2>2, <2>4, <2>5, SameLength
  <2>7. PICK ok : ok = {k \in DOMAIN all : RemoteLoads(all[k])}
    OBVIOUS
  <2>8. Remotes(item) = Kept(s, ok)
    BY <2>1, <2>3, <2>7 DEF Remotes
  <2>9. Kept(s, ok) \in Seq(RemoteType) /\ IsKept(Kept(s, ok), s, ok)
    BY <2>6, KeptIs, Zenon
  <2>10. \A j \in ok : s[j].name # ""
    BY <2>4, <2>7 DEF RemoteLoads
  <2> QED BY <2>8, <2>9, <2>10 DEF IsKept
<1> QED
  BY <1>2, <1>3

------------------------------------------------------------------------------
(* Hosts *)

\* A host holds its port exactly while it runs; its remotes have names, its
\* locals ports.
SoundHosts == {h \in HostType : /\ h.acceptor = "bound" <=> h.running
                                /\ \A k \in DOMAIN h.remotes : h.remotes[k].name # ""
                                /\ \A k \in DOMAIN h.locals : h.locals[k].port > 0}

\* Two hosts that differ in nothing but their remotes.
Alike(h, g) ==
  /\ h.id = g.id /\ h.port = g.port /\ h.type = g.type /\ h.locals = g.locals
  /\ h.active = g.active /\ h.acceptor = g.acceptor /\ h.running = g.running

\* A host as its constructor leaves it.
Fresh(h) == h.active /\ ~h.running /\ h.acceptor = "closed"

\* The host that populate_json makes of an item.
LEMMA NewHostIs ==
  ASSUME NEW item, ItemParsed(item), NEW id \in Nat
  PROVE  /\ NewHost(id, item) \in SoundHosts /\ Fresh(NewHost(id, item))
         /\ NewHost(id, item).id = id /\ NewHost(id, item).port = check_port(item, "port", 0)
         /\ NewHost(id, item).remotes = Remotes(item) /\ NewHost(id, item).locals = Locals(item)
<1>1. /\ Locals(item) \in Seq(LocalType) /\ \A k \in DOMAIN Locals(item) : Locals(item)[k].port > 0
      /\ Remotes(item) \in Seq(RemoteType) /\ \A k \in DOMAIN Remotes(item) : Remotes(item)[k].name # ""
  BY EndpointsTyped, Zenon
<1>2. check_port(item, "port", 0) \in Port
  <2>1. Parsed(item, "port")
    BY DEF ItemParsed
  <2> QED BY <2>1, ChecksTyped
<1>3. PICK type : type = IF check_string(item, "type", "") \in PluginTypes
                         THEN check_string(item, "type", "") ELSE ""
  OBVIOUS
<1>4. type \in PluginTypes \cup {""}
  BY <1>3
<1>5. PICK h : h = RemoteProxyHost(id, check_port(item, "port", 0), Remotes(item), Locals(item), type)
  OBVIOUS
<1>6. NewHost(id, item) = h
  BY <1>3, <1>5, Zenon DEF NewHost
<1>7. /\ h.id = id /\ h.port = check_port(item, "port", 0) /\ h.remotes = Remotes(item)
      /\ h.locals = Locals(item) /\ h.active /\ ~h.running /\ h.acceptor = "closed"
  BY <1>5 DEF RemoteProxyHost
<1>8. h \in HostType
  BY <1>1, <1>2, <1>4, <1>5 DEF RemoteProxyHost, HostType
<1>9. h \in SoundHosts
  BY <1>1, <1>7, <1>8 DEF SoundHosts
<1> QED
  BY <1>6, <1>7, <1>9, Zenon DEF Fresh

\* The remotes that others lack are remotes.
LEMMA MissingIs ==
  ASSUME NEW T, NEW from \in Seq(T), NEW remotes
  PROVE  /\ Missing(from, remotes) \in Seq(T)
         /\ IsKept(Missing(from, remotes), from, {k \in DOMAIN from : ~Has(remotes, from[k])})
BY KeptIs, Zenon DEF Missing

\* c has the elements of a and those of b.
IsJoined(c, a, b) ==
  /\ \A k \in DOMAIN c : (\E j \in DOMAIN a : c[k] = a[j]) \/ (\E j \in DOMAIN b : c[k] = b[j])
  /\ \A j \in DOMAIN a : \E k \in DOMAIN c : c[k] = a[j]
  /\ \A j \in DOMAIN b : \E k \in DOMAIN c : c[k] = b[j]

\* What is in a list of remotes that others were added to.
LEMMA AppendedIs ==
  ASSUME NEW T, NEW a \in Seq(T), NEW b \in Seq(T)
  PROVE  a \o b \in Seq(T) /\ IsJoined(a \o b, a, b)
<1>1. PICK c : c = a \o b
  OBVIOUS
<1>2. /\ c \in Seq(T) /\ Len(a) \in Nat /\ Len(b) \in Nat
      /\ DOMAIN a = 1 .. Len(a) /\ DOMAIN b = 1 .. Len(b) /\ DOMAIN c = 1 .. Len(a) + Len(b)
      /\ \A k \in 1 .. Len(a) : c[k] = a[k]
      /\ \A k \in 1 .. Len(b) : c[Len(a) + k] = b[k]
  BY <1>1
<1>3. ASSUME NEW k \in DOMAIN c, ~ \E j \in DOMAIN a : c[k] = a[j]
      PROVE  \E j \in DOMAIN b : c[k] = b[j]
  <2>1. k - Len(a) \in 1 .. Len(b) /\ k = Len(a) + (k - Len(a))
    BY <1>2, <1>3
  <2> QED BY <1>2, <2>1
<1>4. \A j \in DOMAIN a : \E k \in DOMAIN c : c[k] = a[j]
  BY <1>2
<1>5. \A j \in DOMAIN b : \E k \in DOMAIN c : c[k] = b[j]
  <2>1. \A j \in 1 .. Len(b) : Len(a) + j \in 1 .. Len(a) + Len(b)
    BY <1>2
  <2> QED BY <1>2, <2>1
<1> QED
  BY <1>1, <1>2, <1>3, <1>4, <1>5, Zenon DEF IsJoined

\* A host that is kept stays as it is but for its remotes.
LEMMA UpdatedIs ==
  ASSUME NEW item, ItemParsed(item), NEW h \in SoundHosts
  PROVE  /\ Updated(h, item) \in SoundHosts /\ Alike(h, Updated(h, item))
         /\ Updated(h, item).remotes = Missing(h.remotes \o Missing(Remotes(item), h.remotes),
                                               Missing(h.remotes, Remotes(item)))
<1>1. Remotes(item) \in Seq(RemoteType) /\ \A k \in DOMAIN Remotes(item) : Remotes(item)[k].name # ""
  BY EndpointsTyped, Zenon
<1>2. h \in HostType /\ h.remotes \in Seq(RemoteType) /\ \A k \in DOMAIN h.remotes : h.remotes[k].name # ""
  BY DEF SoundHosts, HostType
<1>3. PICK a : a = Missing(Remotes(item), h.remotes)
  OBVIOUS
<1>4. a \in Seq(RemoteType) /\ \A k \in DOMAIN a : a[k].name # ""
  <2>1. /\ a \in Seq(RemoteType)
        /\ IsKept(a, Remotes(item), {k \in DOMAIN Remotes(item) : ~Has(h.remotes, Remotes(item)[k])})
    BY <1>1, <1>3, MissingIs, Zenon
  <2> QED BY <1>1, <2>1, ZenonT(40) DEF IsKept
<1>5. PICK b : b = h.remotes \o a
  OBVIOUS
<1>6. b \in Seq(RemoteType) /\ \A k \in DOMAIN b : b[k].name # ""
  <2>1. b \in Seq(RemoteType) /\ IsJoined(b, h.remotes, a)
    BY <1>2, <1>4, <1>5, AppendedIs, Zenon
  <2>2. ASSUME NEW k \in DOMAIN b PROVE b[k].name # ""
    <3>1. (\E j \in DOMAIN h.remotes : b[k] = h.remotes[j]) \/ (\E j \in DOMAIN a : b[k] = a[j])
      BY <2>1, Zenon DEF IsJoined
    <3>2. CASE \E j \in DOMAIN h.remotes : b[k] = h.remotes[j]
      BY <1>2, <3>2, Zenon
    <3>3. CASE \E j \in DOMAIN a : b[k] = a[j]
      BY <1>4, <3>3, Zenon
    <3> QED BY <3>1, <3>2, <3>3, Zenon
  <2> QED BY <2>1, <2>2, Zenon
<1>7. PICK c : c = Missing(b, Missing(h.remotes, Remotes(item)))
  OBVIOUS
<1>8. c \in Seq(RemoteType) /\ \A k \in DOMAIN c : c[k].name # ""
  <2>1. /\ c \in Seq(RemoteType)
        /\ IsKept(c, b, {k \in DOMAIN b : ~Has(Missing(h.remotes, Remotes(item)), b[k])})
    BY <1>6, <1>7, MissingIs, Zenon
  <2> QED BY <1>6, <2>1, ZenonT(40) DEF IsKept
<1>9. PICK g : g = [h EXCEPT !.remotes = b]
  OBVIOUS
<1>10. g.remotes = b /\ g = add_remotes(h, a)
  BY <1>2, <1>5, <1>9 DEF add_remotes, HostType
<1>11. PICK u : u = [g EXCEPT !.remotes = c]
  OBVIOUS
<1>12. u = Updated(h, item)
  BY <1>3, <1>7, <1>10, <1>11 DEF Updated, remove_remotes
<1>13. /\ u \in HostType /\ u.remotes = c /\ u.id = h.id /\ u.port = h.port /\ u.type = h.type
       /\ u.locals = h.locals /\ u.active = h.active /\ u.acceptor = h.acceptor /\ u.running = h.running
  BY <1>2, <1>8, <1>9, <1>11 DEF HostType
<1>14. u \in SoundHosts
  BY <1>8, <1>13 DEF SoundHosts
<1> QED
  BY <1>3, <1>5, <1>7, <1>12, <1>13, <1>14 DEF Alike

------------------------------------------------------------------------------
(* Lists *)

\* l with other hosts.
With(l, hosts, hostids, thrown) ==
  [hosts |-> hosts, clients |-> l.clients, hostids |-> hostids, clientids |-> l.clientids,
   thrown |-> thrown]

\* The fields of l, and what an EXCEPT makes of them.
LEMMA ListsFields ==
  ASSUME NEW l \in ListsType
  PROVE  /\ l.hosts \in Seq(HostType) /\ l.clients \in Seq(ClientType)
         /\ l.hostids \in Nat /\ l.clientids \in Nat /\ l.thrown \in BOOLEAN
         /\ Len(l.hosts) \in Nat /\ DOMAIN l.hosts = 1 .. Len(l.hosts)
         /\ Len(l.clients) \in Nat /\ DOMAIN l.clients = 1 .. Len(l.clients)
         /\ l = With(l, l.hosts, l.hostids, l.thrown)
         /\ \A t : [l EXCEPT !.thrown = t] = With(l, l.hosts, l.hostids, t)
         /\ \A hs : [l EXCEPT !.hosts = hs] = With(l, hs, l.hostids, l.thrown)
<1>1. /\ l.hosts \in Seq(HostType) /\ l.clients \in Seq(ClientType)
      /\ l.hostids \in Nat /\ l.clientids \in Nat /\ l.thrown \in BOOLEAN
  BY DEF ListsType
<1>2. /\ Len(l.hosts) \in Nat /\ DOMAIN l.hosts = 1 .. Len(l.hosts)
      /\ Len(l.clients) \in Nat /\ DOMAIN l.clients = 1 .. Len(l.clients)
  BY <1>1
<1>3. l = With(l, l.hosts, l.hostids, l.thrown)
  BY DEF ListsType, With
<1>4. ASSUME NEW t PROVE [l EXCEPT !.thrown = t] = With(l, l.hosts, l.hostids, t)
  BY DEF ListsType, With
<1>5. ASSUME NEW hs PROVE [l EXCEPT !.hosts = hs] = With(l, hs, l.hostids, l.thrown)
  BY DEF ListsType, With
<1> QED
  BY <1>1, <1>2, <1>3, <1>4, <1>5, Zenon

\* The fields of lists with other hosts.
LEMMA WithFields ==
  ASSUME NEW l \in ListsType, NEW hosts \in Seq(HostType), NEW hostids \in Nat, NEW thrown \in BOOLEAN
  PROVE  /\ With(l, hosts, hostids, thrown) \in ListsType
         /\ With(l, hosts, hostids, thrown).hosts = hosts
         /\ With(l, hosts, hostids, thrown).clients = l.clients
         /\ With(l, hosts, hostids, thrown).hostids = hostids
         /\ With(l, hosts, hostids, thrown).clientids = l.clientids
         /\ With(l, hosts, hostids, thrown).thrown = thrown
BY DEF ListsType, With

\* A client that runs is active.
SoundClients == {c \in ClientType : c.running => c.active}

\* Hosts as above, their ids given out by the counter and to one host each, no
\* port taken by two of them; clients as above.
HostsSound(hosts, hostids) ==
  /\ \A k \in DOMAIN hosts : hosts[k] \in SoundHosts /\ hosts[k].id \in 1 .. hostids
  /\ \A k, j \in DOMAIN hosts : hosts[k].id = hosts[j].id => k = j
  /\ \A k, j \in DOMAIN hosts : hosts[k].port = hosts[j].port /\ hosts[k].port # 0 => k = j

ClientsSound(clients) == \A k \in DOMAIN clients : clients[k] \in SoundClients

SoundLists == {l \in ListsType : HostsSound(l.hosts, l.hostids) /\ ClientsSound(l.clients)}

\* Every host is one of old, with other remotes perhaps, or was made since.
HostsDescend(old, ids, hosts) ==
  \A j \in DOMAIN hosts : \/ hosts[j].id > ids /\ Fresh(hosts[j])
                          \/ \E k \in DOMAIN old : Alike(old[k], hosts[j])

Descends(l, m) == m.hostids >= l.hostids /\ HostsDescend(l.hosts, l.hostids, m.hosts)

\* The lists that descend from l.
Descendants(l) == {m \in SoundLists : Descends(l, m)}

\* Descent is reflexive and transitive.
LEMMA DescentIsOrder ==
  ASSUME NEW l \in SoundLists
  PROVE  /\ l \in Descendants(l)
         /\ \A m \in Descendants(l) : \A n \in Descendants(m) : n \in Descendants(l)
<1>1. l \in ListsType /\ l.hostids \in Nat
  BY ListsFields, Zenon DEF SoundLists
<1>2. l \in Descendants(l)
  BY <1>1 DEF Descendants, Descends, HostsDescend, Alike
<1>3. ASSUME NEW m \in Descendants(l), NEW n \in Descendants(m)
      PROVE  n \in Descendants(l)
  <2>1. m \in SoundLists /\ n \in SoundLists /\ Descends(l, m) /\ Descends(m, n)
    BY <1>3, Zenon DEF Descendants
  <2>2. m.hostids \in Nat /\ n.hostids \in Nat
    BY <2>1, ListsFields, Zenon DEF SoundLists
  <2>3. n.hostids >= l.hostids
    BY <1>1, <2>1, <2>2 DEF Descends
  <2>4. ASSUME NEW j \in DOMAIN n.hosts
        PROVE  \/ n.hosts[j].id > l.hostids /\ Fresh(n.hosts[j])
               \/ \E k \in DOMAIN l.hosts : Alike(l.hosts[k], n.hosts[j])
    <3>0. n.hosts[j].id \in Nat
      <4>1. n.hosts[j].id \in 1 .. n.hostids
        BY <2>1, Zenon DEF SoundLists, HostsSound
      <4> QED BY <2>2, <4>1
    <3>1. CASE n.hosts[j].id > m.hostids /\ Fresh(n.hosts[j])
      <4>1. m.hostids >= l.hostids
        BY <2>1, Zenon DEF Descends
      <4> QED BY <1>1, <2>2, <3>0, <3>1, <4>1
    <3>2. CASE \E k \in DOMAIN m.hosts : Alike(m.hosts[k], n.hosts[j])
      <4>1. PICK k \in DOMAIN m.hosts : Alike(m.hosts[k], n.hosts[j])
        BY <3>2
      <4>2. \/ m.hosts[k].id > l.hostids /\ Fresh(m.hosts[k])
            \/ \E i \in DOMAIN l.hosts : Alike(l.hosts[i], m.hosts[k])
        BY <2>1, Zenon DEF Descends, HostsDescend
      <4>3. Fresh(m.hosts[k]) => Fresh(n.hosts[j]) /\ m.hosts[k].id = n.hosts[j].id
        BY <4>1, Zenon DEF Alike, Fresh
      <4>4. \A i \in DOMAIN l.hosts : Alike(l.hosts[i], m.hosts[k]) => Alike(l.hosts[i], n.hosts[j])
        BY <4>1, Zenon DEF Alike
      <4> QED BY <4>2, <4>3, <4>4, Zenon
    <3> QED BY <2>1, <3>1, <3>2, Zenon DEF Descends, HostsDescend
  <2> QED BY <2>1, <2>3, <2>4, Zenon DEF Descendants, Descends, HostsDescend
<1> QED
  BY <1>2, <1>3

------------------------------------------------------------------------------
(* Populating *)

\* The hosts that is_same finds for an item, and whether the item throws there.
Olds(l, item) == {k \in DOMAIN l.hosts : is_same(l.hosts[k], item)}
Bad(l, item) == \E k \in Olds(l, item) : is_same_throws(l.hosts[k], item) \/ Changed(l.hosts[k], item)
UpdatedHosts(l, item) ==
  [k \in DOMAIN l.hosts |-> IF k \in Olds(l, item) THEN Updated(l.hosts[k], item) ELSE l.hosts[k]]

\* What one item of the document does to the hosts.
LEMMA PopulateHostIs ==
  ASSUME NEW l \in ListsType, NEW item, ItemParsed(item), NEW keyOk \in BOOLEAN
  PROVE  /\ l.thrown => PopulateHost(l, item, keyOk) = l
         /\ ~l.thrown /\ Bad(l, item) => PopulateHost(l, item, keyOk) = With(l, l.hosts, l.hostids, TRUE)
         /\ ~l.thrown /\ ~Bad(l, item) /\ Olds(l, item) # {} =>
              PopulateHost(l, item, keyOk) = With(l, UpdatedHosts(l, item), l.hostids, FALSE)
         /\ ~l.thrown /\ Olds(l, item) = {} /\ (Remotes(item) = <<>> \/ Locals(item) = <<>>) =>
              PopulateHost(l, item, keyOk) = l
         /\ ~l.thrown /\ Olds(l, item) = {} /\ Remotes(item) # <<>> /\ Locals(item) # <<>> /\ ~keyOk =>
              PopulateHost(l, item, keyOk) = With(l, l.hosts, l.hostids, TRUE)
         /\ ~l.thrown /\ Olds(l, item) = {} /\ Remotes(item) # <<>> /\ Locals(item) # <<>> /\ keyOk =>
              PopulateHost(l, item, keyOk) =
                With(l, Append(l.hosts, NewHost(l.hostids + 1, item)), l.hostids + 1, FALSE)
<1>1. /\ l.hostids + 1 \in Nat /\ l.thrown \in BOOLEAN
      /\ NewHost(l.hostids + 1, item).remotes = Remotes(item)
      /\ NewHost(l.hostids + 1, item).locals = Locals(item)
  <2>1. l.hostids \in Nat /\ l.thrown \in BOOLEAN
    BY ListsFields, Zenon
  <2>2. l.hostids + 1 \in Nat
    BY <2>1
  <2> QED BY <2>1, <2>2, NewHostIs, Zenon
<1>2. PICK old : old = Olds(l, item)
  OBVIOUS
<1>3. PICK bad \in BOOLEAN : bad = Bad(l, item)
  BY DEF Bad
<1>4. PICK new : new = NewHost(l.hostids + 1, item)
  OBVIOUS
<1>5. PICK a : a = [l EXCEPT !.hosts = [k \in DOMAIN @ |-> IF k \in old THEN Updated(@[k], item) ELSE @[k]]]
  OBVIOUS
<1>6. PICK b : b = IF new.remotes = <<>> \/ new.locals = <<>> THEN l
                   ELSE IF ~keyOk THEN [l EXCEPT !.thrown = TRUE]
                   ELSE [l EXCEPT !.hosts = Append(@, new), !.hostids = @ + 1]
  OBVIOUS
<1>7. PopulateHost(l, item, keyOk) =
        CASE l.thrown -> l
          [] ~l.thrown /\ bad -> [l EXCEPT !.thrown = TRUE]
          [] ~l.thrown /\ ~bad /\ old # {} -> a
          [] OTHER -> b
  BY <1>2, <1>3, <1>4, <1>5, <1>6, Zenon DEF PopulateHost, Olds, Bad
<1>8. a = With(l, UpdatedHosts(l, item), l.hostids, l.thrown)
  <2>1. PICK hs : hs = UpdatedHosts(l, item)
    OBVIOUS
  <2>2. a = [l EXCEPT !.hosts = hs]
    BY <1>2, <1>5, <2>1, Zenon DEF UpdatedHosts
  <2> QED BY <2>1, <2>2, ListsFields, Zenon
<1>9. [l EXCEPT !.thrown = TRUE] = With(l, l.hosts, l.hostids, TRUE)
  BY ListsFields, Zenon
<1>10. [l EXCEPT !.hosts = Append(@, new), !.hostids = @ + 1] =
         With(l, Append(l.hosts, new), l.hostids + 1, l.thrown)
  <2>1. PICK hs, i : hs = Append(l.hosts, new) /\ i = l.hostids + 1
    OBVIOUS
  <2>2. [l EXCEPT !.hosts = Append(@, new), !.hostids = @ + 1] = [l EXCEPT !.hosts = hs, !.hostids = i]
    BY <2>1, ListsFields DEF ListsType
  <2>3. [l EXCEPT !.hosts = hs, !.hostids = i] = With(l, hs, i, l.thrown)
    <3>1. [l EXCEPT !.hosts = hs, !.hostids = i] = [[l EXCEPT !.hosts = hs] EXCEPT !.hostids = i]
      BY Zenon
    <3>2. PICK r : r = With(l, hs, l.hostids, l.thrown)
      OBVIOUS
    <3>3. [l EXCEPT !.hosts = hs] = r
      BY <3>2, ListsFields, Zenon
    <3>4. [r EXCEPT !.hostids = i] = With(l, hs, i, l.thrown)
      BY <3>2 DEF With
    <3> QED BY <3>1, <3>3, <3>4, Zenon
  <2> QED BY <2>1, <2>2, <2>3, Zenon
<1>11. old = {} => ~bad
  BY <1>2, <1>3 DEF Bad
<1>12. CASE l.thrown
  <2>1. PopulateHost(l, item, keyOk) = l
    BY <1>7, <1>12
  <2> QED BY <1>12, <2>1
<1>13. CASE ~l.thrown
  <2>0. l.thrown = FALSE
    BY <1>1, <1>13
  <2>1. bad => PopulateHost(l, item, keyOk) = With(l, l.hosts, l.hostids, TRUE)
    BY <1>7, <1>9, <1>13
  <2>2. ~bad /\ old # {} => PopulateHost(l, item, keyOk) = With(l, UpdatedHosts(l, item), l.hostids, FALSE)
    BY <1>7, <1>8, <1>13, <2>0
  <2>3. old = {} => PopulateHost(l, item, keyOk) = b
    BY <1>7, <1>11, <1>13
  <2>4. new.remotes = Remotes(item) /\ new.locals = Locals(item)
    BY <1>1, <1>4, Zenon
  <2>5. Remotes(item) = <<>> \/ Locals(item) = <<>> => b = l
    BY <1>6, <2>4, Zenon
  <2>6. Remotes(item) # <<>> /\ Locals(item) # <<>> /\ ~keyOk => b = With(l, l.hosts, l.hostids, TRUE)
    BY <1>6, <1>9, <2>4, Zenon
  <2>7. Remotes(item) # <<>> /\ Locals(item) # <<>> /\ keyOk =>
          b = With(l, Append(l.hosts, new), l.hostids + 1, FALSE)
    BY <1>6, <1>10, <2>0, <2>4, Zenon
  <2> QED BY <1>2, <1>3, <1>4, <1>13, <2>1, <2>2, <2>3, <2>5, <2>6, <2>7, Zenon
<1> QED
  BY <1>1, <1>12, <1>13

\* The hosts that is_same finds keep all but their remotes.
LEMMA UpdatedHostsSound ==
  ASSUME NEW l \in SoundLists, NEW item, ItemParsed(item)
  PROVE  /\ UpdatedHosts(l, item) \in Seq(HostType)
         /\ HostsSound(UpdatedHosts(l, item), l.hostids)
         /\ HostsDescend(l.hosts, l.hostids, UpdatedHosts(l, item))
<1>1. PICK u : u = UpdatedHosts(l, item)
  OBVIOUS
<1>2. l.hosts \in Seq(HostType) /\ HostsSound(l.hosts, l.hostids)
  BY ListsFields, Zenon DEF SoundLists
<1>3. DOMAIN u = DOMAIN l.hosts /\ u = [k \in DOMAIN l.hosts |-> u[k]]
  BY <1>1 DEF UpdatedHosts
<1>4. ASSUME NEW k \in DOMAIN u PROVE u[k] \in SoundHosts /\ Alike(l.hosts[k], u[k])
  <2>1. l.hosts[k] \in SoundHosts
    BY <1>2, <1>3, Zenon DEF HostsSound
  <2>2. Alike(l.hosts[k], l.hosts[k])
    BY Zenon DEF Alike
  <2>3. u[k] = Updated(l.hosts[k], item) \/ u[k] = l.hosts[k]
    BY <1>1, <1>3 DEF UpdatedHosts
  <2>4. Updated(l.hosts[k], item) \in SoundHosts /\ Alike(l.hosts[k], Updated(l.hosts[k], item))
    BY <2>1, UpdatedIs, Zenon
  <2> QED BY <2>1, <2>2, <2>3, <2>4, Zenon
<1>5. \A k \in DOMAIN l.hosts : u[k] \in HostType
  BY <1>3, <1>4 DEF SoundHosts
<1>6. u \in Seq(HostType)
  BY <1>2, <1>3, <1>5, SameLength
<1>7. HostsSound(u, l.hostids)
  <2>1. \A k \in DOMAIN u : u[k].id = l.hosts[k].id /\ u[k].port = l.hosts[k].port
    BY <1>4, Zenon DEF Alike
  <2>2. \A k \in DOMAIN u : u[k] \in SoundHosts /\ u[k].id \in 1 .. l.hostids
    BY <1>2, <1>3, <1>4, <2>1, Zenon DEF HostsSound
  <2>3. \A k, j \in DOMAIN u : u[k].id = u[j].id => k = j
    BY <1>2, <1>3, <2>1, Zenon DEF HostsSound
  <2>4. \A k, j \in DOMAIN u : u[k].port = u[j].port /\ u[k].port # 0 => k = j
    BY <1>2, <1>3, <2>1, Zenon DEF HostsSound
  <2> QED BY <2>2, <2>3, <2>4, Zenon DEF HostsSound
<1>8. HostsDescend(l.hosts, l.hostids, u)
  BY <1>3, <1>4, Zenon DEF HostsDescend
<1> QED
  BY <1>1, <1>6, <1>7, <1>8, Zenon

\* A new host gets an id no host had before, and a port that no host has.
LEMMA NewHostSound ==
  ASSUME NEW l \in SoundLists, NEW item, ItemParsed(item), Olds(l, item) = {}
  PROVE  /\ Append(l.hosts, NewHost(l.hostids + 1, item)) \in Seq(HostType)
         /\ HostsSound(Append(l.hosts, NewHost(l.hostids + 1, item)), l.hostids + 1)
         /\ HostsDescend(l.hosts, l.hostids, Append(l.hosts, NewHost(l.hostids + 1, item)))
<1>1. /\ l.hosts \in Seq(HostType) /\ HostsSound(l.hosts, l.hostids)
      /\ Len(l.hosts) \in Nat /\ DOMAIN l.hosts = 1 .. Len(l.hosts)
  BY ListsFields, Zenon DEF SoundLists
<1>2. l.hostids \in Nat
  BY ListsFields, Zenon DEF SoundLists
<1>3. PICK new : new = NewHost(l.hostids + 1, item)
  OBVIOUS
<1>4. new \in SoundHosts /\ Fresh(new) /\ new.id = l.hostids + 1 /\ new.port = check_port(item, "port", 0)
  BY <1>2, <1>3, NewHostIs
<1>5. new \in HostType
  BY <1>4, Zenon DEF SoundHosts
<1>6. PICK u : u = Append(l.hosts, new)
  OBVIOUS
<1>7. /\ u \in Seq(HostType) /\ DOMAIN u = 1 .. Len(l.hosts) + 1 /\ u[Len(l.hosts) + 1] = new
      /\ \A k \in DOMAIN l.hosts : u[k] = l.hosts[k]
  BY <1>1, <1>5, <1>6, AppendIs
<1>8. \A k \in DOMAIN u : k \in DOMAIN l.hosts \/ k = Len(l.hosts) + 1
  BY <1>1, <1>7
<1>9. \A k \in DOMAIN l.hosts : u[k] = l.hosts[k] /\ u[k] \in SoundHosts /\ u[k].id \in 1 .. l.hostids
  BY <1>1, <1>7, Zenon DEF HostsSound
<1>10. \A k \in DOMAIN l.hosts : u[k].port = new.port => new.port = 0
  <2> SUFFICES ASSUME NEW k \in DOMAIN l.hosts, u[k].port = new.port, new.port # 0 PROVE FALSE
    OBVIOUS
  <2>1. new.port \in Port
    BY <1>5 DEF HostType
  <2>2. new.port > 0 /\ l.hosts[k].port = new.port
    <3>1. \A q \in Port : q # 0 => q > 0
      BY PortFacts, Zenon
    <3> QED BY <1>9, <2>1, <3>1, Zenon
  <2>3. is_same(l.hosts[k], item)
    BY <1>4, <2>2, Zenon DEF is_same
  <2> QED BY <2>3 DEF Olds
<1>11. \A k \in DOMAIN l.hosts : u[k].id # new.id
  BY <1>2, <1>4, <1>9
<1>12. HostsSound(u, l.hostids + 1)
  <2>1. \A k \in DOMAIN u : u[k] \in SoundHosts /\ u[k].id \in 1 .. l.hostids + 1
    BY <1>2, <1>4, <1>7, <1>8, <1>9
  <2>2. \A k, j \in DOMAIN u : u[k].id = u[j].id => k = j
    <3>1. \A k, j \in DOMAIN l.hosts : u[k].id = u[j].id => k = j
      BY <1>1, <1>9, Zenon DEF HostsSound
    <3> QED BY <1>7, <1>8, <1>11, <3>1, Zenon
  <2>3. \A k, j \in DOMAIN u : u[k].port = u[j].port /\ u[k].port # 0 => k = j
    <3>1. \A k, j \in DOMAIN l.hosts : u[k].port = u[j].port /\ u[k].port # 0 => k = j
      BY <1>1, <1>9, Zenon DEF HostsSound
    <3> QED BY <1>7, <1>8, <1>10, <3>1, Zenon
  <2> QED BY <2>1, <2>2, <2>3, Zenon DEF HostsSound
<1>13. HostsDescend(l.hosts, l.hostids, u)
  <2>1. new.id > l.hostids
    BY <1>2, <1>4
  <2>2. \A k \in DOMAIN l.hosts : Alike(l.hosts[k], u[k])
    BY <1>9, Zenon DEF Alike
  <2> QED BY <1>4, <1>7, <1>8, <2>1, <2>2, Zenon DEF HostsDescend
<1> QED
  BY <1>3, <1>6, <1>7, <1>12, <1>13, Zenon

\* One item of the document leaves the lists sound, and lets nothing but new
\* hosts and new remotes happen to the hosts.
LEMMA PopulateHostSound ==
  ASSUME NEW l \in SoundLists, NEW item, ItemParsed(item), NEW keyOk \in BOOLEAN
  PROVE  PopulateHost(l, item, keyOk) \in Descendants(l) /\ PopulateHost(l, item, keyOk).clients = l.clients
<1>1. /\ l \in ListsType /\ l.hosts \in Seq(HostType) /\ l.hostids \in Nat /\ l.hostids + 1 \in Nat
      /\ HostsSound(l.hosts, l.hostids) /\ ClientsSound(l.clients)
  <2>1. /\ l \in ListsType /\ l.hosts \in Seq(HostType) /\ l.hostids \in Nat
        /\ HostsSound(l.hosts, l.hostids) /\ ClientsSound(l.clients)
    BY ListsFields, Zenon DEF SoundLists
  <2> QED BY <2>1
<1>2. ASSUME NEW hs \in Seq(HostType), NEW i \in Nat, NEW t \in BOOLEAN, i >= l.hostids,
             HostsSound(hs, i), HostsDescend(l.hosts, l.hostids, hs)
      PROVE  With(l, hs, i, t) \in Descendants(l) /\ With(l, hs, i, t).clients = l.clients
  <2>1. PICK m : m = With(l, hs, i, t)
    OBVIOUS
  <2>2. m \in ListsType /\ m.hosts = hs /\ m.hostids = i /\ m.clients = l.clients
    <3>1. l \in ListsType
      BY <1>1, Zenon
    <3> QED BY <2>1, <3>1, WithFields
  <2>3. m \in SoundLists
    BY <1>1, <1>2, <2>2, Zenon DEF SoundLists
  <2> QED BY <1>2, <2>1, <2>2, <2>3, Zenon DEF Descendants, Descends
<1>3. l \in Descendants(l)
  BY DescentIsOrder
<1>4. HostsDescend(l.hosts, l.hostids, l.hosts)
  BY <1>3, Zenon DEF Descendants, Descends
<1>5. With(l, l.hosts, l.hostids, TRUE) \in Descendants(l) /\ With(l, l.hosts, l.hostids, TRUE).clients = l.clients
  <2>1. l.hostids >= l.hostids
    BY <1>1
  <2> QED BY <1>1, <1>2, <1>4, <2>1
<1>6. /\ With(l, UpdatedHosts(l, item), l.hostids, FALSE) \in Descendants(l)
      /\ With(l, UpdatedHosts(l, item), l.hostids, FALSE).clients = l.clients
  <2>1. l.hostids >= l.hostids
    BY <1>1
  <2> QED BY <1>1, <1>2, <2>1, UpdatedHostsSound
<1>7. ASSUME Olds(l, item) = {}
      PROVE  /\ With(l, Append(l.hosts, NewHost(l.hostids + 1, item)), l.hostids + 1, FALSE) \in Descendants(l)
             /\ With(l, Append(l.hosts, NewHost(l.hostids + 1, item)), l.hostids + 1, FALSE).clients = l.clients
  <2>1. l.hostids + 1 >= l.hostids
    BY <1>1
  <2>2. PICK hs : hs = Append(l.hosts, NewHost(l.hostids + 1, item))
    OBVIOUS
  <2>3. hs \in Seq(HostType) /\ HostsSound(hs, l.hostids + 1) /\ HostsDescend(l.hosts, l.hostids, hs)
    BY <1>7, <2>2, NewHostSound, Zenon
  <2> QED BY <1>1, <1>2, <2>1, <2>2, <2>3, Zenon
<1>8. l.thrown \in BOOLEAN
  BY <1>1, ListsFields, Zenon
<1> QED
  BY <1>1, <1>3, <1>5, <1>6, <1>7, <1>8, PopulateHostIs, Zenon

\* The same for all hosts of a document.
LEMMA PopulateHostsSound ==
  ASSUME NEW l \in SoundLists, NEW items, Len(items) \in Nat, NEW keyOk \in BOOLEAN,
         \A n \in 1 .. Len(items) : ItemParsed(items[n])
  PROVE  PopulateHosts(l, items, keyOk) \in Descendants(l) /\ PopulateHosts(l, items, keyOk).clients = l.clients
<1>1. PICK D : D = {m \in Descendants(l) : m.clients = l.clients}
  OBVIOUS
<1>2. PICK S : S = [n \in 0 .. Len(items) |-> D]
  OBVIOUS
<1>3. l \in S[0] /\ \A n \in 0 .. Len(items) : S[n] = D
  <2>1. l \in D
    BY <1>1, DescentIsOrder
  <2> QED BY <1>2, <2>1
<1>4. ASSUME NEW n \in 1 .. Len(items), NEW m \in S[n - 1]
      PROVE  PopulateHost(m, items[n], keyOk) \in S[n]
  <2>1. n \in 0 .. Len(items) /\ n - 1 \in 0 .. Len(items)
    OBVIOUS
  <2>2. m \in Descendants(l) /\ m.clients = l.clients
    BY <1>1, <1>3, <1>4, <2>1
  <2>3. m \in SoundLists
    BY <2>2, Zenon DEF Descendants
  <2>4. PopulateHost(m, items[n], keyOk) \in Descendants(m) /\ PopulateHost(m, items[n], keyOk).clients = m.clients
    BY <1>4, <2>3, PopulateHostSound, Zenon
  <2>5. PopulateHost(m, items[n], keyOk) \in D
    BY <1>1, <2>2, <2>4, DescentIsOrder, Zenon
  <2> QED BY <1>3, <2>1, <2>5, Zenon
<1>5. PopulateHosts(l, items, keyOk) \in S[Len(items)]
  <2>1. Len(items) \in 0 .. Len(items)
    OBVIOUS
  <2>2. \A n \in 1 .. Len(items) : \A m \in S[n - 1] : PopulateHost(m, items[n], keyOk) \in S[n]
    BY <1>4, Zenon
  <2>3. \E f : f[Len(items)] = PopulateHosts(l, items, keyOk) /\ \A n \in 0 .. Len(items) : f[n] \in S[n]
    <3>1. l \in S[0]
      BY <1>3, Zenon
    <3>2. \E f : HostsRun(f, l, items, keyOk, S)
      BY <2>2, <3>1, HostsPass, Zenon
    <3> QED BY <3>2, Zenon DEF HostsRun
  <2> QED BY <2>1, <2>3, Zenon
<1>6. Len(items) \in 0 .. Len(items)
  OBVIOUS
<1> QED
  BY <1>1, <1>3, <1>5, <1>6

\* The client that populate_json makes of an item does not run yet.
LEMMA NewClientSound ==
  ASSUME NEW item, ItemParsed(item), NEW id \in Nat
  PROVE  NewClient(id, item) \in SoundClients
<1>1. /\ Locals(item) \in Seq(LocalType) /\ Remotes(item) \in Seq(RemoteType)
      /\ <<>> \in Seq(LocalType)
  <2>1. <<>> \in Seq(LocalType)
    OBVIOUS
  <2> QED BY <2>1, EndpointsTyped, Zenon
<1>2. Parsed(item, "port") /\ Parsed(item, "active") /\ Parsed(item, "provider")
  BY DEF ItemParsed
<1>3. check_port(item, "port", 0) \in Port
  BY <1>2, ChecksTyped
<1>4. check_bool(item, "active", TRUE) \in BOOLEAN /\ check_bool(item, "provider", FALSE) \in BOOLEAN
  BY <1>2, ChecksTyped
<1>5. PICK p \in BOOLEAN : p = check_bool(item, "provider", FALSE)
  BY <1>4
<1>6. PICK port \in Port : port = IF p THEN 0 ELSE check_port(item, "port", 0)
  <2>1. 0 \in Port
    BY PortFacts, Zenon
  <2> QED BY <1>3, <2>1
<1>7. PICK locals \in Seq(LocalType) : locals = IF p THEN Locals(item) ELSE <<>>
  BY <1>1
<1>8. PICK c : c = BaseClient(id, check_bool(item, "active", TRUE), port, Remotes(item), p, locals)
  OBVIOUS
<1>9. c = NewClient(id, item)
  BY <1>5, <1>6, <1>7, <1>8, Zenon DEF NewClient
<1>10. c \in ClientType /\ ~c.running
  BY <1>1, <1>4, <1>8 DEF BaseClient, ClientType
<1> QED
  BY <1>9, <1>10, Zenon DEF SoundClients

\* Populating the clients leaves the hosts alone.
SameHosts(l) == {m \in SoundLists : m.hosts = l.hosts /\ m.hostids = l.hostids /\ m.thrown = l.thrown}

\* One client of the document.
LEMMA PopulateClientSound ==
  ASSUME NEW l \in SoundLists, NEW item, ItemParsed(item)
  PROVE  PopulateClient(l, item) \in SameHosts(l)
<1>1. /\ l \in ListsType /\ HostsSound(l.hosts, l.hostids) /\ ClientsSound(l.clients)
      /\ l.clients \in Seq(ClientType) /\ l.clientids \in Nat
      /\ l.hosts \in Seq(HostType) /\ l.hostids \in Nat /\ l.thrown \in BOOLEAN
  BY ListsFields, Zenon DEF SoundLists
<1>2. PICK i \in Nat : i = l.clientids + 1
  BY <1>1
<1>3. PICK c : c = NewClient(i, item)
  OBVIOUS
<1>4. c \in SoundClients
  BY <1>3, NewClientSound
<1>5. c \in ClientType
  BY <1>4, Zenon DEF SoundClients
<1>6. PICK cs : cs = Append(l.clients, c)
  OBVIOUS
<1>7. cs \in Seq(ClientType) /\ ClientsSound(cs)
  <2>1. /\ cs \in Seq(ClientType) /\ DOMAIN cs = 1 .. Len(l.clients) + 1 /\ cs[Len(l.clients) + 1] = c
        /\ DOMAIN l.clients = 1 .. Len(l.clients) /\ Len(l.clients) \in Nat
        /\ \A k \in DOMAIN l.clients : cs[k] = l.clients[k]
    BY <1>1, <1>5, <1>6, AppendIs
  <2>2. \A k \in DOMAIN cs : k \in DOMAIN l.clients \/ k = Len(l.clients) + 1
    BY <2>1
  <2>3. ClientsSound(cs)
    BY <1>1, <1>4, <2>1, <2>2, Zenon DEF ClientsSound
  <2> QED BY <2>1, <2>3
<1>8. PICK m : m = [l EXCEPT !.clients = cs, !.clientids = i]
  OBVIOUS
<1>9. m \in ListsType /\ m.clients = cs /\ m.hosts = l.hosts /\ m.hostids = l.hostids /\ m.thrown = l.thrown
  BY <1>1, <1>2, <1>7, <1>8 DEF ListsType
<1>10. m \in SameHosts(l)
  BY <1>1, <1>7, <1>9, Zenon DEF SameHosts, SoundLists
<1>11. l \in SameHosts(l)
  BY Zenon DEF SameHosts
<1>12. m = [l EXCEPT !.clients = Append(@, c), !.clientids = @ + 1]
  BY <1>1, <1>2, <1>6, <1>8 DEF ListsType
<1>13. PopulateClient(l, item) = m \/ PopulateClient(l, item) = l
  BY <1>2, <1>3, <1>12, Zenon DEF PopulateClient
<1> QED
  BY <1>10, <1>11, <1>13, Zenon

\* All clients of the document.
LEMMA PopulateClientsSound ==
  ASSUME NEW l \in SoundLists, NEW items, Len(items) \in Nat,
         \A n \in 1 .. Len(items) : ItemParsed(items[n])
  PROVE  PopulateClients(l, items) \in SameHosts(l)
<1>1. PICK S : S = [n \in 0 .. Len(items) |-> SameHosts(l)]
  OBVIOUS
<1>2. l \in S[0] /\ \A n \in 0 .. Len(items) : S[n] = SameHosts(l)
  <2>1. l \in SameHosts(l)
    BY Zenon DEF SameHosts
  <2> QED BY <1>1, <2>1
<1>3. ASSUME NEW n \in 1 .. Len(items), NEW m \in S[n - 1]
      PROVE  PopulateClient(m, items[n]) \in S[n]
  <2>1. n \in 0 .. Len(items) /\ n - 1 \in 0 .. Len(items)
    OBVIOUS
  <2>2. m \in SameHosts(l)
    BY <1>2, <1>3, <2>1
  <2>3. PopulateClient(m, items[n]) \in SameHosts(m)
    BY <1>3, <2>2, PopulateClientSound, Zenon DEF SameHosts
  <2>4. PopulateClient(m, items[n]) \in SameHosts(l)
    BY <2>2, <2>3 DEF SameHosts
  <2> QED BY <1>2, <2>1, <2>4, Zenon
<1>4. \A n \in 1 .. Len(items) : \A m \in S[n - 1] : PopulateClient(m, items[n]) \in S[n]
  BY <1>3, Zenon
<1>5. \E f : f[Len(items)] = PopulateClients(l, items) /\ \A n \in 0 .. Len(items) : f[n] \in S[n]
  BY <1>2, <1>4, ClientsPass, ZenonT(40)
<1>6. Len(items) \in 0 .. Len(items)
  OBVIOUS
<1> QED
  BY <1>2, <1>5, <1>6, Zenon

\* Populating from a document.
LEMMA PopulateListsSound ==
  ASSUME NEW l \in SoundLists, NEW doc, DocumentParsed(doc), NEW keyOk \in BOOLEAN
  PROVE  PopulateLists(l, doc, keyOk) \in Descendants(l)
<1>1. ASSUME NEW key \in {"hosts", "clients"}
      PROVE  Len(Items(doc, key)) \in Nat /\ \A n \in 1 .. Len(Items(doc, key)) : ItemParsed(Items(doc, key)[n])
  <2>1. Parsed(doc, key) /\ \A k \in DOMAIN Items(doc, key) : ItemParsed(Items(doc, key)[k])
    BY Zenon DEF DocumentParsed
  <2>2. Items(doc, key) \in Seq(Range(Items(doc, key)))
    BY <2>1, ChecksTyped, Zenon
  <2>3. Len(Items(doc, key)) \in Nat /\ DOMAIN Items(doc, key) = 1 .. Len(Items(doc, key))
    BY <2>2
  <2> QED BY <2>1, <2>3, Zenon
<1>2. PICK m : m = PopulateClients(l, Items(doc, "clients"))
  OBVIOUS
<1>3. m \in SameHosts(l)
  BY <1>1, <1>2, PopulateClientsSound
<1>4. m \in SoundLists
  BY <1>3, Zenon DEF SameHosts
<1>5. PopulateHosts(m, Items(doc, "hosts"), keyOk) \in Descendants(m)
  BY <1>1, <1>4, PopulateHostsSound
<1>6. l \in Descendants(l)
  BY DescentIsOrder
<1>7. m \in Descendants(l)
  BY <1>3, <1>6 DEF SameHosts, Descendants, Descends
<1>8. PopulateLists(l, doc, keyOk) = PopulateHosts(m, Items(doc, "hosts"), keyOk)
  BY <1>2, Zenon DEF PopulateLists
<1> QED
  BY <1>5, <1>7, <1>8, DescentIsOrder, Zenon

------------------------------------------------------------------------------
(* Unpopulating *)

\* unpopulate_json keeps a host or drops it.
LEMMA UnpopulateHostIs ==
  ASSUME NEW l \in ListsType, NEW host, NEW doc
  PROVE  \/ UnpopulateHost(l, host, doc) = l
         \/ UnpopulateHost(l, host, doc) = With(l, Append(l.hosts, host), l.hostids, l.thrown)
         \/ UnpopulateHost(l, host, doc) = With(l, Append(l.hosts, host), l.hostids, TRUE)
<1>1. PICK hs : hs = Append(l.hosts, host)
  OBVIOUS
<1>2. /\ [l EXCEPT !.hosts = Append(@, host)] = With(l, hs, l.hostids, l.thrown)
      /\ [l EXCEPT !.hosts = Append(@, host), !.thrown = TRUE] = With(l, hs, l.hostids, TRUE)
  <2>1. /\ [l EXCEPT !.hosts = Append(@, host)] = [l EXCEPT !.hosts = hs]
        /\ [l EXCEPT !.hosts = Append(@, host), !.thrown = TRUE] = [l EXCEPT !.hosts = hs, !.thrown = TRUE]
    BY <1>1, Zenon
  <2>2. [l EXCEPT !.hosts = hs] = With(l, hs, l.hostids, l.thrown)
    BY ListsFields, Zenon
  <2>3. [l EXCEPT !.hosts = hs, !.thrown = TRUE] = With(l, hs, l.hostids, TRUE)
    <3>1. [l EXCEPT !.hosts = hs, !.thrown = TRUE] = [[l EXCEPT !.hosts = hs] EXCEPT !.thrown = TRUE]
      BY Zenon
    <3>2. PICK r : r = With(l, hs, l.hostids, l.thrown)
      OBVIOUS
    <3>3. ASSUME NEW t PROVE [r EXCEPT !.thrown = t] = With(l, hs, l.hostids, t)
      BY <3>2 DEF With
    <3>4. [r EXCEPT !.thrown = TRUE] = With(l, hs, l.hostids, TRUE)
      BY <3>3, Zenon
    <3> QED BY <2>2, <3>1, <3>2, <3>4, Zenon
  <2> QED BY <2>1, <2>2, <2>3, Zenon
<1>3. \/ UnpopulateHost(l, host, doc) = l
      \/ UnpopulateHost(l, host, doc) = [l EXCEPT !.hosts = Append(@, host)]
      \/ UnpopulateHost(l, host, doc) = [l EXCEPT !.hosts = Append(@, host), !.thrown = TRUE]
  BY Zenon DEF UnpopulateHost
<1> QED
  BY <1>1, <1>2, <1>3, Zenon

\* The lists that may be left of l once the first n of its hosts were looked at.
Remnants(l, n) ==
  {m \in SoundLists : /\ m.clients = <<>> /\ m.hostids = l.hostids
                      /\ \A j \in DOMAIN m.hosts : \E k \in DOMAIN l.hosts : k <= n /\ m.hosts[j] = l.hosts[k]}

\* Looking at one more host.
LEMMA UnpopulateHostSound ==
  ASSUME NEW l \in SoundLists, NEW n \in 1 .. Len(l.hosts), NEW m \in Remnants(l, n - 1), NEW doc
  PROVE  UnpopulateHost(m, l.hosts[n], doc) \in Remnants(l, n)
<1>1. /\ m \in SoundLists /\ m.clients = <<>> /\ m.hostids = l.hostids
      /\ \A j \in DOMAIN m.hosts : \E k \in DOMAIN l.hosts : k <= n - 1 /\ m.hosts[j] = l.hosts[k]
  BY Zenon DEF Remnants
<1>2. /\ m \in ListsType /\ m.hosts \in Seq(HostType) /\ m.hostids \in Nat /\ m.thrown \in BOOLEAN
      /\ HostsSound(m.hosts, m.hostids) /\ ClientsSound(m.clients)
      /\ Len(m.hosts) \in Nat /\ DOMAIN m.hosts = 1 .. Len(m.hosts)
  BY <1>1, ListsFields, Zenon DEF SoundLists
<1>3. /\ HostsSound(l.hosts, l.hostids) /\ l.hosts \in Seq(HostType)
      /\ Len(l.hosts) \in Nat /\ DOMAIN l.hosts = 1 .. Len(l.hosts)
  BY ListsFields, Zenon DEF SoundLists
<1>4. n \in DOMAIN l.hosts /\ n \in Nat /\ \A k \in DOMAIN l.hosts : k <= n - 1 => k <= n /\ k # n
  BY <1>3
<1>5. PICK h : h = l.hosts[n]
  OBVIOUS
<1>6. h \in SoundHosts /\ h \in HostType /\ h.id \in 1 .. l.hostids
  BY <1>3, <1>4, <1>5, Zenon DEF HostsSound, SoundHosts
<1>7. PICK u : u = Append(m.hosts, h)
  OBVIOUS
<1>8. /\ u \in Seq(HostType) /\ DOMAIN u = 1 .. Len(m.hosts) + 1 /\ u[Len(m.hosts) + 1] = h
      /\ \A k \in DOMAIN m.hosts : u[k] = m.hosts[k]
  BY <1>2, <1>6, <1>7, AppendIs
<1>9. \A k \in DOMAIN u : k \in DOMAIN m.hosts \/ k = Len(m.hosts) + 1
  BY <1>2, <1>8
<1>10. \A j \in DOMAIN m.hosts : u[j].id # h.id /\ (u[j].port # h.port \/ h.port = 0)
  <2> SUFFICES ASSUME NEW j \in DOMAIN m.hosts PROVE u[j].id # h.id /\ (u[j].port # h.port \/ h.port = 0)
    OBVIOUS
  <2>1. PICK k \in DOMAIN l.hosts : k <= n - 1 /\ m.hosts[j] = l.hosts[k]
    BY <1>1
  <2>2. k # n /\ u[j] = l.hosts[k]
    BY <1>4, <1>8, <2>1, Zenon
  <2> QED BY <1>3, <1>4, <1>5, <2>2, Zenon DEF HostsSound
<1>11. HostsSound(u, l.hostids)
  <2>1. \A k \in DOMAIN u : u[k] \in SoundHosts /\ u[k].id \in 1 .. l.hostids
    BY <1>1, <1>2, <1>6, <1>8, <1>9, Zenon DEF HostsSound
  <2>2. \A k, j \in DOMAIN u : u[k].id = u[j].id => k = j
    <3>1. \A k, j \in DOMAIN m.hosts : u[k].id = u[j].id => k = j
      BY <1>2, <1>8, Zenon DEF HostsSound
    <3> QED BY <1>8, <1>9, <1>10, <3>1, Zenon
  <2>3. \A k, j \in DOMAIN u : u[k].port = u[j].port /\ u[k].port # 0 => k = j
    <3>1. \A k, j \in DOMAIN m.hosts : u[k].port = u[j].port /\ u[k].port # 0 => k = j
      BY <1>2, <1>8, Zenon DEF HostsSound
    <3> QED BY <1>8, <1>9, <1>10, <3>1, Zenon
  <2> QED BY <2>1, <2>2, <2>3, Zenon DEF HostsSound
<1>12. \A j \in DOMAIN u : \E k \in DOMAIN l.hosts : k <= n /\ u[j] = l.hosts[k]
  <2>1. n <= n
    BY <1>4
  <2> QED BY <1>1, <1>4, <1>5, <1>8, <1>9, <2>1, Zenon
<1>13. ASSUME NEW t \in BOOLEAN PROVE With(m, u, m.hostids, t) \in Remnants(l, n)
  <2>1. PICK r : r = With(m, u, m.hostids, t)
    OBVIOUS
  <2>2. r \in ListsType /\ r.hosts = u /\ r.hostids = m.hostids /\ r.clients = m.clients
    <3>1. m \in ListsType /\ u \in Seq(HostType) /\ m.hostids \in Nat
      BY <1>2, <1>8, Zenon
    <3> QED BY <2>1, <3>1, WithFields
  <2>3. r \in SoundLists
    BY <1>1, <1>2, <1>11, <2>2, Zenon DEF SoundLists
  <2>4. r \in Remnants(l, n)
    BY <1>1, <1>12, <2>2, <2>3, Zenon DEF Remnants
  <2> QED BY <2>1, <2>4, Zenon
<1>14. m \in Remnants(l, n)
  BY <1>1, <1>4, Zenon DEF Remnants
<1> QED
  BY <1>2, <1>5, <1>7, <1>13, <1>14, UnpopulateHostIs, Zenon

\* unpopulate_json starts from lists without hosts and clients.
LEMMA UnpopulateBegins ==
  ASSUME NEW l \in SoundLists, NEW doc
  PROVE  \E b \in Remnants(l, 0) : b.thrown = l.thrown /\ unpopulate_json(l, doc) = UnpopulateHosts(b, l.hosts, doc)
<1>1. /\ l \in ListsType /\ Len(l.hosts) \in Nat /\ DOMAIN l.hosts = 1 .. Len(l.hosts) /\ l.clients \in Seq(ClientType)
      /\ l.hostids \in Nat /\ l.clientids \in Nat /\ l.thrown \in BOOLEAN
  BY ListsFields, Zenon DEF SoundLists
<1>2. PICK same : same = {j \in DOMAIN l.clients : \E k \in DOMAIN Items(doc, "clients") :
                            is_same_client(l.clients[j], Items(doc, "clients")[k])}
  OBVIOUS
<1>3. Kept(l.clients, same) = <<>>
  <2>1. \A j \in DOMAIN l.clients : j \notin same
    BY <1>2 DEF is_same_client
  <2>2. IsKept(Kept(l.clients, same), l.clients, same)
    BY <1>1, KeptIs, Zenon
  <2> QED BY <2>1, <2>2, Zenon DEF IsKept
<1>4. PICK b : b = [l EXCEPT !.hosts = <<>>, !.clients = <<>>]
  OBVIOUS
<1>5. unpopulate_json(l, doc) = UnpopulateHosts(b, l.hosts, doc)
  BY <1>2, <1>3, <1>4, Zenon DEF unpopulate_json
<1>6. b \in ListsType /\ b.hosts = <<>> /\ b.clients = <<>> /\ b.hostids = l.hostids /\ b.thrown = l.thrown
  <2>1. b = [[l EXCEPT !.hosts = <<>>] EXCEPT !.clients = <<>>]
    BY <1>4, Zenon
  <2>2. PICK r : r = With(l, <<>>, l.hostids, l.thrown)
    OBVIOUS
  <2>3. b = [r EXCEPT !.clients = <<>>]
    BY <1>1, <2>1, <2>2, ListsFields, Zenon
  <2>4. b = [hosts |-> <<>>, clients |-> <<>>, hostids |-> l.hostids, clientids |-> l.clientids,
             thrown |-> l.thrown]
    BY <2>2, <2>3 DEF With
  <2>5. <<>> \in Seq(HostType) /\ <<>> \in Seq(ClientType)
    OBVIOUS
  <2> QED BY <1>1, <2>4, <2>5 DEF ListsType
<1>7. b \in Remnants(l, 0)
  <2>1. DOMAIN b.hosts = {} /\ DOMAIN b.clients = {}
    BY <1>6
  <2>2. HostsSound(b.hosts, b.hostids) /\ ClientsSound(b.clients)
    BY <2>1 DEF HostsSound, ClientsSound
  <2> QED BY <1>6, <2>1, <2>2 DEF Remnants, SoundLists
<1> QED
  BY <1>5, <1>6, <1>7, Zenon

\* What is left of the lists: no clients, and hosts that were listed.
LEMMA UnpopulateSound ==
  ASSUME NEW l \in SoundLists, NEW doc
  PROVE  unpopulate_json(l, doc) \in Remnants(l, Len(l.hosts))
<1>1. Len(l.hosts) \in Nat
  BY ListsFields, Zenon DEF SoundLists
<1>2. PICK b \in Remnants(l, 0) : unpopulate_json(l, doc) = UnpopulateHosts(b, l.hosts, doc)
  BY UnpopulateBegins, Zenon
<1>3. PICK S : S = [n \in 0 .. Len(l.hosts) |-> Remnants(l, n)]
  OBVIOUS
<1>4. b \in S[0] /\ \A n \in 0 .. Len(l.hosts) : S[n] = Remnants(l, n)
  BY <1>1, <1>3
<1>5. \A n \in 1 .. Len(l.hosts) : \A m \in S[n - 1] : UnpopulateHost(m, l.hosts[n], doc) \in S[n]
  <2> SUFFICES ASSUME NEW n \in 1 .. Len(l.hosts), NEW m \in S[n - 1]
               PROVE  UnpopulateHost(m, l.hosts[n], doc) \in S[n]
    OBVIOUS
  <2>1. n - 1 \in 0 .. Len(l.hosts) /\ n \in 0 .. Len(l.hosts)
    BY <1>1
  <2> QED BY <1>4, <2>1, UnpopulateHostSound, Zenon
<1>6. PICK f : UnpopulateRun(f, b, l.hosts, doc, S)
  BY <1>1, <1>4, <1>5, UnpopulatePass, Zenon
<1>7. Len(l.hosts) \in 0 .. Len(l.hosts)
  BY <1>1
<1> QED
  BY <1>2, <1>4, <1>6, <1>7, Zenon DEF UnpopulateRun

------------------------------------------------------------------------------
(* Starting *)

\* h is g, which may have been started since.
Begun(g, h) ==
  /\ g.id = h.id /\ g.port = h.port /\ g.type = h.type /\ g.locals = h.locals
  /\ g.remotes = h.remotes /\ g.active = h.active /\ (g.running => h.running)

\* A start leaves the host running or its acceptor open; it takes no port in use.
LEMMA StartHostIs ==
  ASSUME NEW g \in SoundHosts, NEW taken
  PROVE  /\ StartHost(g, taken) \in SoundHosts /\ Begun(g, StartHost(g, taken))
         /\ StartHost(g, taken).running \/ StartHost(g, taken).acceptor = "open"
         /\ StartHost(g, taken).running => g.running \/ g.port \notin taken
<1>1. g \in HostType /\ g.running \in BOOLEAN /\ g.acceptor \in {"closed", "open", "bound"}
  BY DEF SoundHosts, HostType
<1>2. /\ g.acceptor = "bound" <=> g.running
      /\ \A k \in DOMAIN g.remotes : g.remotes[k].name # ""
      /\ \A k \in DOMAIN g.locals : g.locals[k].port > 0
  BY DEF SoundHosts
<1>3. PICK h : h = StartHost(g, taken)
  OBVIOUS
<1>4. CASE g.running \/ g.acceptor = "open"
  <2>1. h = g
    BY <1>1, <1>3, <1>4 DEF StartHost
  <2> QED BY <1>3, <1>4, <2>1 DEF Begun
<1>5. CASE ~g.running /\ g.acceptor # "open" /\ g.port \in taken
  <2>1. h = [g EXCEPT !.acceptor = "open"]
    BY <1>1, <1>3, <1>5 DEF StartHost
  <2>2. /\ h \in HostType /\ h.acceptor = "open" /\ h.id = g.id /\ h.port = g.port /\ h.type = g.type
        /\ h.locals = g.locals /\ h.remotes = g.remotes /\ h.active = g.active /\ h.running = g.running
    BY <1>1, <2>1 DEF HostType
  <2>3. h \in SoundHosts
    BY <1>2, <1>5, <2>2 DEF SoundHosts
  <2> QED BY <1>3, <1>5, <2>2, <2>3 DEF Begun
<1>6. CASE ~g.running /\ g.acceptor # "open" /\ g.port \notin taken
  <2>1. h = [g EXCEPT !.running = TRUE, !.acceptor = "bound"]
    BY <1>1, <1>3, <1>6 DEF StartHost
  <2>2. /\ h \in HostType /\ h.acceptor = "bound" /\ h.id = g.id /\ h.port = g.port /\ h.type = g.type
        /\ h.locals = g.locals /\ h.remotes = g.remotes /\ h.active = g.active /\ h.running
    BY <1>1, <2>1 DEF HostType
  <2>3. h \in SoundHosts
    BY <1>2, <2>2 DEF SoundHosts
  <2> QED BY <1>3, <1>6, <2>2, <2>3 DEF Begun
<1> QED
  BY <1>4, <1>5, <1>6

\* No host that runs holds a port of another program or of the web server.
PortsFree(hosts, others, server) ==
  \A k \in DOMAIN hosts : hosts[k].running /\ hosts[k].port # 0 => hosts[k].port \notin others \cup {server}

\* The lists in which the first n hosts of l were started, or one of them threw.
StartedTo(l, n) ==
  {m \in SoundLists : /\ m.hostids = l.hostids /\ m.clients = l.clients /\ DOMAIN m.hosts = DOMAIN l.hosts
                      /\ \A k \in DOMAIN l.hosts : Begun(l.hosts[k], m.hosts[k])
                      /\ PortsFree(m.hosts, foreign, web)
                      /\ ~m.thrown => \A k \in DOMAIN l.hosts : k <= n => m.hosts[k].running}

\* Hosts that differ from sound ones in nothing but whether they were started.
LEMMA BegunSound ==
  ASSUME NEW old, NEW ids, HostsSound(old, ids), NEW hosts, DOMAIN hosts = DOMAIN old,
         \A k \in DOMAIN old : hosts[k] \in SoundHosts /\ Begun(old[k], hosts[k])
  PROVE  HostsSound(hosts, ids)
<1>1. \A k \in DOMAIN old : hosts[k].id = old[k].id /\ hosts[k].port = old[k].port
  BY Zenon DEF Begun
<1> QED
  BY <1>1, Zenon DEF HostsSound

\* One more host.
LEMMA StartNextSound ==
  ASSUME NEW l \in SoundLists, NEW n \in 1 .. Len(l.hosts), NEW m \in StartedTo(l, n - 1)
  PROVE  StartNext(m, n) \in StartedTo(l, n)
<1>1. /\ m \in SoundLists /\ m.hostids = l.hostids /\ m.clients = l.clients /\ DOMAIN m.hosts = DOMAIN l.hosts
      /\ \A k \in DOMAIN l.hosts : Begun(l.hosts[k], m.hosts[k])
      /\ PortsFree(m.hosts, foreign, web)
      /\ ~m.thrown => \A k \in DOMAIN l.hosts : k <= n - 1 => m.hosts[k].running
  BY Zenon DEF StartedTo
<1>2. /\ m \in ListsType /\ m.hosts \in Seq(HostType) /\ m.hostids \in Nat /\ m.thrown \in BOOLEAN
      /\ HostsSound(m.hosts, m.hostids) /\ ClientsSound(m.clients)
  BY <1>1, ListsFields, Zenon DEF SoundLists
<1>3. Len(l.hosts) \in Nat /\ DOMAIN l.hosts = 1 .. Len(l.hosts) /\ n \in DOMAIN m.hosts
  BY <1>1, ListsFields, Zenon DEF SoundLists
<1>4. CASE m.thrown
  <2>1. StartNext(m, n) = m
    BY <1>4, Zenon DEF StartNext
  <2>2. m \in StartedTo(l, n)
    BY <1>1, <1>4, Zenon DEF StartedTo
  <2> QED BY <2>1, <2>2, Zenon
<1>5. CASE ~m.thrown
  <2>1. PICK h : h = StartHost(m.hosts[n], InUse(m.hosts))
    OBVIOUS
  <2>2. /\ h \in SoundHosts /\ Begun(m.hosts[n], h)
        /\ h.running => m.hosts[n].running \/ m.hosts[n].port \notin InUse(m.hosts)
    <3>1. m.hosts[n] \in SoundHosts
      BY <1>2, <1>3, Zenon DEF HostsSound
    <3> QED BY <2>1, <3>1, StartHostIs, Zenon
  <2>3. PICK hs : hs = [m.hosts EXCEPT ![n] = h]
    OBVIOUS
  <2>4. /\ hs \in Seq(HostType) /\ DOMAIN hs = DOMAIN m.hosts /\ hs[n] = h
        /\ \A k \in DOMAIN m.hosts : k # n => hs[k] = m.hosts[k]
    <3>1. h \in HostType
      BY <2>2, Zenon DEF SoundHosts
    <3> QED BY <1>2, <1>3, <2>3, <3>1
  <2>5. PICK t \in BOOLEAN : t <=> ~h.running
    OBVIOUS
  <2>6. StartNext(m, n) = With(m, hs, m.hostids, t)
    <3>1. ASSUME NEW s PROVE [m EXCEPT !.hosts[n] = h, !.thrown = s] = With(m, hs, m.hostids, s)
      <4>1. [m EXCEPT !.hosts[n] = h, !.thrown = s] = [[m EXCEPT !.hosts = hs] EXCEPT !.thrown = s]
        BY <1>2, <2>3 DEF ListsType
      <4>2. PICK r : r = With(m, hs, m.hostids, m.thrown)
        OBVIOUS
      <4>3. [r EXCEPT !.thrown = s] = With(m, hs, m.hostids, s)
        BY <4>2 DEF With
      <4>4. [m EXCEPT !.hosts = hs] = r
        BY <1>2, <4>2, ListsFields, Zenon
      <4> QED BY <4>1, <4>3, <4>4, Zenon
    <3>2. t = ~h.running
      BY <2>2, <2>5 DEF SoundHosts, HostType
    <3>3. StartNext(m, n) = [m EXCEPT !.hosts[n] = h, !.thrown = ~h.running]
      BY <1>5, <2>1, Zenon DEF StartNext
    <3> QED BY <3>1, <3>2, <3>3
  <2>7. PICK r : r = With(m, hs, m.hostids, t)
    OBVIOUS
  <2>8. r \in ListsType /\ r.hosts = hs /\ r.hostids = m.hostids /\ r.clients = m.clients /\ r.thrown = t
    <3>1. m \in ListsType /\ hs \in Seq(HostType) /\ m.hostids \in Nat
      BY <1>2, <2>4, Zenon
    <3> QED BY <2>7, <3>1, WithFields
  <2>9. \A k \in DOMAIN m.hosts : hs[k] \in SoundHosts /\ Begun(m.hosts[k], hs[k])
    <3>1. \A k \in DOMAIN m.hosts : m.hosts[k] \in SoundHosts /\ Begun(m.hosts[k], m.hosts[k])
      BY <1>2, Zenon DEF HostsSound, Begun
    <3> QED BY <2>2, <2>4, <3>1, Zenon
  <2>10. HostsSound(hs, m.hostids)
    BY <1>2, <2>4, <2>9, BegunSound, Zenon
  <2>11. r \in SoundLists
    BY <1>2, <2>8, <2>10, Zenon DEF SoundLists
  <2>12. \A k \in DOMAIN l.hosts : Begun(l.hosts[k], hs[k])
    BY <1>1, <2>9, Zenon DEF Begun
  <2>13. PortsFree(hs, foreign, web)
    <3> SUFFICES ASSUME NEW k \in DOMAIN hs, hs[k].running, hs[k].port # 0
                 PROVE  hs[k].port \notin foreign \cup {web}
      BY DEF PortsFree
    <3>1. CASE k # n \/ m.hosts[n].running
      <4>1. m.hosts[k].running /\ m.hosts[k].port = hs[k].port
        BY <2>4, <2>9, <3>1, Zenon DEF Begun
      <4> QED BY <1>1, <2>4, <4>1, Zenon DEF PortsFree
    <3>2. CASE k = n /\ ~m.hosts[n].running
      <4>1. hs[k].port \notin InUse(m.hosts)
        BY <2>2, <2>4, <3>2, Zenon DEF Begun
      <4> QED BY <4>1 DEF InUse
    <3> QED BY <3>1, <3>2
  <2>14. ~r.thrown => \A k \in DOMAIN l.hosts : k <= n => hs[k].running
    <3> SUFFICES ASSUME ~r.thrown, NEW k \in DOMAIN l.hosts, k <= n PROVE hs[k].running
      OBVIOUS
    <3>1. CASE k = n
      BY <2>4, <2>5, <2>8, <3>1, Zenon
    <3>2. CASE k # n
      <4>1. k <= n - 1
        BY <1>3, <3>2
      <4> QED BY <1>1, <1>5, <2>4, <3>2, <4>1, Zenon
    <3> QED BY <3>1, <3>2
  <2>15. r \in StartedTo(l, n)
    BY <1>1, <2>4, <2>8, <2>11, <2>12, <2>13, <2>14, Zenon DEF StartedTo
  <2> QED BY <2>6, <2>7, <2>15, Zenon
<1> QED
  BY <1>2, <1>4, <1>5, Zenon

\* lock() over all hosts.
LEMMA StartHostsSound ==
  ASSUME NEW l \in SoundLists, ~l.thrown, PortsFree(l.hosts, foreign, web)
  PROVE  StartHosts(l) \in StartedTo(l, Len(l.hosts))
<1>1. Len(l.hosts) \in Nat /\ DOMAIN l.hosts = 1 .. Len(l.hosts)
  BY ListsFields, Zenon DEF SoundLists
<1>2. PICK S : S = [n \in 0 .. Len(l.hosts) |-> StartedTo(l, n)]
  OBVIOUS
<1>3. l \in StartedTo(l, 0)
  <2>1. \A k \in DOMAIN l.hosts : ~(k <= 0)
    BY <1>1
  <2>2. \A k \in DOMAIN l.hosts : Begun(l.hosts[k], l.hosts[k])
    BY Zenon DEF Begun
  <2> QED BY <2>1, <2>2, Zenon DEF StartedTo
<1>4. l \in S[0] /\ \A n \in 0 .. Len(l.hosts) : S[n] = StartedTo(l, n)
  BY <1>1, <1>2, <1>3
<1>5. \A n \in 1 .. Len(l.hosts) : \A m \in S[n - 1] : StartNext(m, n) \in S[n]
  <2> SUFFICES ASSUME NEW n \in 1 .. Len(l.hosts), NEW m \in S[n - 1]
               PROVE  StartNext(m, n) \in S[n]
    OBVIOUS
  <2>1. n - 1 \in 0 .. Len(l.hosts) /\ n \in 0 .. Len(l.hosts)
    BY <1>1
  <2> QED BY <1>4, <2>1, StartNextSound, Zenon
<1>6. PICK f : StartRun(f, l, S)
  BY <1>1, <1>4, <1>5, StartPass, Zenon
<1>7. Len(l.hosts) \in 0 .. Len(l.hosts)
  BY <1>1
<1> QED
  BY <1>4, <1>6, <1>7, Zenon DEF StartRun

\* What lock() may leave of l: when nothing threw, every host and every active
\* client runs.
Started(l) ==
  {m \in SoundLists : /\ m.hostids = l.hostids /\ DOMAIN m.hosts = DOMAIN l.hosts
                      /\ \A k \in DOMAIN l.hosts : Begun(l.hosts[k], m.hosts[k])
                      /\ PortsFree(m.hosts, foreign, web)
                      /\ ~m.thrown => /\ \A k \in DOMAIN m.hosts : m.hosts[k].running
                                      /\ \A k \in DOMAIN m.clients : m.clients[k].running = m.clients[k].active}

\* lock().
LEMMA StartAllSound ==
  ASSUME NEW l \in SoundLists, ~l.thrown, PortsFree(l.hosts, foreign, web)
  PROVE  StartAll(l) \in Started(l)
<1>1. PICK h : h = StartHosts(l)
  OBVIOUS
<1>2. h \in StartedTo(l, Len(l.hosts))
  BY <1>1, StartHostsSound, Zenon
<1>3. /\ h \in SoundLists /\ h.hostids = l.hostids /\ h.clients = l.clients /\ DOMAIN h.hosts = DOMAIN l.hosts
      /\ \A k \in DOMAIN l.hosts : Begun(l.hosts[k], h.hosts[k])
      /\ PortsFree(h.hosts, foreign, web)
      /\ ~h.thrown => \A k \in DOMAIN h.hosts : h.hosts[k].running
  <2>1. \A k \in DOMAIN l.hosts : k <= Len(l.hosts)
    <3>1. l.hosts \in Seq(HostType)
      BY ListsFields, Zenon DEF SoundLists
    <3> QED BY <3>1
  <2> QED BY <1>2, <2>1, Zenon DEF StartedTo
<1>4. /\ h \in ListsType /\ h.clients \in Seq(ClientType) /\ h.thrown \in BOOLEAN
      /\ HostsSound(h.hosts, h.hostids) /\ ClientsSound(h.clients)
  BY <1>3, ListsFields, Zenon DEF SoundLists
<1>5. CASE h.thrown
  <2>1. StartAll(l) = h
    BY <1>1, <1>5, Zenon DEF StartAll
  <2> QED BY <1>3, <1>5, <2>1, Zenon DEF Started
<1>6. CASE ~h.thrown
  <2>1. PICK cs : cs = [k \in DOMAIN h.clients |-> StartClient(h.clients[k])]
    OBVIOUS
  <2>2. PICK m : m = [h EXCEPT !.clients = cs]
    OBVIOUS
  <2>3. StartAll(l) = m
    <3>1. ~StartHosts(l).thrown
      BY <1>1, <1>6, Zenon
    <3>2. StartAll(l) = [h EXCEPT !.clients = cs]
      BY <1>1, <2>1, <3>1, Zenon DEF StartAll
    <3> QED BY <2>2, <3>2, Zenon
  <2>4. ASSUME NEW k \in DOMAIN h.clients
        PROVE  cs[k] \in ClientType /\ cs[k].running = cs[k].active
    <3>1. PICK c : c = h.clients[k]
      OBVIOUS
    <3>2. c \in ClientType /\ (c.running => c.active)
      BY <1>4, <3>1, Zenon DEF ClientsSound, SoundClients
    <3>3. c.running \in BOOLEAN /\ c.active \in BOOLEAN
      BY <3>2 DEF ClientType
    <3>4. (c.running \/ c.active) = c.active
      BY <3>2, <3>3
    <3>5. cs[k] = [c EXCEPT !.running = c.active]
      BY <2>1, <3>1, <3>4 DEF StartClient
    <3> QED BY <3>2, <3>3, <3>5 DEF ClientType
  <2>5. DOMAIN cs = DOMAIN h.clients /\ cs = [k \in DOMAIN h.clients |-> cs[k]]
    BY <2>1
  <2>6. cs \in Seq(ClientType)
    BY <1>4, <2>4, <2>5, SameLength
  <2>7. ClientsSound(cs)
    BY <2>4, <2>5, Zenon DEF ClientsSound, SoundClients
  <2>8. m \in ListsType /\ m.clients = cs /\ m.hosts = h.hosts /\ m.hostids = h.hostids /\ m.thrown = h.thrown
    BY <1>4, <2>2, <2>6 DEF ListsType
  <2>9. m \in SoundLists
    BY <1>4, <2>7, <2>8, Zenon DEF SoundLists
  <2>10. \A k \in DOMAIN m.clients : m.clients[k].running = m.clients[k].active
    BY <2>4, <2>5, <2>8, Zenon
  <2>11. m \in Started(l)
    BY <1>3, <1>6, <2>8, <2>9, <2>10, Zenon DEF Started
  <2> QED BY <2>3, <2>11, Zenon
<1> QED
  BY <1>4, <1>5, <1>6, Zenon

------------------------------------------------------------------------------
(* The invariant *)

\* Every host runs, but for one switched off on the status page or whose port
\* was in use then, and every active client.
Up(l) ==
  /\ \A k \in DOMAIN l.hosts : l.hosts[k].running \/ ~l.hosts[k].active \/ l.hosts[k].acceptor = "open"
  /\ \A k \in DOMAIN l.clients : l.clients[k].running = l.clients[k].active

\* The lists are sound and the ports of the hosts that run are their own.
ListsOK == lists \in SoundLists /\ PortsFree(lists.hosts, foreign, web)

\* The workers of the web server are gone before main() goes on.
ServerDown == pc # "serving" => AllIdle

\* What does not run is still to be started: by an upload or by a restart.
StartDue == pc = "serving" => timer \/ shut \/ (\E w \in Workers : worker[w].at = "start") \/ Up(lists)

\* The document of an upload that is taken over in place has no new uniproxy.
UploadAdds(w) ==
  worker[w].at \in {"unpopulate", "stopping", "populate"} =>
    Uniproxies(Doc(worker[w].doc), WebPort) \subseteq settings.uniproxies

ExchangeOK ==
  /\ pc = "serving" => exchange = settings.uniproxies
  /\ \A w \in Workers : UploadAdds(w)

\* An id that was shown is not given to another host.
Shown(p, l) ==
  /\ p.id <= l.hostids
  /\ \A k \in DOMAIN l.hosts : l.hosts[k].id = p.id => l.hosts[k].port = p.port

PageOK == \A p \in page : p.kind = "host" => Shown(p, lists)

Inv == TypeOK /\ ListsOK /\ ServerDown /\ StartDue /\ ExchangeOK /\ PageOK

------------------------------------------------------------------------------
(* What the steps do to the lists *)

\* Every host was listed before under its id and port, or its id is new.
Follows(l, m) ==
  /\ m.hostids >= l.hostids
  /\ \A j \in DOMAIN m.hosts : \/ m.hosts[j].id > l.hostids
                               \/ \E k \in DOMAIN l.hosts : /\ l.hosts[k].id = m.hosts[j].id
                                                            /\ l.hosts[k].port = m.hosts[j].port

\* No host was switched on or off.
SameSwitch(l, m) ==
  \A k \in DOMAIN l.hosts, j \in DOMAIN m.hosts :
    l.hosts[k].id = m.hosts[j].id => l.hosts[k].active = m.hosts[j].active

\* What every step but a switch on the status page may make of l.
Successors(l) == {m \in SoundLists : ~m.thrown /\ Follows(l, m) /\ SameSwitch(l, m)}

\* An exception that was caught leaves the lists as they were when it was thrown.
LEMMA ClearedSound ==
  ASSUME NEW l \in SoundLists
  PROVE  /\ Cleared(l) \in SoundLists /\ ~Cleared(l).thrown
         /\ Cleared(l).hosts = l.hosts /\ Cleared(l).hostids = l.hostids /\ Cleared(l).clients = l.clients
         /\ ~l.thrown => Cleared(l) = l
<1>1. /\ l \in ListsType /\ l.hosts \in Seq(HostType) /\ l.hostids \in Nat /\ l.thrown \in BOOLEAN
      /\ HostsSound(l.hosts, l.hostids) /\ ClientsSound(l.clients)
  BY ListsFields, Zenon DEF SoundLists
<1>2. Cleared(l) = With(l, l.hosts, l.hostids, FALSE)
  BY <1>1, ListsFields, Zenon DEF Cleared
<1>3. /\ Cleared(l) \in ListsType /\ Cleared(l).hosts = l.hosts /\ Cleared(l).hostids = l.hostids
      /\ Cleared(l).clients = l.clients /\ ~Cleared(l).thrown
  <2>1. /\ With(l, l.hosts, l.hostids, FALSE) \in ListsType /\ With(l, l.hosts, l.hostids, FALSE).hosts = l.hosts
        /\ With(l, l.hosts, l.hostids, FALSE).hostids = l.hostids
        /\ With(l, l.hosts, l.hostids, FALSE).clients = l.clients
        /\ With(l, l.hosts, l.hostids, FALSE).thrown = FALSE
    <3>1. \A t \in BOOLEAN : /\ With(l, l.hosts, l.hostids, t) \in ListsType
                              /\ With(l, l.hosts, l.hostids, t).hosts = l.hosts
                              /\ With(l, l.hosts, l.hostids, t).hostids = l.hostids
                              /\ With(l, l.hosts, l.hostids, t).clients = l.clients
                              /\ With(l, l.hosts, l.hostids, t).thrown = t
      BY <1>1, WithFields
    <3>2. FALSE \in BOOLEAN
      OBVIOUS
    <3> QED BY <3>1, <3>2, Zenon
  <2>2. ~With(l, l.hosts, l.hostids, FALSE).thrown
    BY <2>1, Zenon
  <2> QED BY <1>2, <2>1, <2>2, Zenon
<1>4. Cleared(l) \in SoundLists
  BY <1>1, <1>3, Zenon DEF SoundLists
<1>5. ASSUME ~l.thrown PROVE Cleared(l) = l
  <2>1. l.thrown = FALSE
    BY <1>1, <1>5, Zenon
  <2>2. l = With(l, l.hosts, l.hostids, l.thrown)
    BY <1>1, ListsFields, Zenon
  <2> QED BY <1>2, <2>1, <2>2, Zenon
<1> QED
  BY <1>3, <1>4, <1>5, Zenon

\* A host that follows one with its id has the same switch.
LEMMA SameSwitchIs ==
  ASSUME NEW l \in SoundLists, NEW m \in SoundLists,
         \A j \in DOMAIN m.hosts : \/ m.hosts[j].id > l.hostids
                                   \/ \E k \in DOMAIN l.hosts : /\ l.hosts[k].id = m.hosts[j].id
                                                                /\ l.hosts[k].active = m.hosts[j].active
  PROVE  SameSwitch(l, m)
<1> SUFFICES ASSUME NEW k \in DOMAIN l.hosts, NEW j \in DOMAIN m.hosts, l.hosts[k].id = m.hosts[j].id
             PROVE  l.hosts[k].active = m.hosts[j].active
  BY Zenon DEF SameSwitch
<1>1. l.hosts[k].id \in 1 .. l.hostids /\ \A i \in DOMAIN l.hosts : l.hosts[i].id = l.hosts[k].id => i = k
  BY Zenon DEF SoundLists, HostsSound
<1>2. l.hostids \in Nat
  BY ListsFields, Zenon DEF SoundLists
<1>3. ~(m.hosts[j].id > l.hostids)
  BY <1>1, <1>2
<1>4. PICK i \in DOMAIN l.hosts : l.hosts[i].id = m.hosts[j].id /\ l.hosts[i].active = m.hosts[j].active
  BY <1>3, Zenon
<1> QED
  BY <1>1, <1>4, Zenon

\* A step that leaves the lists alone.
LEMMA Unchanged ==
  ASSUME NEW l \in SoundLists, ~l.thrown
  PROVE  l \in Successors(l)
<1>1. l.hostids \in Nat
  BY ListsFields, Zenon DEF SoundLists
<1>2. l.hostids >= l.hostids
  BY <1>1
<1>3. Follows(l, l)
  BY <1>2, Zenon DEF Follows
<1>4. SameSwitch(l, l)
  BY SameSwitchIs, Zenon
<1> QED
  BY <1>3, <1>4, Zenon DEF Successors

\* Populating, whether it throws or not: what is new does not run.
LEMMA PopulateStep ==
  ASSUME NEW l \in SoundLists, NEW doc, DocumentParsed(doc), NEW keyOk \in BOOLEAN, NEW others, NEW server,
         PortsFree(l.hosts, others, server)
  PROVE  /\ Cleared(PopulateLists(l, doc, keyOk)) \in Successors(l)
         /\ PortsFree(Cleared(PopulateLists(l, doc, keyOk)).hosts, others, server)
<1>1. PICK m : m = PopulateLists(l, doc, keyOk)
  OBVIOUS
<1>2. m \in SoundLists /\ m.hostids >= l.hostids /\ HostsDescend(l.hosts, l.hostids, m.hosts)
  BY <1>1, PopulateListsSound, Zenon DEF Descendants, Descends
<1>3. PICK c : c = Cleared(m)
  OBVIOUS
<1>4. c \in SoundLists /\ ~c.thrown /\ c.hosts = m.hosts /\ c.hostids = m.hostids
  BY <1>2, <1>3, ClearedSound, Zenon
<1>5. Follows(l, c)
  BY <1>2, <1>4, ZenonT(40) DEF Follows, HostsDescend, Alike
<1>6. SameSwitch(l, c)
  <2>1. \A j \in DOMAIN c.hosts : \/ c.hosts[j].id > l.hostids
                                  \/ \E k \in DOMAIN l.hosts : /\ l.hosts[k].id = c.hosts[j].id
                                                               /\ l.hosts[k].active = c.hosts[j].active
    BY <1>2, <1>4, ZenonT(40) DEF HostsDescend, Alike
  <2> QED BY <1>4, <2>1, SameSwitchIs, Zenon
<1>7. PortsFree(c.hosts, others, server)
  <2> SUFFICES ASSUME NEW j \in DOMAIN c.hosts, c.hosts[j].running, c.hosts[j].port # 0
               PROVE  c.hosts[j].port \notin others \cup {server}
    BY Zenon DEF PortsFree
  <2>1. ~Fresh(c.hosts[j])
    BY Zenon DEF Fresh
  <2>2. PICK k \in DOMAIN l.hosts : Alike(l.hosts[k], c.hosts[j])
    BY <1>2, <1>4, <2>1, Zenon DEF HostsDescend
  <2>3. l.hosts[k].running /\ l.hosts[k].port = c.hosts[j].port
    BY <2>2, Zenon DEF Alike
  <2> QED BY <2>3, Zenon DEF PortsFree
<1> QED
  BY <1>1, <1>3, <1>4, <1>5, <1>6, <1>7, Zenon DEF Successors

\* Unpopulating: what is left is up when everything was.
LEMMA UnpopulateStep ==
  ASSUME NEW l \in SoundLists, NEW doc, NEW others, NEW server, PortsFree(l.hosts, others, server)
  PROVE  /\ Cleared(unpopulate_json(l, doc)) \in Successors(l)
         /\ PortsFree(Cleared(unpopulate_json(l, doc)).hosts, others, server)
         /\ Up(l) => Up(Cleared(unpopulate_json(l, doc)))
<1>1. PICK m : m = unpopulate_json(l, doc)
  OBVIOUS
<1>2. /\ m \in SoundLists /\ m.clients = <<>> /\ m.hostids = l.hostids
      /\ \A j \in DOMAIN m.hosts : \E k \in DOMAIN l.hosts : m.hosts[j] = l.hosts[k]
  <2>1. m \in Remnants(l, Len(l.hosts))
    BY <1>1, UnpopulateSound, Zenon
  <2> QED BY <2>1, Zenon DEF Remnants
<1>3. PICK c : c = Cleared(m)
  OBVIOUS
<1>4. c \in SoundLists /\ ~c.thrown /\ c.hosts = m.hosts /\ c.hostids = m.hostids /\ c.clients = <<>>
  BY <1>2, <1>3, ClearedSound, Zenon
<1>5. Follows(l, c)
  <2>1. l.hostids \in Nat
    BY ListsFields, Zenon DEF SoundLists
  <2>2. c.hostids >= l.hostids
    BY <1>2, <1>4, <2>1
  <2> QED BY <1>2, <1>4, <2>2, Zenon DEF Follows
<1>6. SameSwitch(l, c)
  <2>1. \A j \in DOMAIN c.hosts : \E k \in DOMAIN l.hosts : /\ l.hosts[k].id = c.hosts[j].id
                                                            /\ l.hosts[k].active = c.hosts[j].active
    BY <1>2, <1>4, Zenon
  <2> QED BY <1>4, <2>1, SameSwitchIs, Zenon
<1>7. PortsFree(c.hosts, others, server)
  BY <1>2, <1>4, Zenon DEF PortsFree
<1>8. ASSUME Up(l) PROVE Up(c)
  <2>1. \A k \in DOMAIN c.clients : FALSE
    BY <1>4
  <2>2. ASSUME NEW j \in DOMAIN c.hosts
        PROVE  c.hosts[j].running \/ ~c.hosts[j].active \/ c.hosts[j].acceptor = "open"
    <3>1. PICK k \in DOMAIN l.hosts : c.hosts[j] = l.hosts[k]
      BY <1>2, <1>4, Zenon
    <3> QED BY <1>8, <3>1, Zenon DEF Up
  <2> QED BY <2>1, <2>2, Zenon DEF Up
<1> QED
  BY <1>1, <1>3, <1>4, <1>5, <1>6, <1>7, <1>8, Zenon DEF Successors

\* Starting: everything is up unless it throws.
LEMMA StartStep ==
  ASSUME NEW l \in SoundLists, ~l.thrown, PortsFree(l.hosts, foreign, web)
  PROVE  /\ StartAll(l) \in SoundLists
         /\ Cleared(StartAll(l)) \in Successors(l)
         /\ PortsFree(Cleared(StartAll(l)).hosts, foreign, web)
         /\ ~StartAll(l).thrown => Cleared(StartAll(l)) = StartAll(l) /\ Up(StartAll(l))
<1>1. PICK m : m = StartAll(l)
  OBVIOUS
<1>2. /\ m \in SoundLists /\ m.hostids = l.hostids /\ DOMAIN m.hosts = DOMAIN l.hosts
      /\ \A k \in DOMAIN l.hosts : Begun(l.hosts[k], m.hosts[k])
      /\ PortsFree(m.hosts, foreign, web)
      /\ ~m.thrown => /\ \A k \in DOMAIN m.hosts : m.hosts[k].running
                      /\ \A k \in DOMAIN m.clients : m.clients[k].running = m.clients[k].active
  BY <1>1, StartAllSound, Zenon DEF Started
<1>3. PICK c : c = Cleared(m)
  OBVIOUS
<1>4. c \in SoundLists /\ ~c.thrown /\ c.hosts = m.hosts /\ c.hostids = m.hostids /\ (~m.thrown => c = m)
  BY <1>2, <1>3, ClearedSound, Zenon
<1>5. Follows(l, c)
  <2>1. l.hostids \in Nat
    BY ListsFields, Zenon DEF SoundLists
  <2>2. c.hostids >= l.hostids
    BY <1>2, <1>4, <2>1
  <2> QED BY <1>2, <1>4, <2>2, Zenon DEF Follows, Begun
<1>6. SameSwitch(l, c)
  <2>1. \A j \in DOMAIN c.hosts : \E k \in DOMAIN l.hosts : /\ l.hosts[k].id = c.hosts[j].id
                                                            /\ l.hosts[k].active = c.hosts[j].active
    BY <1>2, <1>4, Zenon DEF Begun
  <2> QED BY <1>4, <2>1, SameSwitchIs, Zenon
<1>7. ~m.thrown => Up(m)
  BY <1>2, Zenon DEF Up
<1> QED
  BY <1>1, <1>2, <1>3, <1>4, <1>5, <1>6, <1>7, Zenon DEF Successors

------------------------------------------------------------------------------
(* What the steps do to the settings *)

\* The uniproxies of a document.
LEMMA UniproxiesTyped ==
  ASSUME NEW doc, DocumentParsed(doc), NEW port \in Int
  PROVE  Uniproxies(doc, port) \subseteq LocalType
<1>1. PICK all : all = Items(Config(doc), "uniproxies")
  OBVIOUS
<1>2. \A k \in DOMAIN all : EndpointParsed(all[k])
  BY <1>1, Zenon DEF DocumentParsed, ArrayParsed, Config
<1>3. \A k \in DOMAIN all : LocalEndpoint(all[k], port) \in LocalType
  BY <1>2, EndpointTyped, Zenon
<1> QED
  BY <1>1, <1>3, Zenon DEF Uniproxies

\* The settings after some were read from a document, and whether that threw.
Settings(name, uniproxies, activate_port, web_port, thrown) ==
  [name |-> name, uniproxies |-> uniproxies, activate_port |-> activate_port, web_port |-> web_port,
   thrown |-> thrown]

\* Reading the settings from a document: uniproxies are only added.
LEMMA ConfigTyped ==
  ASSUME NEW s \in SettingsType, NEW doc, DocumentParsed(doc)
  PROVE  /\ PopulateConfig(s, doc) \in SettingsType
         /\ \/ PopulateConfig(s, doc).uniproxies = s.uniproxies
            \/ PopulateConfig(s, doc).uniproxies = s.uniproxies \cup Uniproxies(doc, WebPort)
<1>1. /\ s.name \in Text /\ s.uniproxies \subseteq LocalType /\ s.activate_port \in Port /\ s.web_port \in Port
      /\ s.thrown \in BOOLEAN
  BY DEF SettingsType
<1>2. PICK c : c = Config(doc)
  OBVIOUS
<1>3. PICK port : port = IF c.t = "object" THEN check_port(find(c, "activate"), "port", ActivatePort) ELSE ActivatePort
  OBVIOUS
<1>4. port \in Port
  <2>1. Parsed(find(c, "activate"), "port")
    BY <1>2, Zenon DEF DocumentParsed, Config
  <2>2. ActivatePort \in Int /\ ActivatePort \in Port
    BY PortFacts, Zenon
  <2>3. check_port(find(c, "activate"), "port", ActivatePort) \in Port
    BY <2>1, <2>2, ChecksTyped, Zenon
  <2> QED BY <1>3, <2>2, <2>3, Zenon
<1>5. PICK webport : webport = check_port(find(doc, "web"), "port", s.web_port)
  OBVIOUS
<1>6. webport \in Port
  <2>1. Parsed(find(doc, "web"), "port")
    BY Zenon DEF DocumentParsed
  <2>2. s.web_port \in Int
    <3>1. \A q \in Port : q \in Int
      BY PortFacts, Zenon
    <3> QED BY <1>1, <3>1, Zenon
  <2> QED BY <1>5, <2>1, <2>2, ChecksTyped
<1>7. PICK name : name = check_string(c, "name", s.name)
  OBVIOUS
<1>8. name \in Text
  <2>1. Parsed(c, "name")
    BY <1>2, Zenon DEF DocumentParsed, Config
  <2> QED BY <1>1, <1>7, <2>1, ChecksTyped
<1>9. PICK tls \in BOOLEAN : tls <=> min_tls_protocol(doc) \in 12 .. 13
  OBVIOUS
<1>10. PICK ups : ups = IF tls THEN s.uniproxies \cup Uniproxies(doc, WebPort) ELSE s.uniproxies
  OBVIOUS
<1>11. ups \subseteq LocalType
  <2>1. WebPort \in Int
    BY DEF WebPort
  <2>2. Uniproxies(doc, WebPort) \subseteq LocalType
    BY <2>1, UniproxiesTyped, Zenon
  <2> QED BY <1>1, <1>10, <2>2
<1>12. PICK set : set = [s EXCEPT !.activate_port = port, !.web_port = webport]
  OBVIOUS
<1>13. set = Settings(s.name, s.uniproxies, port, webport, s.thrown)
  BY <1>12 DEF SettingsType, Settings
<1>14. CASE c.t # "object"
  <2>1. PopulateConfig(s, doc) = set
    BY <1>2, <1>3, <1>5, <1>12, <1>14, Zenon DEF PopulateConfig
  <2> QED BY <1>1, <1>4, <1>6, <1>13, <2>1 DEF Settings, SettingsType
<1>15. CASE c.t = "object"
  <2>1. set.name = s.name /\ set.uniproxies = s.uniproxies
    BY <1>13 DEF Settings
  <2>2. PICK r : r = [set EXCEPT !.name = name, !.uniproxies = ups, !.thrown = ~tls]
    OBVIOUS
  <2>3. PopulateConfig(s, doc) = r
    BY <1>2, <1>3, <1>5, <1>7, <1>9, <1>10, <1>12, <1>15, <2>1, <2>2 DEF PopulateConfig
  <2>4. r = Settings(name, ups, port, webport, ~tls)
    BY <1>13, <2>2 DEF Settings
  <2>5. r \in SettingsType /\ r.uniproxies = ups
    BY <1>4, <1>6, <1>8, <1>11, <2>4 DEF Settings, SettingsType
  <2>6. ups = s.uniproxies \/ ups = s.uniproxies \cup Uniproxies(doc, WebPort)
    BY <1>10, Zenon
  <2> QED BY <2>3, <2>5, <2>6, Zenon
<1> QED
  BY <1>14, <1>15, Zenon

\* An exception that was caught leaves the settings.
LEMMA ClearedSettings ==
  ASSUME NEW s \in SettingsType
  PROVE  /\ Cleared(s) \in SettingsType /\ ~Cleared(s).thrown /\ Cleared(s).uniproxies = s.uniproxies
         /\ Cleared(s).name = s.name
<1>1. ASSUME NEW t \in BOOLEAN
      PROVE  /\ [s EXCEPT !.thrown = t] \in SettingsType /\ [s EXCEPT !.thrown = t].thrown = t
             /\ [s EXCEPT !.thrown = t].uniproxies = s.uniproxies /\ [s EXCEPT !.thrown = t].name = s.name
  BY DEF SettingsType
<1>2. FALSE \in BOOLEAN
  OBVIOUS
<1> QED
  BY <1>1, <1>2, Zenon DEF Cleared

\* A document that is not a new configuration names no uniproxy that is not
\* known: the default for a port that is missing does not matter, there is none.
LEMMA NoNewUniproxies ==
  ASSUME NEW s \in SettingsType, NEW doc, DocumentParsed(doc), ~is_new_configuration(s, doc)
  PROVE  Uniproxies(doc, WebPort) \subseteq s.uniproxies
<1>1. PICK list : list = find(Config(doc), "uniproxies")
  OBVIOUS
<1>2. list.t = "array" => \A k \in DOMAIN list.v : LocalLoads(list.v[k], 0) /\ LocalEndpoint(list.v[k], 0) \in s.uniproxies
  BY <1>1, Zenon DEF is_new_configuration
<1>3. PICK all : all = Items(Config(doc), "uniproxies")
  OBVIOUS
<1>4. \A k \in DOMAIN all : LocalLoads(all[k], 0) /\ LocalEndpoint(all[k], 0) \in s.uniproxies
  <2>1. list.t = "array" => all = list.v
    BY <1>1, <1>3 DEF Items
  <2>2. list.t # "array" => all = <<>>
    BY <1>1, <1>3 DEF Items
  <2>3. all = <<>> => \A k \in DOMAIN all : FALSE
    OBVIOUS
  <2> QED BY <1>2, <2>1, <2>2, <2>3, Zenon
<1>5. ASSUME NEW k \in DOMAIN all
      PROVE  LocalEndpoint(all[k], WebPort) = LocalEndpoint(all[k], 0)
  <2>1. check_port(all[k], "port", 0) > 0
    BY <1>4 DEF LocalLoads, LocalEndpoint
  <2>2. check_port(all[k], "port", WebPort) = check_port(all[k], "port", 0)
    BY <2>1 DEF check_port, check_int
  <2> QED BY <2>2, Zenon DEF LocalEndpoint
<1> QED
  BY <1>3, <1>4, <1>5, Zenon DEF Uniproxies

------------------------------------------------------------------------------
(* The switches of the status page *)

\* h is g, which may have been switched if its id is the one named.
IsSwitched(h, g, id, taken) ==
  /\ h \in SoundHosts /\ h.id = g.id /\ h.port = g.port
  /\ h.type = g.type /\ h.locals = g.locals /\ h.remotes = g.remotes
  /\ g.id # id => h = g
  /\ g.id = id => h.running \/ ~h.active \/ h.acceptor = "open"
  /\ h.running => g.running \/ g.port \notin taken

\* set_active of a host: what it is and where it listens stay.
LEMMA HostSwitched ==
  ASSUME NEW g \in SoundHosts, NEW id, NEW active \in BOOLEAN, NEW taken, NEW h,
         h = set_host_active(g, id, active, taken)
  PROVE  IsSwitched(h, g, id, taken)
<1>1. g \in HostType /\ g.running \in BOOLEAN
  BY DEF SoundHosts, HostType
<1>2. /\ g.acceptor = "bound" <=> g.running
      /\ \A k \in DOMAIN g.remotes : g.remotes[k].name # ""
      /\ \A k \in DOMAIN g.locals : g.locals[k].port > 0
  BY DEF SoundHosts
<1>3. CASE g.id # id
  <2>1. h = g
    BY <1>3 DEF set_host_active
  <2> QED BY <1>3, <2>1, Zenon DEF IsSwitched
<1>4. CASE g.id = id
  <2>1. ASSUME NEW b \in BOOLEAN
        PROVE  /\ [g EXCEPT !.active = b] \in SoundHosts /\ [g EXCEPT !.active = b].id = g.id
               /\ [g EXCEPT !.active = b].port = g.port /\ [g EXCEPT !.active = b].running = g.running
               /\ [g EXCEPT !.active = b].active = b
               /\ [g EXCEPT !.active = b].type = g.type /\ [g EXCEPT !.active = b].locals = g.locals
               /\ [g EXCEPT !.active = b].remotes = g.remotes
    <3>1. PICK f : f = [g EXCEPT !.active = b]
      OBVIOUS
    <3>2. /\ f \in HostType /\ f.id = g.id /\ f.port = g.port /\ f.running = g.running /\ f.active = b
          /\ f.acceptor = g.acceptor /\ f.remotes = g.remotes /\ f.locals = g.locals /\ f.type = g.type
      BY <1>1, <3>1 DEF HostType
    <3>3. f \in SoundHosts
      BY <1>2, <3>2, Zenon DEF SoundHosts
    <3> QED BY <3>1, <3>2, <3>3, Zenon
  <2>2. TRUE \in BOOLEAN /\ FALSE \in BOOLEAN
    OBVIOUS
  <2>3. CASE active
    <3>1. PICK f : f = [g EXCEPT !.active = TRUE]
      OBVIOUS
    <3>2. /\ f \in SoundHosts /\ f.id = g.id /\ f.port = g.port /\ f.running = g.running
          /\ f.type = g.type /\ f.locals = g.locals /\ f.remotes = g.remotes
      BY <2>1, <2>2, <3>1, Zenon
    <3>3. h = StartHost(f, taken)
      BY <1>4, <2>3, <3>1 DEF set_host_active
    <3>4. /\ h \in SoundHosts /\ Begun(f, h)
          /\ h.running \/ h.acceptor = "open"
          /\ h.running => f.running \/ f.port \notin taken
      BY <3>2, <3>3, StartHostIs
    <3>5. h.id = f.id /\ h.port = f.port /\ h.type = f.type /\ h.locals = f.locals /\ h.remotes = f.remotes
      BY <3>4, Zenon DEF Begun
    <3> QED BY <1>4, <3>2, <3>4, <3>5, Zenon DEF IsSwitched
  <2>4. CASE ~active
    <3>1. PICK f : f = [g EXCEPT !.active = FALSE]
      OBVIOUS
    <3>2. /\ f \in SoundHosts /\ f.id = g.id /\ f.port = g.port /\ f.running = g.running /\ f.active = FALSE
          /\ f.type = g.type /\ f.locals = g.locals /\ f.remotes = g.remotes
      BY <2>1, <2>2, <3>1, Zenon
    <3>3. h = StopHost(f)
      BY <1>4, <2>4, <3>1 DEF set_host_active
    <3>4. /\ f \in HostType /\ (f.acceptor = "bound" <=> f.running) /\ f.running \in BOOLEAN
          /\ \A k \in DOMAIN f.remotes : f.remotes[k].name # ""
          /\ \A k \in DOMAIN f.locals : f.locals[k].port > 0
      BY <3>2 DEF SoundHosts, HostType
    <3>5. /\ h \in HostType /\ h.id = f.id /\ h.port = f.port /\ h.remotes = f.remotes /\ h.locals = f.locals
          /\ ~h.running /\ h.active = f.active /\ h.acceptor # "bound" /\ h.type = f.type
      <4>1. PICK a : a = IF f.running THEN "closed" ELSE f.acceptor
        OBVIOUS
      <4>2. h = [f EXCEPT !.running = FALSE, !.acceptor = a]
        BY <3>3, <4>1 DEF StopHost
      <4>3. a # "bound" /\ a \in {"closed", "open", "bound"}
        BY <3>4, <4>1 DEF HostType
      <4> QED BY <3>4, <4>2, <4>3 DEF HostType
    <3>6. h \in SoundHosts
      <4>1. h.acceptor = "bound" <=> h.running
        BY <3>5, Zenon
      <4>2. \A k \in DOMAIN h.remotes : h.remotes[k].name # ""
        BY <3>4, <3>5, Zenon
      <4>3. \A k \in DOMAIN h.locals : h.locals[k].port > 0
        BY <3>4, <3>5, Zenon
      <4> QED BY <3>5, <4>1, <4>2, <4>3, Zenon DEF SoundHosts
    <3>7. ~h.active
      BY <3>2, <3>5, Zenon
    <3> QED BY <1>4, <3>2, <3>5, <3>6, <3>7, Zenon DEF IsSwitched
  <2> QED BY <2>3, <2>4, Zenon
<1> QED
  BY <1>3, <1>4, Zenon

\* The lists after a host was switched.
HostsSwitched(l, id, active) ==
  [l EXCEPT !.hosts = [k \in DOMAIN @ |-> set_host_active(@[k], id, active, InUse(l.hosts))]]

\* No host but the one with the id was switched.
SwitchesOnly(id, l, m) ==
  \A k \in DOMAIN l.hosts, j \in DOMAIN m.hosts :
    l.hosts[k].id = m.hosts[j].id /\ l.hosts[k].active # m.hosts[j].active => l.hosts[k].id = id

\* host_set_active: a host that is started takes no port in use, and no other
\* host is switched.
LEMMA HostSwitchStep ==
  ASSUME NEW l \in SoundLists, ~l.thrown, PortsFree(l.hosts, foreign, web), NEW id, NEW active \in BOOLEAN,
         NEW m, m = HostsSwitched(l, id, active)
  PROVE  /\ m \in SoundLists /\ ~m.thrown /\ Follows(l, m)
         /\ PortsFree(m.hosts, foreign, web) /\ (Up(l) => Up(m)) /\ SwitchesOnly(id, l, m)
<1>1. /\ l \in ListsType /\ l.hosts \in Seq(HostType) /\ l.hostids \in Nat /\ l.thrown \in BOOLEAN
      /\ HostsSound(l.hosts, l.hostids) /\ ClientsSound(l.clients)
  BY ListsFields, Zenon DEF SoundLists
<1>2. PICK hs : hs = [k \in DOMAIN l.hosts |-> set_host_active(l.hosts[k], id, active, InUse(l.hosts))]
  OBVIOUS
<1>3. DOMAIN hs = DOMAIN l.hosts /\ hs = [k \in DOMAIN l.hosts |-> hs[k]]
      /\ \A k \in DOMAIN l.hosts : hs[k] = set_host_active(l.hosts[k], id, active, InUse(l.hosts))
  BY <1>2
<1>4. ASSUME NEW k \in DOMAIN l.hosts
      PROVE  /\ hs[k] \in SoundHosts /\ hs[k].id = l.hosts[k].id /\ hs[k].port = l.hosts[k].port
             /\ l.hosts[k].id # id => hs[k] = l.hosts[k]
             /\ l.hosts[k].id = id => hs[k].running \/ ~hs[k].active \/ hs[k].acceptor = "open"
             /\ hs[k].running => l.hosts[k].running \/ l.hosts[k].port \notin InUse(l.hosts)
  <2>1. l.hosts[k] \in SoundHosts
    BY <1>1, Zenon DEF HostsSound
  <2>2. IsSwitched(hs[k], l.hosts[k], id, InUse(l.hosts))
    BY <1>3, <2>1, HostSwitched, Zenon
  <2> QED BY <2>2, Zenon DEF IsSwitched
<1>5. hs \in Seq(HostType)
  <2>1. \A k \in DOMAIN l.hosts : hs[k] \in HostType
    BY <1>4, Zenon DEF SoundHosts
  <2> QED BY <1>1, <1>3, <2>1, SameLength
<1>6. m = With(l, hs, l.hostids, l.thrown)
  <2>1. m = [l EXCEPT !.hosts = hs]
    BY <1>2, Zenon DEF HostsSwitched
  <2> QED BY <1>1, <2>1, ListsFields, Zenon
<1>7. m \in ListsType /\ m.hosts = hs /\ m.hostids = l.hostids /\ m.clients = l.clients /\ m.thrown = l.thrown
  <2>1. /\ With(l, hs, l.hostids, l.thrown) \in ListsType /\ With(l, hs, l.hostids, l.thrown).hosts = hs
        /\ With(l, hs, l.hostids, l.thrown).hostids = l.hostids
        /\ With(l, hs, l.hostids, l.thrown).clients = l.clients
        /\ With(l, hs, l.hostids, l.thrown).thrown = l.thrown
    <3>1. l \in ListsType /\ l.hostids \in Nat /\ l.thrown \in BOOLEAN
      BY <1>1, Zenon
    <3> QED BY <1>5, <3>1, WithFields
  <2> QED BY <1>6, <2>1, Zenon
<1>8. HostsSound(hs, l.hostids)
  <2>1. \A k \in DOMAIN hs : hs[k] \in SoundHosts /\ hs[k].id \in 1 .. l.hostids
    BY <1>1, <1>3, <1>4, Zenon DEF HostsSound
  <2>2. \A k, j \in DOMAIN hs : hs[k].id = hs[j].id => k = j
    BY <1>1, <1>3, <1>4, Zenon DEF HostsSound
  <2>3. \A k, j \in DOMAIN hs : hs[k].port = hs[j].port /\ hs[k].port # 0 => k = j
    BY <1>1, <1>3, <1>4, Zenon DEF HostsSound
  <2> QED BY <2>1, <2>2, <2>3, Zenon DEF HostsSound
<1>9. m \in SoundLists /\ ~m.thrown
  BY <1>1, <1>7, <1>8, Zenon DEF SoundLists
<1>10. Follows(l, m)
  <2>1. m.hostids >= l.hostids
    BY <1>1, <1>7
  <2> QED BY <1>3, <1>4, <1>7, <2>1, Zenon DEF Follows
<1>11. PortsFree(hs, foreign, web)
  <2> SUFFICES ASSUME NEW k \in DOMAIN hs, hs[k].running, hs[k].port # 0
               PROVE  hs[k].port \notin foreign \cup {web}
    BY Zenon DEF PortsFree
  <2>1. hs[k].port = l.hosts[k].port /\ (l.hosts[k].running \/ l.hosts[k].port \notin InUse(l.hosts))
    BY <1>3, <1>4, Zenon
  <2>2. CASE l.hosts[k].running
    BY <1>3, <2>1, <2>2, Zenon DEF PortsFree
  <2>3. CASE l.hosts[k].port \notin InUse(l.hosts)
    BY <2>1, <2>3, Zenon DEF InUse
  <2> QED BY <2>1, <2>2, <2>3, Zenon
<1>12. ASSUME Up(l) PROVE Up(m)
  <2>1. ASSUME NEW k \in DOMAIN m.hosts
        PROVE  m.hosts[k].running \/ ~m.hosts[k].active \/ m.hosts[k].acceptor = "open"
    <3>1. k \in DOMAIN l.hosts /\ m.hosts[k] = hs[k]
      BY <1>3, <1>7, Zenon
    <3> QED BY <1>4, <1>12, <3>1, Zenon DEF Up
  <2> QED BY <1>7, <1>12, <2>1, Zenon DEF Up
<1>13. ASSUME NEW k \in DOMAIN l.hosts, NEW j \in DOMAIN m.hosts, l.hosts[k].id = m.hosts[j].id,
              l.hosts[k].id # id
       PROVE  l.hosts[k].active = m.hosts[j].active
  <2>1. j \in DOMAIN l.hosts /\ m.hosts[j] = hs[j]
    BY <1>3, <1>7, Zenon
  <2>2. l.hosts[k].id = l.hosts[j].id
    BY <1>4, <1>13, <2>1, Zenon
  <2>3. k = j
    BY <1>1, <2>1, <2>2, Zenon DEF HostsSound
  <2> QED BY <1>4, <1>13, <2>1, <2>3, Zenon
<1>14. SwitchesOnly(id, l, m)
  BY <1>13, Zenon DEF SwitchesOnly
<1> QED
  BY <1>7, <1>9, <1>10, <1>11, <1>12, <1>14, Zenon

\* The lists after a client was switched.
ClientsSwitched(l, id, active) ==
  [l EXCEPT !.clients = [k \in DOMAIN @ |-> set_active(@[k], id, active)]]

\* client_set_active: the hosts stay as they are.
LEMMA ClientSwitchStep ==
  ASSUME NEW l \in SoundLists, ~l.thrown, NEW id, NEW active \in BOOLEAN,
         NEW m, m = ClientsSwitched(l, id, active)
  PROVE  m \in Successors(l) /\ m.hosts = l.hosts /\ (Up(l) => Up(m))
<1>1. /\ l \in ListsType /\ l.clients \in Seq(ClientType) /\ l.hostids \in Nat /\ l.thrown \in BOOLEAN
      /\ HostsSound(l.hosts, l.hostids) /\ ClientsSound(l.clients)
  BY ListsFields, Zenon DEF SoundLists
<1>2. PICK cs : cs = [k \in DOMAIN l.clients |-> set_active(l.clients[k], id, active)]
  OBVIOUS
<1>3. DOMAIN cs = DOMAIN l.clients /\ cs = [k \in DOMAIN l.clients |-> cs[k]]
      /\ \A k \in DOMAIN l.clients : cs[k] = set_active(l.clients[k], id, active)
  BY <1>2
<1>4. ASSUME NEW k \in DOMAIN l.clients
      PROVE  cs[k] \in SoundClients /\ (cs[k] = l.clients[k] \/ cs[k].running = cs[k].active)
  <2>1. PICK c : c = l.clients[k]
    OBVIOUS
  <2>2. c \in SoundClients /\ c \in ClientType
    BY <1>1, <2>1, Zenon DEF ClientsSound, SoundClients
  <2>3. cs[k] = c \/ cs[k] = [c EXCEPT !.active = active, !.running = active]
    BY <1>3, <2>1 DEF set_active
  <2>4. PICK r : r = [c EXCEPT !.active = active, !.running = active]
    OBVIOUS
  <2>5. r \in ClientType /\ r.running = r.active
    BY <2>2, <2>4 DEF ClientType
  <2>6. r \in SoundClients
    BY <2>5, Zenon DEF SoundClients
  <2> QED BY <2>1, <2>2, <2>3, <2>4, <2>5, <2>6, Zenon
<1>5. cs \in Seq(ClientType)
  <2>1. \A k \in DOMAIN l.clients : cs[k] \in ClientType
    BY <1>4, Zenon DEF SoundClients
  <2> QED BY <1>1, <1>3, <2>1, SameLength
<1>6. m = [l EXCEPT !.clients = cs]
  BY <1>2, Zenon DEF ClientsSwitched
<1>7. m \in ListsType /\ m.clients = cs /\ m.hosts = l.hosts /\ m.hostids = l.hostids /\ m.thrown = l.thrown
  BY <1>1, <1>5, <1>6 DEF ListsType
<1>8. m \in SoundLists /\ ~m.thrown
  BY <1>1, <1>3, <1>4, <1>7, Zenon DEF SoundLists, ClientsSound
<1>9. Follows(l, m) /\ SameSwitch(l, m)
  <2>1. m.hostids >= l.hostids
    BY <1>1, <1>7
  <2>2. SameSwitch(l, l)
    BY SameSwitchIs, Zenon
  <2>3. Follows(l, m)
    BY <1>7, <2>1, Zenon DEF Follows
  <2>4. SameSwitch(l, m)
    <3>1. m.hosts = l.hosts
      BY <1>7, Zenon
    <3> QED BY <2>2, <3>1 DEF SameSwitch
  <2> QED BY <2>3, <2>4, Zenon
<1>10. Up(l) => Up(m)
  BY <1>3, <1>4, <1>7, Zenon DEF Up
<1> QED
  BY <1>7, <1>8, <1>9, <1>10, Zenon DEF Successors

\* stopall.
LEMMA StopAllStep ==
  ASSUME NEW l \in SoundLists,
         NEW m, m = [l EXCEPT !.hosts = <<>>, !.clients = <<>>, !.thrown = FALSE]
  PROVE  m \in Successors(l) /\ \A others, server : PortsFree(m.hosts, others, server)
<1>1. l \in ListsType /\ l.hostids \in Nat /\ l.clientids \in Nat
  BY ListsFields, Zenon DEF SoundLists
<1>2. m = [hosts |-> <<>>, clients |-> <<>>, hostids |-> l.hostids, clientids |-> l.clientids, thrown |-> FALSE]
  BY <1>1 DEF ListsType
<1>3. <<>> \in Seq(HostType) /\ <<>> \in Seq(ClientType)
  OBVIOUS
<1>4. m \in ListsType /\ m.hosts = <<>> /\ m.clients = <<>> /\ m.hostids = l.hostids /\ ~m.thrown
  BY <1>1, <1>2, <1>3 DEF ListsType
<1>5. (\A k \in DOMAIN m.hosts : FALSE) /\ (\A k \in DOMAIN m.clients : FALSE)
  BY <1>4
<1>6. m \in SoundLists
  BY <1>4, <1>5, Zenon DEF SoundLists, HostsSound, ClientsSound
<1>7. m.hostids >= l.hostids
  BY <1>1, <1>4
<1> QED
  BY <1>4, <1>5, <1>6, <1>7, Zenon DEF Successors, Follows, SameSwitch, PortsFree

------------------------------------------------------------------------------
(* Steps of the workers *)

\* Worker w is at step, the others are where they were.
Moved(w, step) ==
  /\ worker' \in [Workers -> WorkerType] /\ worker'[w].at = step
  /\ \A v \in Workers \ {w} : worker'[v] = worker[v]

Steps == {"idle", "parse", "copy", "unpopulate", "stopping", "populate", "start", "testing"}
InPlace == {"unpopulate", "stopping", "populate"}

\* A worker that goes on with its document.
LEMMA GotoIs ==
  ASSUME TypeOK, NEW w \in Workers, NEW step \in Steps, Goto(w, step)
  PROVE  Moved(w, step) /\ worker'[w].doc = worker[w].doc
<1>1. worker \in [Workers -> WorkerType] /\ worker' = [worker EXCEPT ![w].at = step]
  BY Zenon DEF TypeOK, Goto
<1> QED
  BY <1>1 DEF Moved, WorkerType, Steps

\* A worker whose request is done.
LEMMA DoneIs ==
  ASSUME TypeOK, NEW w \in Workers, Done(w)
  PROVE  Moved(w, "idle")
<1>1. worker \in [Workers -> WorkerType] /\ worker' = [worker EXCEPT ![w] = Idle] /\ file \in DOMAIN Documents
  BY Zenon DEF TypeOK, Done
<1>2. Idle \in WorkerType /\ Idle.at = "idle"
  <2>1. PICK d : d = CHOOSE f \in DOMAIN Documents : TRUE
    OBVIOUS
  <2>2. d \in DOMAIN Documents
    BY <1>1, <2>1, Zenon
  <2>3. Idle = [at |-> "idle", doc |-> d]
    BY <2>1, Zenon DEF Idle
  <2> QED BY <2>2, <2>3 DEF WorkerType
<1> QED
  BY <1>1, <1>2 DEF Moved

\* A worker that is not idle is a worker of a server that runs.
LEMMA BusyServes ==
  ASSUME ServerDown, NEW w \in Workers, worker[w].at # "idle"
  PROVE  pc = "serving"
BY Zenon DEF ServerDown, AllIdle

\* The uploads in place after a worker moved on.
LEMMA UploadsGoOn ==
  ASSUME ExchangeOK, settings.uniproxies \subseteq settings'.uniproxies, NEW w \in Workers, NEW step, Moved(w, step),
         step \in InPlace => worker'[w].doc = worker[w].doc /\ worker[w].at \in InPlace
  PROVE  \A v \in Workers : UploadAdds(v)'
<1> SUFFICES ASSUME NEW v \in Workers PROVE UploadAdds(v)'
  OBVIOUS
<1>1. UploadAdds(v)
  BY Zenon DEF ExchangeOK
<1>2. CASE v = w
  <2>1. worker'[w].at = step
    BY Zenon DEF Moved
  <2> QED BY <1>1, <1>2, <2>1 DEF UploadAdds, InPlace
<1>3. CASE v # w
  <2>1. worker'[v] = worker[v]
    BY <1>3, Zenon DEF Moved
  <2> QED BY <1>1, <2>1 DEF UploadAdds
<1> QED
  BY <1>2, <1>3, Zenon

\* While main() is not in run(): nothing is asked of the server.
LEMMA Down ==
  ASSUME AllIdle, worker' = worker, pc' # "serving"
  PROVE  ServerDown' /\ StartDue' /\ ExchangeOK'
<1>1. \A w \in Workers : worker'[w].at = "idle"
  BY Zenon DEF AllIdle
<1> QED
  BY <1>1 DEF ServerDown, StartDue, ExchangeOK, UploadAdds, AllIdle

\* A step that changes neither the lists nor the settings.
Steady ==
  /\ lists' = lists /\ settings' = settings /\ exchange' = exchange /\ pc' = pc /\ web' = web
  /\ foreign' \subseteq foreign
  /\ timer \/ shut => timer' \/ shut'
  /\ pc = "serving" \/ worker' = worker
  /\ \A v \in Workers : worker[v].at = "start" => worker'[v].at = "start"
  /\ \A v \in Workers : UploadAdds(v)'

\* It disturbs nothing.
LEMMA SteadyKeeps ==
  ASSUME ListsOK, ServerDown, StartDue, ExchangeOK, Steady
  PROVE  ListsOK' /\ ServerDown' /\ StartDue' /\ ExchangeOK'
<1>1. ListsOK'
  BY Zenon DEF ListsOK, Steady, PortsFree
<1>2. ServerDown'
  BY Zenon DEF ServerDown, Steady, AllIdle
<1>3. StartDue'
  BY Zenon DEF StartDue, Steady
<1>4. ExchangeOK'
  BY Zenon DEF ExchangeOK, Steady
<1> QED
  BY <1>1, <1>2, <1>3, <1>4

\* Entries of the status page after the lists changed.
LEMMA PageFollows ==
  ASSUME TypeOK, PageOK, page' = page, lists \in SoundLists, lists' \in SoundLists, Follows(lists, lists')
  PROVE  PageOK'
<1> SUFFICES ASSUME NEW p \in page, p.kind = "host"
             PROVE  Shown(p, lists')
  BY Zenon DEF PageOK
<1>1. p.id \in Nat
  BY DEF TypeOK, StatusType
<1>2. lists.hostids \in Nat /\ lists'.hostids \in Nat
  BY ListsFields, Zenon DEF SoundLists
<1>3. p.id <= lists.hostids /\ \A k \in DOMAIN lists.hosts : lists.hosts[k].id = p.id => lists.hosts[k].port = p.port
  BY Zenon DEF PageOK, Shown
<1>4. p.id <= lists'.hostids
  BY <1>1, <1>2, <1>3 DEF Follows
<1>5. ASSUME NEW j \in DOMAIN lists'.hosts, lists'.hosts[j].id = p.id
      PROVE  lists'.hosts[j].port = p.port
  <2>1. ~(lists'.hosts[j].id > lists.hostids)
    BY <1>1, <1>2, <1>3, <1>5
  <2>2. PICK k \in DOMAIN lists.hosts : /\ lists.hosts[k].id = lists'.hosts[j].id
                                        /\ lists.hosts[k].port = lists'.hosts[j].port
    BY <2>1, Zenon DEF Follows
  <2> QED BY <1>3, <1>5, <2>2, Zenon
<1> QED
  BY <1>4, <1>5, Zenon DEF Shown

------------------------------------------------------------------------------
(* Init *)

\* The program as it starts.
LEMMA InitInv == Init => Inv
<1> SUFFICES ASSUME Init PROVE Inv
  OBVIOUS
<1>1. /\ pc = "load" /\ exit_code = 0 /\ ~reload /\ ~shut /\ ~timer /\ openssl_count = 0
      /\ file \in FirstFiles /\ upload = file
      /\ settings = Settings("", {}, ActivatePort, WebPort, FALSE)
      /\ lists = NoLists /\ activation = 0 /\ web = 0 /\ exchange = {} /\ foreign \subseteq ForeignPorts
      /\ worker = [w \in Workers |-> Idle] /\ ~locked /\ inside = {} /\ ~undefined /\ page = {} /\ ~raced
  BY DEF Init, Settings
<1>2. reload \in BOOLEAN /\ shut \in BOOLEAN /\ timer \in BOOLEAN /\ locked \in BOOLEAN /\ undefined \in BOOLEAN
      /\ raced \in BOOLEAN
  BY Zenon DEF Init
<1>3. file \in DOMAIN Documents
  BY <1>1, DocumentsAssumption, Zenon
<1>4. worker \in [Workers -> WorkerType] /\ \A w \in Workers : worker[w].at = "idle"
  <2>1. PICK d : d = CHOOSE f \in DOMAIN Documents : TRUE
    OBVIOUS
  <2>2. d \in DOMAIN Documents
    BY <1>3, <2>1, Zenon
  <2>3. Idle = [at |-> "idle", doc |-> d]
    BY <2>1, Zenon DEF Idle
  <2> QED BY <1>1, <2>2, <2>3 DEF WorkerType
<1>5. settings \in SettingsType /\ ~settings.thrown
  <2>1. ActivatePort \in Port /\ WebPort \in Port
    BY PortFacts, Zenon
  <2>2. {} \subseteq LocalType
    OBVIOUS
  <2>3. FALSE \in BOOLEAN
    OBVIOUS
  <2>4. "" \in Text
    BY DEF Text
  <2>5. ASSUME NEW t \in BOOLEAN
        PROVE  Settings("", {}, ActivatePort, WebPort, t) \in SettingsType
               /\ Settings("", {}, ActivatePort, WebPort, t).thrown = t
    BY <2>1, <2>2, <2>4 DEF Settings, SettingsType
  <2> QED BY <1>1, <2>3, <2>5, Zenon
<1>6. lists \in ListsType /\ ~lists.thrown /\ lists.hosts = <<>> /\ lists.clients = <<>>
  <2>1. <<>> \in Seq(HostType) /\ <<>> \in Seq(ClientType)
    OBVIOUS
  <2>2. ASSUME NEW t \in BOOLEAN,
               NEW l, l = [hosts |-> <<>>, clients |-> <<>>, hostids |-> 0, clientids |-> 0, thrown |-> t]
        PROVE  l \in ListsType /\ l.thrown = t /\ l.hosts = <<>> /\ l.clients = <<>>
    BY <2>1, <2>2 DEF ListsType
  <2>3. FALSE \in BOOLEAN
    OBVIOUS
  <2> QED BY <1>1, <2>2, <2>3, Zenon DEF NoLists
<1>7. (\A k \in DOMAIN lists.hosts : FALSE) /\ (\A k \in DOMAIN lists.clients : FALSE)
  BY <1>6
<1>8. lists \in SoundLists /\ PortsFree(lists.hosts, foreign, web)
  BY <1>6, <1>7, Zenon DEF SoundLists, HostsSound, ClientsSound, PortsFree
<1>9. TypeOK
  <2>1. activation \in Port /\ web \in Port /\ openssl_count \in 0 .. 3 /\ exit_code \in {0, 1}
    <3>1. 0 \in Port /\ 0 \in 0 .. 3 /\ 0 \in {0, 1}
      BY PortFacts
    <3> QED BY <1>1, <3>1, Zenon
  <2>2. exchange \subseteq LocalType /\ inside \subseteq Workers /\ page \subseteq StatusType
    BY <1>1, Zenon
  <2>3. pc \in {"load", "lock", "serving", "again", "stopped"}
    BY <1>1, Zenon
  <2> QED BY <1>1, <1>2, <1>3, <1>4, <1>5, <1>6, <2>1, <2>2, <2>3, Zenon DEF TypeOK
<1>10. ServerDown /\ StartDue /\ ExchangeOK /\ PageOK
  BY <1>1, <1>4 DEF ServerDown, StartDue, ExchangeOK, UploadAdds, AllIdle, PageOK
<1> QED
  BY <1>8, <1>9, <1>10, Zenon DEF Inv, ListsOK

------------------------------------------------------------------------------
(* Steps of main() *)

\* The settings as a load leaves them.
LEMMA LoadedTyped ==
  ASSUME TypeOK
  PROVE  /\ Loaded \in SettingsType /\ Cleared(Loaded) \in SettingsType /\ ~Cleared(Loaded).thrown
<1>1. settings \in SettingsType /\ file \in DOMAIN Documents
  BY Zenon DEF TypeOK
<1>2. DocumentParsed(Doc(file))
  BY <1>1, DocumentsAssumption, Zenon DEF Doc
<1>3. PopulateConfig(settings, Doc(file)) \in SettingsType
  BY <1>1, <1>2, ConfigTyped, Zenon
<1>4. Loaded \in SettingsType
  BY <1>1, <1>3, Zenon DEF Loaded
<1> QED
  BY <1>4, ClearedSettings, Zenon

\* Only main() moves at a load, and no worker is busy.
LEMMA AtLoadKeeps ==
  ASSUME Inv, AtLoad, pc' \in {"lock", "again"}
  PROVE  ServerDown' /\ StartDue' /\ ExchangeOK'
<1>1. pc = "load" /\ worker' = worker
  BY DEF AtLoad
<1>2. AllIdle
  BY <1>1, Zenon DEF Inv, ServerDown
<1>3. pc' # "serving"
  OBVIOUS
<1> QED
  BY <1>1, <1>2, <1>3, Down, Zenon

\* What a load leaves alone.
LEMMA AtLoadFrame ==
  ASSUME AtLoad
  PROVE  /\ exit_code' = exit_code /\ shut' = shut /\ timer' = timer /\ file' = file /\ upload' = upload
         /\ activation' = activation /\ web' = web /\ foreign' = foreign /\ exchange' = exchange
         /\ worker' = worker /\ locked' = locked /\ inside' = inside /\ undefined' = undefined
         /\ page' = page /\ raced' \in BOOLEAN
<1>1. raced' \in BOOLEAN
  BY Zenon DEF AtLoad
<1>2. UNCHANGED <<exit_code, shut, timer, file, upload, uploads, ports, worker, mutex, page, commands>>
  BY Zenon DEF AtLoad
<1> QED
  BY <1>1, <1>2 DEF ports, mutex

\* load_configuration ends with an exception.
LEMMA LoadFailsInv == Inv /\ LoadFails => Inv'
<1> SUFFICES ASSUME Inv, LoadFails PROVE Inv'
  OBVIOUS
<1>1. TypeOK /\ ListsOK /\ PageOK
  BY Zenon DEF Inv
<1>2. AtLoad /\ settings' = Cleared(Loaded) /\ pc' = "lock" /\ reload' = FALSE
      /\ UNCHANGED <<openssl_count, own, lists>>
  BY Zenon DEF LoadFails
<1>3. openssl_count' = openssl_count /\ lists' = lists
  BY <1>2
<1>4. reload' \in BOOLEAN /\ pc' \in {"lock", "again"} /\ pc' \in {"load", "lock", "serving", "again", "stopped"}
  BY <1>2, Zenon
<1>5. settings' \in SettingsType /\ ~settings'.thrown
  BY <1>1, <1>2, LoadedTyped, Zenon
<1>6. TypeOK'
  BY <1>1, <1>2, <1>3, <1>4, <1>5, AtLoadFrame, Zenon DEF TypeOK
<1>7. ListsOK' /\ PageOK'
  BY <1>1, <1>2, <1>3, AtLoadFrame, Zenon DEF ListsOK, PageOK
<1> QED
  BY <1>2, <1>4, <1>6, <1>7, AtLoadKeeps, Zenon DEF Inv

\* load_configuration makes a key and asks for another load.
LEMMA LoadGeneratesInv == Inv /\ LoadGenerates => Inv'
<1> SUFFICES ASSUME Inv, LoadGenerates PROVE Inv'
  OBVIOUS
<1>1. TypeOK /\ ListsOK /\ PageOK
  BY Zenon DEF Inv
<1>2. AtLoad /\ settings' = Cleared(Loaded) /\ pc' = "again" /\ reload' = TRUE /\ lists' = lists
      /\ openssl_count' = IF openssl_count < 3 THEN openssl_count + 1 ELSE 3
  BY DEF LoadGenerates
<1>3. openssl_count' \in 0 .. 3
  <2>1. openssl_count \in 0 .. 3
    BY <1>1, Zenon DEF TypeOK
  <2> QED BY <1>2, <2>1
<1>4. reload' \in BOOLEAN /\ pc' \in {"lock", "again"} /\ pc' \in {"load", "lock", "serving", "again", "stopped"}
  BY <1>2, Zenon
<1>5. settings' \in SettingsType /\ ~settings'.thrown
  BY <1>1, <1>2, LoadedTyped, Zenon
<1>6. TypeOK'
  BY <1>1, <1>2, <1>3, <1>4, <1>5, AtLoadFrame, Zenon DEF TypeOK
<1>7. ListsOK' /\ PageOK'
  BY <1>1, <1>2, <1>3, AtLoadFrame, Zenon DEF ListsOK, PageOK
<1> QED
  BY <1>2, <1>4, <1>6, <1>7, AtLoadKeeps, Zenon DEF Inv

\* load_configuration fills the lists; what was listed before stays.
LEMMA LoadPopulatesInv ==
  ASSUME Inv, LoadPopulates
  PROVE  Inv' /\ lists' \in Successors(lists)
<1>1. TypeOK /\ lists \in SoundLists /\ PortsFree(lists.hosts, foreign, web) /\ ~lists.thrown /\ PageOK
  BY Zenon DEF Inv, ListsOK, TypeOK
<1>2. AtLoad /\ settings' = Cleared(Loaded) /\ pc' = "lock" /\ reload' = FALSE
      /\ lists' = Cleared(Filled(lists, Loaded, own.cert, own'))
      /\ (openssl_count' = openssl_count \/ openssl_count' = 3)
  BY DEF LoadPopulates
<1>3. openssl_count' \in 0 .. 3
  <2>1. openssl_count \in 0 .. 3
    BY <1>1, Zenon DEF TypeOK
  <2> QED BY <1>2, <2>1
<1>4. reload' \in BOOLEAN /\ pc' \in {"lock", "again"} /\ pc' \in {"load", "lock", "serving", "again", "stopped"}
  BY <1>2, Zenon
<1>5. settings' \in SettingsType /\ ~settings'.thrown
  BY <1>1, <1>2, LoadedTyped, Zenon
<1>6. lists' \in Successors(lists) /\ PortsFree(lists'.hosts, foreign, web)
  <2>1. CASE Loaded.name = own.cert
    <3>1. PICK ok \in BOOLEAN : ok = KeyOk(own')
      BY DEF KeyOk
    <3>2. lists' = Cleared(PopulateLists(lists, Doc(file), ok))
      BY <1>2, <2>1, <3>1, Zenon DEF Filled
    <3>3. DocumentParsed(Doc(file))
      BY <1>1, DocumentsAssumption, Zenon DEF Doc, TypeOK
    <3> QED BY <1>1, <3>2, <3>3, PopulateStep, Zenon
  <2>2. CASE Loaded.name # own.cert
    <3>1. lists' = Cleared(lists)
      BY <1>2, <2>2, Zenon DEF Filled
    <3>2. lists' = lists
      BY <1>1, <3>1, ClearedSound, Zenon
    <3> QED BY <1>1, <3>2, Unchanged, Zenon
  <2> QED BY <2>1, <2>2, Zenon
<1>7. lists' \in SoundLists /\ ~lists'.thrown /\ Follows(lists, lists') /\ lists' \in ListsType
  BY <1>6, Zenon DEF Successors, SoundLists
<1>8. TypeOK'
  BY <1>1, <1>2, <1>3, <1>4, <1>5, <1>7, AtLoadFrame, Zenon DEF TypeOK
<1>9. ListsOK'
  BY <1>2, <1>6, <1>7, AtLoadFrame, Zenon DEF ListsOK
<1>10. PageOK'
  BY <1>1, <1>2, <1>7, AtLoadFrame, PageFollows, Zenon
<1> QED
  BY <1>2, <1>4, <1>6, <1>8, <1>9, <1>10, AtLoadKeeps, Zenon DEF Inv

\* lock() and the web server: what is listed is up, or main() goes on.
LEMMA LockInv ==
  ASSUME Inv, Lock
  PROVE  Inv' /\ lists' \in Successors(lists)
<1>1. TypeOK /\ lists \in SoundLists /\ PortsFree(lists.hosts, foreign, web) /\ ~lists.thrown /\ PageOK
  BY Zenon DEF Inv, ListsOK, TypeOK
<1>2. pc = "lock" /\ reload' = FALSE
      /\ UNCHANGED <<shut, timer, openssl_count, own, files, settings, worker, mutex, page, commands>>
  BY Zenon DEF Lock
<1>3. /\ shut' = shut /\ timer' = timer /\ openssl_count' = openssl_count /\ file' = file /\ upload' = upload
      /\ raced' = raced /\ settings' = settings /\ worker' = worker /\ locked' = locked /\ inside' = inside
      /\ undefined' = undefined /\ page' = page
  BY <1>2 DEF files, mutex
<1>4. AllIdle
  BY <1>2, Zenon DEF Inv, ServerDown
<1>5. PICK l : l = StartAll(lists)
  OBVIOUS
<1>6. /\ l \in SoundLists /\ Cleared(l) \in Successors(lists) /\ PortsFree(Cleared(l).hosts, foreign, web)
      /\ ~l.thrown => Cleared(l) = l /\ Up(l)
  BY <1>1, <1>5, StartStep, Zenon
<1>7. ASSUME pc' \in {"again", "serving"}, exit_code' \in {0, 1}, activation' \in Port, web' \in Port,
             foreign' = foreign, exchange' \subseteq LocalType, lists' \in Successors(lists)
      PROVE  TypeOK' /\ PageOK'
  <2>1. lists' \in SoundLists /\ ~lists'.thrown /\ Follows(lists, lists') /\ lists' \in ListsType
    BY <1>7, Zenon DEF Successors, SoundLists
  <2>2. reload' \in BOOLEAN
    BY <1>2, Zenon
  <2>3. pc' \in {"load", "lock", "serving", "again", "stopped"}
    BY <1>7, Zenon
  <2>4. TypeOK'
    BY <1>1, <1>3, <1>7, <2>1, <2>2, <2>3, Zenon DEF TypeOK
  <2>5. PageOK'
    BY <1>1, <1>3, <2>1, PageFollows, Zenon
  <2> QED BY <2>4, <2>5, Zenon
<1>8. CASE l.thrown
  <2>1. pc' = "again" /\ exit_code' = 1 /\ lists' = Cleared(l) /\ UNCHANGED ports
    BY <1>5, <1>8, Zenon DEF Lock
  <2>2. activation' = activation /\ web' = web /\ foreign' = foreign /\ exchange' = exchange
    BY <2>1 DEF ports
  <2>3. activation' \in Port /\ web' \in Port /\ exchange' \subseteq LocalType
    BY <1>1, <2>2, Zenon DEF TypeOK
  <2>4. pc' \in {"again", "serving"} /\ exit_code' \in {0, 1} /\ lists' \in Successors(lists)
    BY <1>6, <2>1, Zenon
  <2>5. ListsOK'
    BY <1>6, <2>1, <2>2, Zenon DEF ListsOK, Successors
  <2>6. pc' # "serving"
    BY <2>1
  <2>7. ServerDown' /\ StartDue' /\ ExchangeOK'
    BY <1>3, <1>4, <2>6, Down, Zenon
  <2> QED BY <1>7, <2>2, <2>3, <2>4, <2>5, <2>7, Zenon DEF Inv
<1>9. CASE ~l.thrown /\ settings.web_port \in InUse(l.hosts)
  <2>1. pc' = "again" /\ exit_code' = 1 /\ stopall /\ client_certificate_exchange_unlock
    BY <1>5, <1>9, Zenon DEF Lock
  <2>2. /\ lists' = [lists EXCEPT !.hosts = <<>>, !.clients = <<>>, !.thrown = FALSE]
        /\ activation' = 0 /\ web' = 0 /\ foreign' = foreign /\ exchange' = {}
    BY <2>1 DEF stopall, client_certificate_exchange_unlock
  <2>3. activation' \in Port /\ web' \in Port /\ exchange' \subseteq LocalType
    <3>1. 0 \in Port
      BY PortFacts, Zenon
    <3> QED BY <2>2, <3>1, Zenon
  <2>4. lists' \in Successors(lists) /\ PortsFree(lists'.hosts, foreign', web')
    BY <1>1, <2>2, StopAllStep, Zenon
  <2>5. pc' \in {"again", "serving"} /\ exit_code' \in {0, 1}
    BY <2>1, Zenon
  <2>6. ListsOK'
    BY <2>4, Zenon DEF ListsOK, Successors
  <2>7. pc' # "serving"
    BY <2>1
  <2>8. ServerDown' /\ StartDue' /\ ExchangeOK'
    BY <1>3, <1>4, <2>7, Down, Zenon
  <2> QED BY <1>7, <2>2, <2>3, <2>4, <2>5, <2>6, <2>8, Zenon DEF Inv
<1>10. CASE ~l.thrown /\ settings.web_port \notin InUse(l.hosts)
  <2>1. pc' = "serving" /\ exit_code' = 0 /\ lists' = l /\ activation' = ActivationStarted
        /\ web' = settings.web_port /\ client_certificate_exchange_start /\ UNCHANGED foreign
    BY <1>5, <1>10, Zenon DEF Lock
  <2>2. foreign' = foreign /\ exchange' = settings.uniproxies
    BY <2>1, Zenon DEF client_certificate_exchange_start
  <2>3. settings.web_port \in Port /\ settings.activate_port \in Port /\ settings.uniproxies \subseteq LocalType
        /\ activation \in Port
    <3>1. settings \in SettingsType /\ activation \in Port
      BY <1>1, Zenon DEF TypeOK
    <3> QED BY <3>1 DEF SettingsType
  <2>4. activation' \in Port /\ web' \in Port /\ exchange' \subseteq LocalType
    BY <2>1, <2>2, <2>3, Zenon DEF ActivationStarted
  <2>5. lists' \in Successors(lists) /\ PortsFree(l.hosts, foreign, web) /\ Up(l)
    BY <1>6, <1>10, <2>1, Zenon
  <2>6. pc' \in {"again", "serving"} /\ exit_code' \in {0, 1}
    BY <2>1, Zenon
  <2>7. PortsFree(l.hosts, foreign, settings.web_port)
    <3> SUFFICES ASSUME NEW k \in DOMAIN l.hosts, l.hosts[k].running, l.hosts[k].port # 0
                 PROVE  l.hosts[k].port \notin foreign \cup {settings.web_port}
      BY Zenon DEF PortsFree
    <3>1. l.hosts[k].acceptor = "bound"
      BY <1>6, Zenon DEF SoundLists, HostsSound, SoundHosts
    <3>2. l.hosts[k].port \in InUse(l.hosts)
      BY <3>1, Zenon DEF InUse
    <3>3. l.hosts[k].port # settings.web_port
      BY <1>10, <3>2, Zenon
    <3>4. l.hosts[k].port \notin foreign
      BY <2>5, Zenon DEF PortsFree
    <3> QED BY <3>3, <3>4, Zenon
  <2>8. ListsOK'
    BY <1>6, <2>1, <2>2, <2>7, Zenon DEF ListsOK
  <2>9. ServerDown' /\ StartDue'
    BY <2>1, <2>5, Zenon DEF ServerDown, StartDue
  <2>10. ExchangeOK'
    <3>1. \A w \in Workers : worker'[w].at = "idle"
      BY <1>3, <1>4, Zenon DEF AllIdle
    <3>2. \A w \in Workers : UploadAdds(w)'
      BY <3>1 DEF UploadAdds
    <3> QED BY <1>3, <2>2, <3>2, Zenon DEF ExchangeOK
  <2> QED BY <1>7, <2>2, <2>4, <2>5, <2>6, <2>8, <2>9, <2>10, Zenon DEF Inv
<1> QED
  BY <1>8, <1>9, <1>10, Zenon

\* The server is down: everything is stopped.
LEMMA UnlockInv ==
  ASSUME Inv, Unlock
  PROVE  Inv' /\ lists' \in Successors(lists)
<1>1. TypeOK /\ lists \in SoundLists /\ PageOK
  BY Zenon DEF Inv, ListsOK
<1>2. AllIdle /\ client_certificate_exchange_unlock /\ stopall /\ pc' = "again" /\ shut' = FALSE /\ timer' = FALSE
      /\ UNCHANGED <<exit_code, reload, openssl_count, own, files, settings, worker, mutex, page, commands>>
  BY Zenon DEF Unlock
<1>3. /\ exit_code' = exit_code /\ reload' = reload /\ openssl_count' = openssl_count /\ file' = file /\ upload' = upload
      /\ raced' = raced /\ settings' = settings /\ worker' = worker /\ locked' = locked /\ inside' = inside
      /\ undefined' = undefined /\ page' = page
  BY <1>2 DEF files, mutex
<1>4. /\ lists' = [lists EXCEPT !.hosts = <<>>, !.clients = <<>>, !.thrown = FALSE]
      /\ activation' = 0 /\ web' = 0 /\ foreign' = foreign /\ exchange' = {}
  BY <1>2 DEF stopall, client_certificate_exchange_unlock
<1>5. activation' \in Port /\ web' \in Port /\ exchange' \subseteq LocalType /\ shut' \in BOOLEAN /\ timer' \in BOOLEAN
      /\ pc' \in {"load", "lock", "serving", "again", "stopped"}
  <2>1. 0 \in Port
    BY PortFacts, Zenon
  <2> QED BY <1>2, <1>4, <2>1, Zenon
<1>6. lists' \in Successors(lists) /\ PortsFree(lists'.hosts, foreign', web')
  BY <1>1, <1>4, StopAllStep, Zenon
<1>7. lists' \in SoundLists /\ ~lists'.thrown /\ Follows(lists, lists') /\ lists' \in ListsType
  BY <1>6, Zenon DEF Successors, SoundLists
<1>8. TypeOK'
  BY <1>1, <1>3, <1>4, <1>5, <1>7, Zenon DEF TypeOK
<1>9. PageOK'
  BY <1>1, <1>3, <1>7, PageFollows, Zenon
<1>10. pc' # "serving"
  BY <1>2
<1>11. ServerDown' /\ StartDue' /\ ExchangeOK'
  BY <1>2, <1>3, <1>10, Down, Zenon
<1> QED
  BY <1>6, <1>7, <1>8, <1>9, <1>11, Zenon DEF Inv, ListsOK

\* Another load, or the end.
LEMMA AgainInv ==
  ASSUME Inv, Again
  PROVE  Inv' /\ lists' \in Successors(lists)
<1>1. TypeOK /\ lists \in SoundLists /\ PortsFree(lists.hosts, foreign, web) /\ ~lists.thrown /\ PageOK
  BY Zenon DEF Inv, ListsOK, TypeOK
<1>2. pc = "again"
      /\ UNCHANGED <<exit_code, reload, shut, timer, openssl_count, own, files, settings, worker, mutex, page, commands>>
  BY Zenon DEF Again
<1>3. /\ exit_code' = exit_code /\ reload' = reload /\ openssl_count' = openssl_count /\ file' = file /\ upload' = upload
      /\ raced' = raced /\ settings' = settings /\ worker' = worker /\ locked' = locked /\ inside' = inside
      /\ undefined' = undefined /\ page' = page /\ shut' = shut /\ timer' = timer
  BY <1>2 DEF files, mutex
<1>4. AllIdle
  BY <1>2, Zenon DEF Inv, ServerDown
<1>5. /\ pc' \in {"load", "stopped"} /\ activation' \in Port /\ web' \in Port /\ foreign' = foreign /\ exchange' = exchange
      /\ lists' \in Successors(lists) /\ PortsFree(lists'.hosts, foreign', web')
  <2>1. CASE reload
    <3>1. pc' = "load" /\ UNCHANGED <<lists, ports>>
      BY <2>1, Zenon DEF Again
    <3>2. lists' = lists /\ activation' = activation /\ web' = web /\ foreign' = foreign /\ exchange' = exchange
      BY <3>1 DEF ports
    <3>3. activation \in Port /\ web \in Port
      BY <1>1, Zenon DEF TypeOK
    <3>4. lists \in Successors(lists)
      BY <1>1, Unchanged, Zenon
    <3> QED BY <1>1, <3>1, <3>2, <3>3, <3>4, Zenon
  <2>2. CASE ~reload
    <3>1. pc' = "stopped" /\ stopall /\ UNCHANGED exchange
      BY <2>2, Zenon DEF Again
    <3>2. /\ lists' = [lists EXCEPT !.hosts = <<>>, !.clients = <<>>, !.thrown = FALSE]
          /\ activation' = 0 /\ web' = 0 /\ foreign' = foreign /\ exchange' = exchange
      BY <3>1 DEF stopall
    <3>3. 0 \in Port
      BY PortFacts, Zenon
    <3>4. lists' \in Successors(lists) /\ PortsFree(lists'.hosts, foreign', web')
      BY <1>1, <3>2, StopAllStep, Zenon
    <3> QED BY <3>1, <3>2, <3>3, <3>4, Zenon
  <2> QED BY <2>1, <2>2, Zenon
<1>6. lists' \in SoundLists /\ ~lists'.thrown /\ Follows(lists, lists') /\ lists' \in ListsType
  BY <1>5, Zenon DEF Successors, SoundLists
<1>7. TypeOK'
  <2>1. pc' \in {"load", "lock", "serving", "again", "stopped"}
    BY <1>5, Zenon
  <2> QED BY <1>1, <1>3, <1>5, <1>6, <2>1, Zenon DEF TypeOK
<1>8. PageOK'
  BY <1>1, <1>3, <1>6, PageFollows, Zenon
<1>9. pc' # "serving"
  BY <1>5
<1>10. ServerDown' /\ StartDue' /\ ExchangeOK'
  BY <1>3, <1>4, <1>9, Down, Zenon
<1> QED
  BY <1>5, <1>6, <1>7, <1>8, <1>10, Zenon DEF Inv, ListsOK

\* The timer, SIGHUP, and a port that another program gives up.
LEMMA SignalInv ==
  ASSUME Inv, timeout_handle \/ Sighup \/ \E p \in ForeignPorts : PortFreed(p)
  PROVE  Inv' /\ lists' = lists
<1>1. TypeOK /\ ListsOK /\ ServerDown /\ StartDue /\ ExchangeOK /\ PageOK
  BY Zenon DEF Inv
<1>2. /\ pc' = pc /\ exit_code' = exit_code /\ openssl_count' = openssl_count /\ file' = file /\ upload' = upload
      /\ raced' = raced /\ settings' = settings /\ lists' = lists /\ activation' = activation /\ web' = web
      /\ exchange' = exchange /\ worker' = worker /\ locked' = locked /\ inside' = inside
      /\ undefined' = undefined /\ page' = page /\ foreign' \subseteq foreign
  <2>1. CASE timeout_handle
    BY <2>1 DEF timeout_handle, files, ports, mutex
  <2>2. CASE Sighup
    BY <2>2 DEF Sighup, files, ports, mutex
  <2>3. CASE \E p \in ForeignPorts : PortFreed(p)
    <3>1. PICK p \in ForeignPorts : PortFreed(p)
      BY <2>3
    <3> QED BY <3>1 DEF PortFreed, loop, files, mutex
  <2> QED BY <2>1, <2>2, <2>3, Zenon
<1>3. reload' \in BOOLEAN /\ shut' \in BOOLEAN /\ timer' \in BOOLEAN /\ (timer \/ shut => timer' \/ shut')
  <2>1. reload \in BOOLEAN /\ shut \in BOOLEAN /\ timer \in BOOLEAN
    BY <1>1, Zenon DEF TypeOK
  <2>2. CASE timeout_handle
    BY <2>2, Zenon DEF timeout_handle
  <2>3. CASE Sighup
    <3>1. reload' = TRUE /\ shut' = TRUE /\ timer' = timer
      BY <2>3 DEF Sighup
    <3> QED BY <2>1, <3>1, Zenon
  <2>4. CASE \E p \in ForeignPorts : PortFreed(p)
    <3>1. PICK p \in ForeignPorts : PortFreed(p)
      BY <2>4
    <3>2. reload' = reload /\ shut' = shut /\ timer' = timer
      BY <3>1 DEF PortFreed, loop
    <3> QED BY <2>1, <3>2, Zenon
  <2> QED BY <2>2, <2>3, <2>4, Zenon
<1>4. TypeOK'
  <2>1. foreign' \subseteq ForeignPorts
    BY <1>1, <1>2, Zenon DEF TypeOK
  <2> QED BY <1>1, <1>2, <1>3, <2>1, Zenon DEF TypeOK
<1>5. \A v \in Workers : UploadAdds(v)'
  BY <1>1, <1>2, Zenon DEF ExchangeOK, UploadAdds
<1>6. Steady
  BY <1>2, <1>3, <1>5, Zenon DEF Steady
<1>7. PageOK'
  BY <1>1, <1>2, Zenon DEF PageOK
<1> QED
  BY <1>1, <1>2, <1>4, <1>6, <1>7, SteadyKeeps, Zenon DEF Inv

------------------------------------------------------------------------------
(* Requests *)

\* Every section under m_mutex_list.
LEMMA SectionTyped ==
  ASSUME TypeOK, Section
  PROVE  locked' = locked /\ inside' = inside /\ undefined' \in BOOLEAN
<1>1. undefined' = (undefined \/ inside # {}) /\ UNCHANGED <<locked, inside>>
  BY Zenon DEF Section
<1>2. undefined' \in BOOLEAN
  BY <1>1, Zenon
<1> QED
  BY <1>1, <1>2

\* What no request changes.
Served ==
  /\ pc' = pc /\ exit_code' = exit_code /\ reload' = reload /\ openssl_count' = openssl_count /\ own' = own
  /\ web' = web /\ foreign' = foreign /\ exchange' = exchange

\* A request of the server that runs: the parts of the invariant that it may
\* disturb.
LEMMA ServedInv ==
  ASSUME Inv, pc = "serving", Served,
         shut' \in BOOLEAN, timer' \in BOOLEAN, file' \in DOMAIN Documents, upload' \in DOMAIN Documents,
         settings' \in SettingsType, ~settings'.thrown, activation' \in Port, worker' \in [Workers -> WorkerType],
         locked' \in BOOLEAN, inside' \subseteq Workers, undefined' \in BOOLEAN, raced' \in BOOLEAN,
         page' \subseteq StatusType,
         lists' \in SoundLists, ~lists'.thrown, PortsFree(lists'.hosts, foreign, web),
         settings'.uniproxies = settings.uniproxies, \A v \in Workers : UploadAdds(v)',
         timer' \/ shut' \/ (\E w \in Workers : worker'[w].at = "start") \/ Up(lists'),
         PageOK'
  PROVE  Inv'
<1>1. lists' \in ListsType
  BY Zenon DEF SoundLists
<1>2. TypeOK'
  BY <1>1, Zenon DEF Inv, TypeOK, Served
<1>3. ListsOK'
  BY Zenon DEF ListsOK, Served
<1>4. ServerDown' /\ StartDue'
  BY Zenon DEF ServerDown, StartDue, Served
<1>5. ExchangeOK'
  BY Zenon DEF Inv, ExchangeOK, Served
<1> QED
  BY <1>2, <1>3, <1>4, <1>5, Zenon DEF Inv

\* A request of the server that runs and that changes neither the lists nor the
\* settings.
LEMMA AskedInv ==
  ASSUME Inv, pc = "serving", Served, lists' = lists, settings' = settings, activation' = activation,
         shut' \in BOOLEAN, timer' \in BOOLEAN, timer \/ shut => timer' \/ shut',
         file' \in DOMAIN Documents, upload' \in DOMAIN Documents, raced' \in BOOLEAN,
         locked' \in BOOLEAN, inside' \subseteq Workers, undefined' \in BOOLEAN,
         NEW w \in Workers, worker[w].at # "start", NEW step, Moved(w, step) \/ worker' = worker,
         \A v \in Workers : UploadAdds(v)',
         page' \subseteq StatusType, PageOK'
  PROVE  Inv'
<1>1. TypeOK /\ lists \in SoundLists /\ ~lists.thrown /\ PortsFree(lists.hosts, foreign, web) /\ StartDue
  BY Zenon DEF Inv, ListsOK, TypeOK
<1>2. settings' \in SettingsType /\ ~settings'.thrown /\ activation' \in Port /\ worker \in [Workers -> WorkerType]
  BY <1>1, Zenon DEF TypeOK
<1>3. worker' \in [Workers -> WorkerType] /\ \A v \in Workers : worker[v].at = "start" => worker'[v].at = "start"
  BY <1>2, Zenon DEF Moved
<1>4. timer' \/ shut' \/ (\E v \in Workers : worker'[v].at = "start") \/ Up(lists')
  BY <1>1, <1>3, Zenon DEF StartDue
<1>5. settings'.uniproxies = settings.uniproxies
  OBVIOUS
<1> QED
  BY <1>1, <1>2, <1>3, <1>4, <1>5, ServedInv, Zenon

\* The page while the lists stay.
LEMMA PageStays ==
  ASSUME Inv, lists' = lists, page' = page
  PROVE  page' \subseteq StatusType /\ PageOK'
<1>1. TypeOK /\ PageOK
  BY Zenon DEF Inv
<1> QED
  BY <1>1, Zenon DEF TypeOK, PageOK

\* config_upload: upload.json is written.
LEMMA config_uploadInv ==
  ASSUME Inv, NEW w \in Workers, config_upload(w)
  PROVE  Inv' /\ lists' = lists
<1>1. TypeOK /\ ExchangeOK
  BY Zenon DEF Inv
<1>2. /\ pc = "serving" /\ worker[w].at = "idle" /\ Goto(w, "parse") /\ raced' \in BOOLEAN
      /\ \E f \in Uploads : upload' = f
      /\ UNCHANGED <<loop, timer, file, settings, lists, ports, mutex, page, commands>>
  BY Zenon DEF config_upload, Accepts, At
<1>3. /\ Served /\ shut' = shut /\ timer' = timer /\ file' = file /\ settings' = settings /\ lists' = lists
      /\ activation' = activation /\ locked' = locked /\ inside' = inside /\ undefined' = undefined /\ page' = page
  BY <1>2 DEF loop, ports, mutex, Served
<1>4. upload' \in DOMAIN Documents
  BY <1>2, DocumentsAssumption, Zenon
<1>5. "parse" \in Steps /\ "parse" \notin InPlace /\ worker[w].at # "start"
  BY <1>2 DEF Steps, InPlace
<1>6. Moved(w, "parse")
  BY <1>1, <1>2, <1>5, GotoIs, Zenon
<1>7. \A v \in Workers : UploadAdds(v)'
  BY <1>1, <1>3, <1>5, <1>6, UploadsGoOn, Zenon
<1>8. /\ shut' \in BOOLEAN /\ timer' \in BOOLEAN /\ file' \in DOMAIN Documents /\ locked' \in BOOLEAN
      /\ inside' \subseteq Workers /\ undefined' \in BOOLEAN
  BY <1>1, <1>3, Zenon DEF TypeOK
<1>9. pc = "serving" /\ raced' \in BOOLEAN
  BY <1>2, Zenon
<1> QED
  BY <1>3, <1>4, <1>5, <1>6, <1>7, <1>8, <1>9, PageStays, AskedInv, Zenon

\* upload.json is read back.
LEMMA ParseInv ==
  ASSUME Inv, NEW w \in Workers, Parse(w)
  PROVE  Inv' /\ lists' = lists
<1>1. TypeOK /\ ExchangeOK /\ ServerDown
  BY Zenon DEF Inv
<1>2. /\ worker[w].at = "parse" /\ UNCHANGED <<loop, timer, files, settings, lists, ports, mutex, page, commands>>
      /\ \/ worker' = [worker EXCEPT ![w] = [at |-> "copy", doc |-> upload]]
         \/ Done(w)
  BY Zenon DEF Parse, At
<1>3. /\ Served /\ shut' = shut /\ timer' = timer /\ file' = file /\ upload' = upload /\ raced' = raced
      /\ settings' = settings /\ lists' = lists
      /\ activation' = activation /\ locked' = locked /\ inside' = inside /\ undefined' = undefined /\ page' = page
  BY <1>2 DEF loop, files, ports, mutex, Served
<1>4. pc = "serving" /\ worker[w].at # "start"
  BY <1>1, <1>2, BusyServes
<1>5. PICK step : Moved(w, step) /\ step \in {"copy", "idle"}
  <2>1. CASE Done(w)
    BY <1>1, <2>1, DoneIs
  <2>2. CASE worker' = [worker EXCEPT ![w] = [at |-> "copy", doc |-> upload]]
    <3>1. worker \in [Workers -> WorkerType] /\ upload \in DOMAIN Documents
      BY <1>1, Zenon DEF TypeOK
    <3>2. [at |-> "copy", doc |-> upload] \in WorkerType
      BY <3>1 DEF WorkerType
    <3>3. Moved(w, "copy")
      BY <2>2, <3>1, <3>2 DEF Moved
    <3> QED BY <3>3, Zenon
  <2> QED BY <1>2, <2>1, <2>2, Zenon
<1>6. step \notin InPlace
  BY <1>5 DEF InPlace
<1>7. \A v \in Workers : UploadAdds(v)'
  BY <1>1, <1>3, <1>5, <1>6, UploadsGoOn, Zenon
<1>8. /\ shut' \in BOOLEAN /\ timer' \in BOOLEAN /\ file' \in DOMAIN Documents /\ locked' \in BOOLEAN
      /\ inside' \subseteq Workers /\ undefined' \in BOOLEAN /\ upload' \in DOMAIN Documents /\ raced' \in BOOLEAN
  BY <1>1, <1>3, Zenon DEF TypeOK
<1> QED
  BY <1>3, <1>4, <1>5, <1>7, <1>8, PageStays, AskedInv, Zenon

\* upload.json becomes uniproxy.json; the document is taken over in place only
\* when it names no new uniproxy.
LEMMA CopyInv ==
  ASSUME Inv, NEW w \in Workers, Copy(w)
  PROVE  Inv' /\ lists' = lists
<1>1. TypeOK /\ ExchangeOK /\ ServerDown
  BY Zenon DEF Inv
<1>2. /\ worker[w].at = "copy" /\ file' = upload
      /\ UNCHANGED <<loop, upload, uploads, raced, settings, lists, ports, mutex, page, commands>>
      /\ \/ Throw(w)
         \/ ~is_new_configuration(settings, Doc(worker[w].doc)) /\ Goto(w, "unpopulate") /\ UNCHANGED timer
  BY Zenon DEF Copy, At
<1>3. /\ Served /\ shut' = shut /\ upload' = upload /\ raced' = raced
      /\ settings' = settings /\ lists' = lists
      /\ activation' = activation /\ locked' = locked /\ inside' = inside /\ undefined' = undefined /\ page' = page
  BY <1>2 DEF loop, ports, mutex, Served
<1>4. pc = "serving" /\ worker[w].at # "start"
  BY <1>1, <1>2, BusyServes
<1>5. /\ shut' \in BOOLEAN /\ timer \in BOOLEAN /\ file' \in DOMAIN Documents /\ locked' \in BOOLEAN
      /\ inside' \subseteq Workers /\ undefined' \in BOOLEAN /\ upload' \in DOMAIN Documents /\ raced' \in BOOLEAN
  BY <1>1, <1>2, <1>3, Zenon DEF TypeOK
<1>6. CASE Throw(w)
  <2>1. timer' = TRUE /\ Moved(w, "idle")
    BY <1>1, <1>6, DoneIs, Zenon DEF Throw
  <2>2. "idle" \notin InPlace
    BY DEF InPlace
  <2>3. \A v \in Workers : UploadAdds(v)'
    BY <1>1, <1>3, <2>1, <2>2, UploadsGoOn, Zenon
  <2>4. timer' \in BOOLEAN /\ (timer \/ shut => timer' \/ shut')
    BY <2>1, Zenon
  <2> QED BY <1>3, <1>4, <1>5, <2>1, <2>3, <2>4, PageStays, AskedInv, Zenon
<1>7. CASE ~is_new_configuration(settings, Doc(worker[w].doc)) /\ Goto(w, "unpopulate") /\ UNCHANGED timer
  <2>1. "unpopulate" \in Steps
    BY DEF Steps
  <2>2. Moved(w, "unpopulate") /\ worker'[w].doc = worker[w].doc
    BY <1>1, <1>7, <2>1, GotoIs, Zenon
  <2>3. Uniproxies(Doc(worker[w].doc), WebPort) \subseteq settings.uniproxies
    <3>1. settings \in SettingsType /\ worker[w].doc \in DOMAIN Documents
      <4>1. settings \in SettingsType /\ worker[w] \in WorkerType
        BY <1>1, Zenon DEF TypeOK
      <4> QED BY <4>1 DEF WorkerType
    <3>2. DocumentParsed(Doc(worker[w].doc))
      BY <3>1, DocumentsAssumption, Zenon DEF Doc
    <3> QED BY <1>7, <3>1, <3>2, NoNewUniproxies, Zenon
  <2>4. ASSUME NEW v \in Workers PROVE UploadAdds(v)'
    <3>1. CASE v = w
      BY <1>3, <2>2, <2>3, <3>1, Zenon DEF UploadAdds
    <3>2. CASE v # w
      <4>1. worker'[v] = worker[v]
        BY <2>2, <3>2, Zenon DEF Moved
      <4> QED BY <1>1, <1>3, <4>1, Zenon DEF ExchangeOK, UploadAdds
    <3> QED BY <3>1, <3>2, Zenon
  <2>5. timer' \in BOOLEAN /\ (timer \/ shut => timer' \/ shut')
    BY <1>3, <1>5, <1>7, Zenon
  <2> QED BY <1>3, <1>4, <1>5, <2>2, <2>4, <2>5, PageStays, AskedInv, Zenon
<1> QED
  BY <1>2, <1>6, <1>7, Zenon

\* The copy fails: the request is done.
LEMMA CopyFailsInv ==
  ASSUME Inv, NEW w \in Workers, CopyFails(w)
  PROVE  Inv' /\ lists' = lists
<1>1. TypeOK /\ ExchangeOK /\ ServerDown
  BY Zenon DEF Inv
<1>2. worker[w].at = "copy" /\ Done(w) /\ UNCHANGED <<loop, timer, files, settings, lists, ports, mutex, page, commands>>
  BY Zenon DEF CopyFails, At
<1>3. /\ Served /\ shut' = shut /\ timer' = timer /\ file' = file /\ upload' = upload /\ raced' = raced
      /\ settings' = settings /\ lists' = lists
      /\ activation' = activation /\ locked' = locked /\ inside' = inside /\ undefined' = undefined /\ page' = page
  BY <1>2 DEF loop, files, ports, mutex, Served
<1>4. pc = "serving" /\ worker[w].at # "start"
  BY <1>1, <1>2, BusyServes
<1>5. Moved(w, "idle")
  BY <1>1, <1>2, DoneIs, Zenon
<1>6. "idle" \notin InPlace
  BY DEF InPlace
<1>7. \A v \in Workers : UploadAdds(v)'
  BY <1>1, <1>3, <1>5, <1>6, UploadsGoOn, Zenon
<1>8. /\ shut' \in BOOLEAN /\ timer' \in BOOLEAN /\ file' \in DOMAIN Documents /\ locked' \in BOOLEAN
      /\ inside' \subseteq Workers /\ undefined' \in BOOLEAN /\ upload' \in DOMAIN Documents /\ raced' \in BOOLEAN
  BY <1>1, <1>3, Zenon DEF TypeOK
<1> QED
  BY <1>3, <1>4, <1>5, <1>7, <1>8, PageStays, AskedInv, Zenon

\* unpopulate_json is entered.
LEMMA UnpopulateInv ==
  ASSUME Inv, NEW w \in Workers, Unpopulate(w)
  PROVE  Inv' /\ lists' = lists
<1>1. TypeOK /\ ExchangeOK /\ ServerDown
  BY Zenon DEF Inv
<1>2. /\ worker[w].at = "unpopulate" /\ Goto(w, "stopping") /\ locked' = TRUE /\ inside' = inside \cup {w}
      /\ undefined' \in BOOLEAN
      /\ UNCHANGED <<loop, timer, files, settings, lists, ports, page, commands>>
  BY Zenon DEF Unpopulate, At
<1>3. /\ Served /\ shut' = shut /\ timer' = timer /\ file' = file /\ upload' = upload /\ raced' = raced
      /\ settings' = settings /\ lists' = lists /\ activation' = activation /\ page' = page
  BY <1>2 DEF loop, files, ports, Served
<1>4. pc = "serving" /\ worker[w].at # "start"
  BY <1>1, <1>2, BusyServes
<1>5. "stopping" \in Steps /\ worker[w].at \in InPlace
  BY <1>2 DEF Steps, InPlace
<1>6. Moved(w, "stopping") /\ worker'[w].doc = worker[w].doc
  BY <1>1, <1>2, <1>5, GotoIs, Zenon
<1>7. \A v \in Workers : UploadAdds(v)'
  BY <1>1, <1>3, <1>5, <1>6, UploadsGoOn, Zenon
<1>8. /\ shut' \in BOOLEAN /\ timer' \in BOOLEAN /\ file' \in DOMAIN Documents
      /\ upload' \in DOMAIN Documents /\ raced' \in BOOLEAN /\ inside \subseteq Workers
  BY <1>1, <1>3, Zenon DEF TypeOK
<1>9. locked' \in BOOLEAN /\ inside' \subseteq Workers /\ undefined' \in BOOLEAN
  BY <1>2, <1>8, Zenon
<1> QED
  BY <1>3, <1>4, <1>6, <1>7, <1>8, <1>9, PageStays, AskedInv, Zenon

\* unpopulate_json: hosts are dropped, and all clients.
LEMMA UnpopulatedInv ==
  ASSUME Inv, NEW w \in Workers, Unpopulated(w)
  PROVE  Inv' /\ lists' \in Successors(lists)
<1>1. TypeOK /\ ExchangeOK /\ ServerDown /\ StartDue /\ PageOK /\ lists \in SoundLists /\ ~lists.thrown
      /\ PortsFree(lists.hosts, foreign, web)
  BY Zenon DEF Inv, ListsOK, TypeOK
<1>2. PICK l : l = unpopulate_json(lists, Doc(worker[w].doc))
  OBVIOUS
<1>3. /\ worker[w].at = "stopping" /\ lists' = Cleared(l) /\ locked' = FALSE /\ inside' = inside \ {w}
      /\ UNCHANGED <<loop, files, settings, ports, undefined, page, commands>>
      /\ Throw(w) \/ (Goto(w, "populate") /\ UNCHANGED timer)
  BY <1>2, Zenon DEF Unpopulated, At
<1>4. /\ Served /\ shut' = shut /\ file' = file /\ upload' = upload /\ raced' = raced
      /\ settings' = settings /\ activation' = activation /\ undefined' = undefined /\ page' = page
  BY <1>3 DEF loop, files, ports, Served
<1>5. pc = "serving" /\ worker[w].at # "start"
  BY <1>1, <1>3, BusyServes
<1>6. lists' \in Successors(lists) /\ PortsFree(lists'.hosts, foreign, web) /\ (Up(lists) => Up(lists'))
  BY <1>1, <1>2, <1>3, UnpopulateStep, Zenon
<1>7. PICK step : /\ Moved(w, step) /\ (step = "idle" \/ (step = "populate" /\ worker'[w].doc = worker[w].doc))
                  /\ timer' \in BOOLEAN /\ (timer => timer')
  <2>1. CASE Throw(w)
    <3>1. Moved(w, "idle") /\ timer' = TRUE
      BY <1>1, <2>1, DoneIs, Zenon DEF Throw
    <3> QED BY <3>1, Zenon
  <2>2. CASE Goto(w, "populate") /\ UNCHANGED timer
    <3>1. "populate" \in Steps
      BY DEF Steps
    <3>2. Moved(w, "populate") /\ worker'[w].doc = worker[w].doc
      BY <1>1, <2>2, <3>1, GotoIs, Zenon
    <3>3. timer \in BOOLEAN
      BY <1>1, Zenon DEF TypeOK
    <3> QED BY <2>2, <3>2, <3>3, Zenon
  <2> QED BY <1>3, <2>1, <2>2, Zenon
<1>8. step \in InPlace => worker'[w].doc = worker[w].doc /\ worker[w].at \in InPlace
  BY <1>3, <1>7 DEF InPlace
<1>9. \A v \in Workers : UploadAdds(v)'
  BY <1>1, <1>4, <1>7, <1>8, UploadsGoOn, Zenon
<1>10. timer' \/ shut' \/ (\E v \in Workers : worker'[v].at = "start") \/ Up(lists')
  <2>1. timer \/ shut \/ (\E v \in Workers : worker[v].at = "start") \/ Up(lists)
    BY <1>1, <1>5, Zenon DEF StartDue
  <2>2. \A v \in Workers : worker[v].at = "start" => worker'[v].at = "start"
    BY <1>5, <1>7, Zenon DEF Moved
  <2> QED BY <1>4, <1>6, <1>7, <2>1, <2>2, Zenon
<1>11. /\ shut' \in BOOLEAN /\ file' \in DOMAIN Documents /\ upload' \in DOMAIN Documents
       /\ settings' \in SettingsType /\ ~settings'.thrown /\ activation' \in Port /\ inside \subseteq Workers
       /\ undefined' \in BOOLEAN /\ raced' \in BOOLEAN /\ page' \subseteq StatusType
  BY <1>1, <1>4, Zenon DEF TypeOK
<1>12. locked' \in BOOLEAN /\ inside' \subseteq Workers /\ worker' \in [Workers -> WorkerType]
  BY <1>3, <1>7, <1>11, Zenon DEF Moved
<1>13. lists' \in SoundLists /\ ~lists'.thrown /\ Follows(lists, lists')
  BY <1>6, Zenon DEF Successors
<1>14. PageOK'
  BY <1>1, <1>4, <1>13, PageFollows, Zenon
<1>15. settings'.uniproxies = settings.uniproxies
  BY <1>4
<1> QED
  BY <1>4, <1>5, <1>6, <1>7, <1>9, <1>10, <1>11, <1>12, <1>13, <1>14, <1>15, ServedInv, Zenon

\* populate_json: the start is due, or a restart; the uniproxies are known.
LEMMA PopulateInv ==
  ASSUME Inv, NEW w \in Workers, Populate(w)
  PROVE  Inv' /\ lists' \in Successors(lists)
<1>1. TypeOK /\ ExchangeOK /\ ServerDown /\ PageOK /\ lists \in SoundLists /\ ~lists.thrown
      /\ PortsFree(lists.hosts, foreign, web) /\ settings \in SettingsType
  BY Zenon DEF Inv, ListsOK, TypeOK
<1>2. PICK d : d = Doc(worker[w].doc)
  OBVIOUS
<1>3. PICK l : l = PopulateLists(lists, d, KeyOk(own))
  OBVIOUS
<1>4. PICK s : s = IF l.thrown THEN [settings EXCEPT !.activate_port = ActivatePort] ELSE PopulateConfig(settings, d)
  OBVIOUS
<1>5. /\ worker[w].at = "populate" /\ Section /\ lists' = Cleared(l) /\ settings' = Cleared(s)
      /\ UNCHANGED <<loop, files, ports, page, commands>>
      /\ Throw(w) \/ (Goto(w, "start") /\ UNCHANGED timer)
  BY <1>2, <1>3, <1>4, Zenon DEF Populate, At
<1>6. /\ Served /\ shut' = shut /\ file' = file /\ upload' = upload /\ raced' = raced
      /\ activation' = activation /\ page' = page
  BY <1>5 DEF loop, files, ports, Served
<1>7. pc = "serving"
  BY <1>1, <1>5, BusyServes
<1>8. DocumentParsed(d)
  <2>1. worker[w].doc \in DOMAIN Documents
    <3>1. worker[w] \in WorkerType
      BY <1>1, Zenon DEF TypeOK
    <3> QED BY <3>1 DEF WorkerType
  <2> QED BY <1>2, <2>1, DocumentsAssumption, Zenon DEF Doc
<1>9. lists' \in Successors(lists) /\ PortsFree(lists'.hosts, foreign, web)
  <2>1. PICK ok \in BOOLEAN : ok = KeyOk(own)
    BY DEF KeyOk
  <2>2. lists' = Cleared(PopulateLists(lists, d, ok))
    BY <1>3, <1>5, <2>1, Zenon
  <2> QED BY <1>1, <1>8, <2>2, PopulateStep, Zenon
<1>10. settings' \in SettingsType /\ ~settings'.thrown /\ settings'.uniproxies = settings.uniproxies
  <2>1. s \in SettingsType /\ s.uniproxies = settings.uniproxies
    <3>1. CASE l.thrown
      <4>1. s = [settings EXCEPT !.activate_port = ActivatePort]
        BY <1>4, <3>1, Zenon
      <4>2. ActivatePort \in Port
        BY PortFacts, Zenon
      <4> QED BY <1>1, <4>1, <4>2 DEF SettingsType
    <3>2. CASE ~l.thrown
      <4>1. s = PopulateConfig(settings, d)
        BY <1>4, <3>2, Zenon
      <4>2. s \in SettingsType
        BY <1>1, <1>8, <4>1, ConfigTyped, Zenon
      <4>3. s.uniproxies = settings.uniproxies \/ s.uniproxies = settings.uniproxies \cup Uniproxies(d, WebPort)
        BY <1>1, <1>8, <4>1, ConfigTyped, Zenon
      <4>4. Uniproxies(d, WebPort) \subseteq settings.uniproxies
        BY <1>1, <1>2, <1>5 DEF ExchangeOK, UploadAdds
      <4>5. settings.uniproxies \cup Uniproxies(d, WebPort) = settings.uniproxies
        BY <4>4
      <4> QED BY <4>2, <4>3, <4>5, Zenon
    <3> QED BY <3>1, <3>2, Zenon
  <2> QED BY <1>5, <2>1, ClearedSettings, Zenon
<1>11. PICK step : /\ Moved(w, step) /\ (step = "idle" \/ step = "start") /\ timer' \in BOOLEAN
                   /\ timer' \/ step = "start"
  <2>1. CASE Throw(w)
    <3>1. Moved(w, "idle") /\ timer' = TRUE
      BY <1>1, <2>1, DoneIs, Zenon DEF Throw
    <3> QED BY <3>1, Zenon
  <2>2. CASE Goto(w, "start") /\ UNCHANGED timer
    <3>1. "start" \in Steps
      BY DEF Steps
    <3>2. Moved(w, "start")
      BY <1>1, <2>2, <3>1, GotoIs, Zenon
    <3>3. timer \in BOOLEAN
      BY <1>1, Zenon DEF TypeOK
    <3> QED BY <2>2, <3>2, <3>3, Zenon
  <2> QED BY <1>5, <2>1, <2>2, Zenon
<1>12. step \notin InPlace /\ settings.uniproxies \subseteq settings'.uniproxies
  BY <1>10, <1>11 DEF InPlace
<1>13. \A v \in Workers : UploadAdds(v)'
  BY <1>1, <1>11, <1>12, UploadsGoOn, Zenon
<1>14. timer' \/ shut' \/ (\E v \in Workers : worker'[v].at = "start") \/ Up(lists')
  BY <1>11, Zenon DEF Moved
<1>15. /\ shut' \in BOOLEAN /\ file' \in DOMAIN Documents /\ upload' \in DOMAIN Documents
       /\ activation' \in Port /\ raced' \in BOOLEAN /\ page' \subseteq StatusType /\ locked \in BOOLEAN
       /\ inside \subseteq Workers
  BY <1>1, <1>6, Zenon DEF TypeOK
<1>16. locked' \in BOOLEAN /\ inside' \subseteq Workers /\ undefined' \in BOOLEAN /\ worker' \in [Workers -> WorkerType]
  BY <1>1, <1>5, <1>11, <1>15, SectionTyped, Zenon DEF Moved
<1>17. lists' \in SoundLists /\ ~lists'.thrown /\ Follows(lists, lists')
  BY <1>9, Zenon DEF Successors
<1>18. PageOK'
  BY <1>1, <1>6, <1>17, PageFollows, Zenon
<1> QED
  BY <1>6, <1>7, <1>9, <1>10, <1>11, <1>13, <1>14, <1>15, <1>16, <1>17, <1>18, ServedInv, Zenon

\* The start of an upload in place: everything is up, or a restart is due.
LEMMA StartInv ==
  ASSUME Inv, NEW w \in Workers, Start(w)
  PROVE  Inv' /\ lists' \in Successors(lists)
<1>1. TypeOK /\ ExchangeOK /\ ServerDown /\ PageOK /\ lists \in SoundLists /\ ~lists.thrown
      /\ PortsFree(lists.hosts, foreign, web) /\ settings \in SettingsType
  BY Zenon DEF Inv, ListsOK, TypeOK
<1>2. PICK l : l = StartAll(lists)
  OBVIOUS
<1>3. /\ worker[w].at = "start" /\ Section /\ lists' = Cleared(l)
      /\ UNCHANGED <<loop, files, settings, web, foreign, exchange, page, commands>>
      /\ \/ Throw(w) /\ UNCHANGED activation
         \/ ~l.thrown /\ Done(w) /\ activation' = ActivationStarted /\ UNCHANGED timer
  BY <1>2, Zenon DEF Start, At
<1>4. /\ Served /\ shut' = shut /\ file' = file /\ upload' = upload /\ raced' = raced
      /\ settings' = settings /\ page' = page
  BY <1>3 DEF loop, files, Served
<1>5. pc = "serving"
  BY <1>1, <1>3, BusyServes
<1>6. /\ lists' \in Successors(lists) /\ PortsFree(lists'.hosts, foreign, web)
      /\ ~l.thrown => Up(lists')
  BY <1>1, <1>2, <1>3, StartStep, Zenon
<1>7. timer \in BOOLEAN /\ activation \in Port /\ settings.activate_port \in Port
  <2>1. timer \in BOOLEAN /\ activation \in Port
    BY <1>1, Zenon DEF TypeOK
  <2> QED BY <1>1, <2>1 DEF SettingsType
<1>8. Moved(w, "idle") /\ timer' \in BOOLEAN /\ activation' \in Port /\ (timer' \/ Up(lists'))
  <2>1. CASE Throw(w) /\ UNCHANGED activation
    <3>1. Done(w) /\ timer' = TRUE /\ activation' = activation
      BY <2>1, Zenon DEF Throw
    <3> QED BY <1>1, <1>7, <3>1, DoneIs, Zenon
  <2>2. CASE ~l.thrown /\ Done(w) /\ activation' = ActivationStarted /\ UNCHANGED timer
    BY <1>1, <1>6, <1>7, <2>2, DoneIs, Zenon DEF ActivationStarted
  <2> QED BY <1>3, <2>1, <2>2, Zenon
<1>9. "idle" \notin InPlace /\ settings'.uniproxies = settings.uniproxies
  BY <1>4 DEF InPlace
<1>10. \A v \in Workers : UploadAdds(v)'
  BY <1>1, <1>8, <1>9, UploadsGoOn, Zenon
<1>11. /\ shut' \in BOOLEAN /\ file' \in DOMAIN Documents /\ upload' \in DOMAIN Documents
       /\ settings' \in SettingsType /\ ~settings'.thrown
       /\ raced' \in BOOLEAN /\ page' \subseteq StatusType /\ locked \in BOOLEAN /\ inside \subseteq Workers
  BY <1>1, <1>4, Zenon DEF TypeOK
<1>12. locked' \in BOOLEAN /\ inside' \subseteq Workers /\ undefined' \in BOOLEAN /\ worker' \in [Workers -> WorkerType]
  BY <1>1, <1>3, <1>8, <1>11, SectionTyped, Zenon DEF Moved
<1>13. lists' \in SoundLists /\ ~lists'.thrown /\ Follows(lists, lists')
  BY <1>6, Zenon DEF Successors
<1>14. PageOK'
  BY <1>1, <1>4, <1>13, PageFollows, Zenon
<1> QED
  BY <1>4, <1>5, <1>6, <1>8, <1>9, <1>10, <1>11, <1>12, <1>13, <1>14, ServedInv, Zenon

\* The requests that change only what one worker does: config_reload,
\* certificate_delete, shutdown, host_test.
LEMMA OrdersInv ==
  ASSUME Inv, NEW w \in Workers, AskReload(w) \/ shutdown(w) \/ host_test(w) \/ HostTested(w)
  PROVE  Inv' /\ lists' = lists
<1>1. TypeOK /\ ExchangeOK /\ ServerDown
  BY Zenon DEF Inv
<1>2. /\ shut \in BOOLEAN /\ timer \in BOOLEAN /\ file \in DOMAIN Documents /\ locked \in BOOLEAN
      /\ inside \subseteq Workers /\ undefined \in BOOLEAN /\ upload \in DOMAIN Documents /\ raced \in BOOLEAN
  BY <1>1, Zenon DEF TypeOK
<1>3. "idle" \notin InPlace /\ "testing" \notin InPlace /\ "testing" \in Steps
  BY DEF InPlace, Steps
<1>4. CASE AskReload(w)
  <2>1. /\ pc = "serving" /\ worker[w].at = "idle" /\ Throw(w) /\ (UNCHANGED mutex \/ Section)
        /\ UNCHANGED <<loop, files, settings, lists, ports, page>>
    BY <1>4, Zenon DEF AskReload, Command, Accepts, At
  <2>2. /\ Served /\ shut' = shut /\ file' = file /\ upload' = upload /\ raced' = raced
        /\ settings' = settings /\ lists' = lists /\ activation' = activation /\ page' = page
    BY <2>1 DEF loop, files, ports, Served
  <2>3. timer' = TRUE /\ Moved(w, "idle")
    BY <1>1, <2>1, DoneIs, Zenon DEF Throw
  <2>4. timer' \in BOOLEAN /\ (timer \/ shut => timer' \/ shut')
    BY <2>3, Zenon
  <2>5. locked' \in BOOLEAN /\ inside' \subseteq Workers /\ undefined' \in BOOLEAN
    <3>1. CASE UNCHANGED mutex
      <4>1. locked' = locked /\ inside' = inside /\ undefined' = undefined
        BY <3>1 DEF mutex
      <4> QED BY <1>2, <4>1, Zenon
    <3>2. CASE Section
      BY <1>1, <1>2, <3>2, SectionTyped, Zenon
    <3> QED BY <2>1, <3>1, <3>2, Zenon
  <2>6. \A v \in Workers : UploadAdds(v)'
    BY <1>1, <1>3, <2>2, <2>3, UploadsGoOn, Zenon
  <2>7. worker[w].at # "start" /\ pc = "serving"
    BY <2>1
  <2> QED BY <1>2, <2>2, <2>3, <2>4, <2>5, <2>6, <2>7, PageStays, AskedInv, Zenon
<1>5. CASE shutdown(w)
  <2>1. /\ pc = "serving" /\ worker[w].at = "idle" /\ shut' = TRUE
        /\ UNCHANGED <<pc, exit_code, reload, openssl_count, own, timer, files, settings, lists, ports, worker, mutex, page>>
    BY <1>5, Zenon DEF shutdown, Command, Accepts, At
  <2>2. /\ Served /\ timer' = timer /\ file' = file /\ upload' = upload /\ raced' = raced
        /\ settings' = settings /\ lists' = lists /\ activation' = activation /\ page' = page
        /\ locked' = locked /\ inside' = inside /\ undefined' = undefined /\ worker' = worker
    BY <2>1 DEF files, ports, mutex, Served
  <2>3. shut' \in BOOLEAN /\ (timer \/ shut => timer' \/ shut')
    BY <2>1, Zenon
  <2>4. \A v \in Workers : UploadAdds(v)'
    BY <1>1, <2>2, Zenon DEF ExchangeOK, UploadAdds
  <2>5. worker[w].at # "start" /\ pc = "serving"
    BY <2>1
  <2> QED BY <1>2, <2>2, <2>3, <2>4, <2>5, PageStays, AskedInv, Zenon
<1>6. CASE host_test(w)
  <2>1. /\ pc = "serving" /\ worker[w].at = "idle" /\ Goto(w, "testing") /\ Section
        /\ UNCHANGED <<loop, timer, files, settings, lists, ports, page>>
    BY <1>6, Zenon DEF host_test, Command, Accepts, At
  <2>2. /\ Served /\ shut' = shut /\ timer' = timer /\ file' = file /\ upload' = upload /\ raced' = raced
        /\ settings' = settings /\ lists' = lists /\ activation' = activation /\ page' = page
    BY <2>1 DEF loop, files, ports, Served
  <2>3. Moved(w, "testing")
    BY <1>1, <1>3, <2>1, GotoIs, Zenon
  <2>4. locked' \in BOOLEAN /\ inside' \subseteq Workers /\ undefined' \in BOOLEAN
    BY <1>1, <1>2, <2>1, SectionTyped, Zenon
  <2>5. \A v \in Workers : UploadAdds(v)'
    BY <1>1, <1>3, <2>2, <2>3, UploadsGoOn, Zenon
  <2>6. worker[w].at # "start" /\ pc = "serving"
    BY <2>1
  <2> QED BY <1>2, <2>2, <2>3, <2>4, <2>5, <2>6, PageStays, AskedInv, Zenon
<1>7. CASE HostTested(w)
  <2>1. /\ worker[w].at = "testing" /\ Done(w) /\ locked' = FALSE
        /\ UNCHANGED <<loop, timer, files, settings, lists, ports, inside, undefined, page, commands>>
    BY <1>7, Zenon DEF HostTested, At
  <2>2. /\ Served /\ shut' = shut /\ timer' = timer /\ file' = file /\ upload' = upload /\ raced' = raced
        /\ settings' = settings /\ lists' = lists /\ activation' = activation /\ page' = page
        /\ inside' = inside /\ undefined' = undefined
    BY <2>1 DEF loop, files, ports, Served
  <2>3. Moved(w, "idle")
    BY <1>1, <2>1, DoneIs, Zenon
  <2>4. locked' \in BOOLEAN
    BY <2>1, Zenon
  <2>5. \A v \in Workers : UploadAdds(v)'
    BY <1>1, <1>3, <2>2, <2>3, UploadsGoOn, Zenon
  <2>6. worker[w].at # "start" /\ pc = "serving"
    BY <1>1, <2>1, BusyServes
  <2> QED BY <1>2, <2>2, <2>3, <2>4, <2>5, <2>6, PageStays, AskedInv, Zenon
<1> QED
  BY <1>4, <1>5, <1>6, <1>7, Zenon

\* The status page shows ids that were given out.
LEMMA status_getInv ==
  ASSUME Inv, NEW w \in Workers, status_get(w)
  PROVE  Inv' /\ lists' = lists
<1>1. TypeOK /\ ExchangeOK /\ lists \in SoundLists
  BY Zenon DEF Inv, ListsOK
<1>2. /\ pc = "serving" /\ worker[w].at = "idle" /\ Section
      /\ page' = {HostStatus(h) : h \in Range(lists.hosts)} \cup {ClientStatus(c) : c \in Range(lists.clients)}
      /\ UNCHANGED <<loop, timer, files, settings, lists, ports, worker>>
  BY Zenon DEF status_get, Command, Accepts, At
<1>3. /\ Served /\ shut' = shut /\ timer' = timer /\ file' = file /\ upload' = upload /\ raced' = raced
      /\ settings' = settings /\ lists' = lists /\ activation' = activation /\ worker' = worker
  BY <1>2 DEF loop, files, ports, Served
<1>4. /\ shut \in BOOLEAN /\ timer \in BOOLEAN /\ file \in DOMAIN Documents /\ locked \in BOOLEAN
      /\ inside \subseteq Workers /\ undefined \in BOOLEAN /\ upload \in DOMAIN Documents /\ raced \in BOOLEAN
  BY <1>1, Zenon DEF TypeOK
<1>5. locked' \in BOOLEAN /\ inside' \subseteq Workers /\ undefined' \in BOOLEAN
  BY <1>1, <1>2, <1>4, SectionTyped, Zenon
<1>6. \A v \in Workers : UploadAdds(v)'
  BY <1>1, <1>3, Zenon DEF ExchangeOK, UploadAdds
<1>7. worker[w].at # "start" /\ pc = "serving"
  BY <1>2
<1>8. /\ lists.hostids \in Nat /\ HostsSound(lists.hosts, lists.hostids)
      /\ lists.clients \in Seq(ClientType)
  BY <1>1, ListsFields, Zenon DEF SoundLists
<1>9. ASSUME NEW p \in page'
      PROVE  p \in StatusType /\ (p.kind = "host" => Shown(p, lists))
  <2>1. CASE \E h \in Range(lists.hosts) : p = HostStatus(h)
    <3>1. PICK j \in DOMAIN lists.hosts : p = HostStatus(lists.hosts[j])
      BY <2>1 DEF Range
    <3>2. PICK h : h = lists.hosts[j]
      OBVIOUS
    <3>3. h \in HostType /\ h.id \in 1 .. lists.hostids /\ \A k \in DOMAIN lists.hosts : lists.hosts[k].id = h.id => k = j
      BY <1>8, <3>2, Zenon DEF HostsSound, SoundHosts
    <3>4. p = [kind |-> "host", id |-> h.id, port |-> h.port] /\ h.id \in Nat /\ h.port \in Port
      BY <3>1, <3>2, <3>3 DEF HostStatus, HostType
    <3>5. p \in StatusType /\ p.id = h.id /\ p.port = h.port
      BY <3>4 DEF StatusType
    <3>6. p.id <= lists.hostids
      BY <1>8, <3>3, <3>5
    <3>7. \A k \in DOMAIN lists.hosts : lists.hosts[k].id = p.id => lists.hosts[k].port = p.port
      BY <3>2, <3>3, <3>5, Zenon
    <3> QED BY <3>5, <3>6, <3>7, Zenon DEF Shown
  <2>2. CASE \E c \in Range(lists.clients) : p = ClientStatus(c)
    <3>1. PICK j \in DOMAIN lists.clients : p = ClientStatus(lists.clients[j])
      BY <2>2 DEF Range
    <3>2. PICK c : c = lists.clients[j]
      OBVIOUS
    <3>3. c \in ClientType
      BY <1>8, <3>2
    <3>4. p = [kind |-> "client", id |-> c.id, port |-> c.port] /\ c.id \in Nat /\ c.port \in Port
      BY <3>1, <3>2, <3>3 DEF ClientStatus, ClientType
    <3> QED BY <3>4 DEF StatusType
  <2> QED BY <1>2, <1>9, <2>1, <2>2
<1>10. page' \subseteq StatusType /\ PageOK'
  BY <1>3, <1>9, Zenon DEF PageOK
<1> QED
  BY <1>3, <1>4, <1>5, <1>6, <1>7, <1>10, AskedInv, Zenon

\* What a switch changes.
Switched(w) ==
  /\ pc = "serving" /\ Section
  /\ UNCHANGED <<loop, timer, files, settings, ports, worker, page>>

\* A switch keeps the invariant when the lists stay sound and up.
LEMMA SwitchedInv ==
  ASSUME Inv, NEW w \in Workers, Switched(w), lists' \in SoundLists, ~lists'.thrown, Follows(lists, lists'),
         PortsFree(lists'.hosts, foreign, web), Up(lists) => Up(lists')
  PROVE  Inv' /\ page' = page
<1>1. TypeOK /\ ExchangeOK /\ StartDue /\ PageOK /\ lists \in SoundLists
  BY Zenon DEF Inv, ListsOK
<1>2. pc = "serving" /\ Section /\ UNCHANGED <<loop, timer, files, settings, ports, worker, page>>
  BY Zenon DEF Switched
<1>3. /\ Served /\ shut' = shut /\ timer' = timer /\ file' = file /\ upload' = upload /\ raced' = raced
      /\ settings' = settings /\ activation' = activation /\ worker' = worker /\ page' = page
  BY <1>2 DEF loop, files, ports, Served
<1>4. /\ shut' \in BOOLEAN /\ timer' \in BOOLEAN /\ file' \in DOMAIN Documents /\ upload' \in DOMAIN Documents
      /\ settings' \in SettingsType /\ ~settings'.thrown /\ activation' \in Port
      /\ worker' \in [Workers -> WorkerType] /\ raced' \in BOOLEAN /\ page' \subseteq StatusType
      /\ locked \in BOOLEAN /\ inside \subseteq Workers
  BY <1>1, <1>3, Zenon DEF TypeOK
<1>5. locked' \in BOOLEAN /\ inside' \subseteq Workers /\ undefined' \in BOOLEAN
  BY <1>1, <1>2, <1>4, SectionTyped, Zenon
<1>6. \A v \in Workers : UploadAdds(v)'
  BY <1>1, <1>3, Zenon DEF ExchangeOK, UploadAdds
<1>7. pc = "serving" /\ settings'.uniproxies = settings.uniproxies
  BY <1>2, <1>3
<1>8. timer' \/ shut' \/ (\E v \in Workers : worker'[v].at = "start") \/ Up(lists')
  BY <1>1, <1>3, <1>7, Zenon DEF StartDue
<1>9. PageOK'
  BY <1>1, <1>3, PageFollows, Zenon
<1> QED
  BY <1>3, <1>4, <1>5, <1>6, <1>7, <1>8, <1>9, ServedInv, Zenon

\* host_set_active: only a host that the page shows is switched.
LEMMA host_set_activeInv ==
  ASSUME Inv, NEW w \in Workers, host_set_active(w)
  PROVE  /\ Inv'
         /\ \A k \in DOMAIN lists.hosts, j \in DOMAIN lists'.hosts :
              lists.hosts[k].id = lists'.hosts[j].id /\ lists.hosts[k].active # lists'.hosts[j].active
                => HostStatus(lists.hosts[k]) \in page
<1>1. TypeOK /\ PageOK /\ lists \in SoundLists /\ ~lists.thrown /\ PortsFree(lists.hosts, foreign, web)
  BY Zenon DEF Inv, ListsOK, TypeOK
<1>2. Switched(w)
  BY Zenon DEF host_set_active, Switched, Command, Accepts
<1>3. PICK p \in {q \in page : q.kind = "host"}, active \in BOOLEAN : lists' = HostsSwitched(lists, p.id, active)
  BY Zenon DEF host_set_active, HostsSwitched
<1>4. /\ lists' \in SoundLists /\ ~lists'.thrown /\ Follows(lists, lists')
      /\ PortsFree(lists'.hosts, foreign, web) /\ (Up(lists) => Up(lists'))
      /\ \A k \in DOMAIN lists.hosts, j \in DOMAIN lists'.hosts :
           lists.hosts[k].id = lists'.hosts[j].id /\ lists.hosts[k].active # lists'.hosts[j].active
             => lists.hosts[k].id = p.id
  <2>1. PICK id : id = p.id
    OBVIOUS
  <2>2. lists' = HostsSwitched(lists, id, active) /\ active \in BOOLEAN
    BY <1>3, <2>1
  <2>3. /\ lists' \in SoundLists /\ ~lists'.thrown /\ Follows(lists, lists')
        /\ PortsFree(lists'.hosts, foreign, web) /\ (Up(lists) => Up(lists')) /\ SwitchesOnly(id, lists, lists')
    BY <1>1, <2>2, HostSwitchStep, Zenon
  <2> QED BY <2>1, <2>3, Zenon DEF SwitchesOnly
<1>5. ASSUME NEW k \in DOMAIN lists.hosts, lists.hosts[k].id = p.id
      PROVE  HostStatus(lists.hosts[k]) \in page
  <2>1. p \in page /\ p.kind = "host" /\ Shown(p, lists)
    BY <1>1, <1>3, Zenon DEF PageOK
  <2>2. lists.hosts[k].port = p.port
    BY <1>5, <2>1, Zenon DEF Shown
  <2>3. p \in StatusType
    BY <1>1, <2>1, Zenon DEF TypeOK
  <2>4. p = HostStatus(lists.hosts[k])
    BY <1>5, <2>1, <2>2, <2>3 DEF StatusType, HostStatus
  <2> QED BY <2>1, <2>4, Zenon
<1> QED
  BY <1>2, <1>4, <1>5, SwitchedInv, Zenon

\* client_set_active: no host is switched.
LEMMA client_set_activeInv ==
  ASSUME Inv, NEW w \in Workers, client_set_active(w)
  PROVE  Inv' /\ lists' \in Successors(lists)
<1>1. TypeOK /\ PageOK /\ lists \in SoundLists /\ ~lists.thrown /\ PortsFree(lists.hosts, foreign, web)
  BY Zenon DEF Inv, ListsOK, TypeOK
<1>2. Switched(w)
  BY Zenon DEF client_set_active, Switched, Command, Accepts
<1>3. PICK p \in {q \in page : q.kind = "client"}, active \in BOOLEAN : lists' = ClientsSwitched(lists, p.id, active)
  BY Zenon DEF client_set_active, ClientsSwitched
<1>4. lists' \in Successors(lists) /\ lists'.hosts = lists.hosts /\ (Up(lists) => Up(lists'))
  <2>1. PICK id : id = p.id
    OBVIOUS
  <2>2. lists' = ClientsSwitched(lists, id, active) /\ active \in BOOLEAN
    BY <1>3, <2>1
  <2> QED BY <1>1, <2>2, ClientSwitchStep, Zenon
<1>5. lists' \in SoundLists /\ ~lists'.thrown /\ Follows(lists, lists') /\ PortsFree(lists'.hosts, foreign, web)
  BY <1>1, <1>4, Zenon DEF Successors
<1> QED
  BY <1>2, <1>4, <1>5, SwitchedInv, Zenon

------------------------------------------------------------------------------
(* What an uploaded document gives, over what is listed and over nothing *)

\* A remote and the remotes of a host as RunsTheFile compares them.
RemoteView(r) == [name |-> r.name, hostname |-> r.hostname, username |-> r.username, password |-> r.password]
RemoteViews(remotes) == {RemoteView(r) : r \in Range(remotes)}

\* The hosts and the clients of the lists, as RunsTheFile compares them.
HostViews(hosts) == {HostView(h) : h \in Range(hosts)}
ClientViews(clients) == {ClientView(c) : c \in Range(clients)}

\* What a sequence has.
LEMMA RangeIs == \A s : \A x : x \in Range(s) <=> \E k \in DOMAIN s : x = s[k]
BY DEF Range

\* What the three sets have.
LEMMA ViewsAre ==
  /\ \A s : \A v : v \in RemoteViews(s) <=> \E k \in DOMAIN s : v = RemoteView(s[k])
  /\ \A s : \A v : v \in HostViews(s) <=> \E k \in DOMAIN s : v = HostView(s[k])
  /\ \A s : \A v : v \in ClientViews(s) <=> \E k \in DOMAIN s : v = ClientView(s[k])
<1>1. \A s : \A v : v \in RemoteViews(s) <=> \E k \in DOMAIN s : v = RemoteView(s[k])
  BY RangeIs, ZenonT(40) DEF RemoteViews
<1>2. \A s : \A v : v \in HostViews(s) <=> \E k \in DOMAIN s : v = HostView(s[k])
  BY RangeIs, ZenonT(40) DEF HostViews
<1>3. \A s : \A v : v \in ClientViews(s) <=> \E k \in DOMAIN s : v = ClientView(s[k])
  BY RangeIs, ZenonT(40) DEF ClientViews
<1> QED
  BY <1>1, <1>2, <1>3

\* Remotes are the same when they look the same.
LEMMA SameRemoteIs == \A a, b : SameRemote(a, b) <=> RemoteView(a) = RemoteView(b)
<1> SUFFICES ASSUME NEW a, NEW b PROVE SameRemote(a, b) <=> RemoteView(a) = RemoteView(b)
  OBVIOUS
<1>1. SameRemote(a, b) <=> /\ a.name = b.name /\ a.hostname = b.hostname /\ a.username = b.username
                           /\ a.password = b.password
  BY DEF SameRemote
<1>2. /\ RemoteView(a).name = a.name /\ RemoteView(a).hostname = a.hostname
      /\ RemoteView(a).username = a.username /\ RemoteView(a).password = a.password
  BY DEF RemoteView
<1>3. /\ RemoteView(b).name = b.name /\ RemoteView(b).hostname = b.hostname
      /\ RemoteView(b).username = b.username /\ RemoteView(b).password = b.password
  BY DEF RemoteView
<1>4. /\ a.name = b.name /\ a.hostname = b.hostname /\ a.username = b.username /\ a.password = b.password
      => RemoteView(a) = RemoteView(b)
  BY Zenon DEF RemoteView
<1> QED
  BY <1>1, <1>2, <1>3, <1>4, Zenon

\* The view of a host.
LEMMA HostViewIs ==
  ASSUME NEW h
  PROVE  /\ HostView(h) = [port |-> h.port, type |-> h.type, locals |-> h.locals, remotes |-> RemoteViews(h.remotes)]
         /\ HostView(h).port = h.port /\ HostView(h).type = h.type /\ HostView(h).locals = h.locals
         /\ HostView(h).remotes = RemoteViews(h.remotes)
<1>1. HostView(h) = [port |-> h.port, type |-> h.type, locals |-> h.locals, remotes |-> RemoteViews(h.remotes)]
  BY Zenon DEF HostView, RemoteViews, RemoteView
<1>2. PICK rv : rv = RemoteViews(h.remotes)
  OBVIOUS
<1>3. PICK v : v = [port |-> h.port, type |-> h.type, locals |-> h.locals, remotes |-> rv]
  OBVIOUS
<1>4. v.port = h.port /\ v.type = h.type /\ v.locals = h.locals /\ v.remotes = rv
  BY <1>3
<1> QED
  BY <1>1, <1>2, <1>3, <1>4, Zenon

\* A host without remotes has no views of them.
LEMMA NoRemotes ==
  ASSUME NEW T, NEW s \in Seq(T)
  PROVE  RemoteViews(s) = {} <=> s = <<>>
<1>1. s # <<>> => 1 \in DOMAIN s
  OBVIOUS
<1>2. DOMAIN <<>> = {}
  OBVIOUS
<1>3. s # <<>> => RemoteViews(s) # {}
  BY <1>1, ViewsAre, Zenon
<1>4. s = <<>> => RemoteViews(s) = {}
  BY <1>2, ViewsAre, Zenon
<1> QED
  BY <1>3, <1>4, Zenon

\* Missing takes away what others have.
LEMMA MissingViews ==
  ASSUME NEW T, NEW from \in Seq(T), NEW remotes
  PROVE  \A v : v \in RemoteViews(Missing(from, remotes)) <=> v \in RemoteViews(from) /\ v \notin RemoteViews(remotes)
<1>1. PICK q : q = Missing(from, remotes)
  OBVIOUS
<1>2. PICK ok : ok = {k \in DOMAIN from : ~Has(remotes, from[k])}
  OBVIOUS
<1>3. IsKept(q, from, ok)
  BY <1>1, <1>2, MissingIs, Zenon
<1>4. \A x : Has(remotes, x) <=> RemoteView(x) \in RemoteViews(remotes)
  BY SameRemoteIs, ViewsAre, Zenon DEF Has
<1>5. \A k \in DOMAIN from : k \in ok <=> RemoteView(from[k]) \notin RemoteViews(remotes)
  BY <1>2, <1>4, Zenon
<1>6. ASSUME NEW v \in RemoteViews(q) PROVE v \in RemoteViews(from) /\ v \notin RemoteViews(remotes)
  <2>1. PICK k \in DOMAIN q : v = RemoteView(q[k])
    BY ViewsAre, Zenon
  <2>2. PICK i \in DOMAIN from : i \in ok /\ q[k] = from[i]
    BY <1>3, Zenon DEF IsKept
  <2>3. v = RemoteView(from[i])
    BY <2>1, <2>2, Zenon
  <2> QED BY <1>5, <2>2, <2>3, ViewsAre, Zenon
<1>7. ASSUME NEW v \in RemoteViews(from), v \notin RemoteViews(remotes) PROVE v \in RemoteViews(q)
  <2>1. PICK i \in DOMAIN from : v = RemoteView(from[i])
    BY ViewsAre, Zenon
  <2>2. i \in ok
    BY <1>5, <1>7, <2>1, Zenon
  <2>3. PICK k \in DOMAIN q : q[k] = from[i]
    BY <1>3, <2>2, Zenon DEF IsKept
  <2> QED BY <2>1, <2>3, ViewsAre, Zenon
<1> QED
  BY <1>1, <1>6, <1>7, Zenon

\* A list that others were added to has both.
LEMMA JoinedViews ==
  ASSUME NEW T, NEW a \in Seq(T), NEW b \in Seq(T)
  PROVE  \A v : v \in RemoteViews(a \o b) <=> v \in RemoteViews(a) \/ v \in RemoteViews(b)
<1>1. PICK c : c = a \o b
  OBVIOUS
<1>2. IsJoined(c, a, b)
  BY <1>1, AppendedIs, Zenon
<1>3. ASSUME NEW v \in RemoteViews(c) PROVE v \in RemoteViews(a) \/ v \in RemoteViews(b)
  <2>1. PICK k \in DOMAIN c : v = RemoteView(c[k])
    BY ViewsAre, Zenon
  <2>2. (\E j \in DOMAIN a : c[k] = a[j]) \/ (\E j \in DOMAIN b : c[k] = b[j])
    BY <1>2, Zenon DEF IsJoined
  <2>3. CASE \E j \in DOMAIN a : c[k] = a[j]
    BY <2>1, <2>3, ViewsAre, Zenon
  <2>4. CASE \E j \in DOMAIN b : c[k] = b[j]
    BY <2>1, <2>4, ViewsAre, Zenon
  <2> QED BY <2>2, <2>3, <2>4
<1>4. ASSUME NEW v \in RemoteViews(a) PROVE v \in RemoteViews(c)
  <2>1. PICK j \in DOMAIN a : v = RemoteView(a[j])
    BY ViewsAre, Zenon
  <2>2. PICK k \in DOMAIN c : c[k] = a[j]
    BY <1>2, Zenon DEF IsJoined
  <2> QED BY <2>1, <2>2, ViewsAre, Zenon
<1>5. ASSUME NEW v \in RemoteViews(b) PROVE v \in RemoteViews(c)
  <2>1. PICK j \in DOMAIN b : v = RemoteView(b[j])
    BY ViewsAre, Zenon
  <2>2. PICK k \in DOMAIN c : c[k] = b[j]
    BY <1>2, Zenon DEF IsJoined
  <2> QED BY <2>1, <2>2, ViewsAre, Zenon
<1> QED
  BY <1>1, <1>3, <1>4, <1>5, Zenon

\* A host that is kept gets the remotes of its item, whatever it had.
LEMMA UpdatedView ==
  ASSUME NEW item, ItemParsed(item), NEW h \in SoundHosts
  PROVE  RemoteViews(Updated(h, item).remotes) = RemoteViews(Remotes(item))
<1>1. PICK R : R = Remotes(item)
  OBVIOUS
<1>2. PICK s : s = h.remotes
  OBVIOUS
<1>3. R \in Seq(RemoteType) /\ s \in Seq(RemoteType)
  <2>1. s \in Seq(RemoteType)
    BY <1>2 DEF SoundHosts, HostType
  <2> QED BY <1>1, <2>1, EndpointsTyped, Zenon
<1>4. PICK a : a = Missing(R, s)
  OBVIOUS
<1>5. PICK b : b = Missing(s, R)
  OBVIOUS
<1>6. PICK c : c = s \o a
  OBVIOUS
<1>7. PICK u : u = Missing(c, b)
  OBVIOUS
<1>8. Updated(h, item).remotes = u
  BY <1>1, <1>2, <1>4, <1>5, <1>6, <1>7, UpdatedIs, Zenon
<1>9. a \in Seq(RemoteType)
  BY <1>3, <1>4, MissingIs, Zenon
<1>10. c \in Seq(RemoteType)
  BY <1>3, <1>6, <1>9, AppendedIs, Zenon
<1>11. \A v : v \in RemoteViews(a) <=> v \in RemoteViews(R) /\ v \notin RemoteViews(s)
  BY <1>3, <1>4, MissingViews, Zenon
<1>12. \A v : v \in RemoteViews(b) <=> v \in RemoteViews(s) /\ v \notin RemoteViews(R)
  BY <1>3, <1>5, MissingViews, Zenon
<1>13. \A v : v \in RemoteViews(c) <=> v \in RemoteViews(s) \/ v \in RemoteViews(a)
  BY <1>3, <1>6, <1>9, JoinedViews, Zenon
<1>14. \A v : v \in RemoteViews(u) <=> v \in RemoteViews(c) /\ v \notin RemoteViews(b)
  BY <1>7, <1>10, MissingViews, Zenon
<1>15. \A v : v \in RemoteViews(u) <=> v \in RemoteViews(R)
  BY <1>11, <1>12, <1>13, <1>14, Zenon
<1>16. RemoteViews(u) = RemoteViews(R)
  BY <1>15, Zenon
<1> QED
  BY <1>1, <1>8, <1>16, Zenon

\* The host that populate_json makes of an item, as it is compared.
NewType(item) == IF check_string(item, "type", "") \in PluginTypes THEN check_string(item, "type", "") ELSE ""
ItemView(item) ==
  [port |-> check_port(item, "port", 0), type |-> NewType(item), locals |-> Locals(item),
   remotes |-> RemoteViews(Remotes(item))]

\* Its fields.
LEMMA ItemViewIs ==
  ASSUME NEW item
  PROVE  /\ ItemView(item).port = check_port(item, "port", 0) /\ ItemView(item).type = NewType(item)
         /\ ItemView(item).locals = Locals(item) /\ ItemView(item).remotes = RemoteViews(Remotes(item))
<1>1. PICK p, t, l, r : /\ p = check_port(item, "port", 0) /\ t = NewType(item) /\ l = Locals(item)
                        /\ r = RemoteViews(Remotes(item))
  OBVIOUS
<1>2. PICK v : v = [port |-> p, type |-> t, locals |-> l, remotes |-> r]
  OBVIOUS
<1>3. v.port = p /\ v.type = t /\ v.locals = l /\ v.remotes = r
  BY <1>2
<1>4. v = ItemView(item)
  BY <1>1, <1>2, Zenon DEF ItemView
<1> QED
  BY <1>1, <1>3, <1>4, Zenon

\* A new host looks like its item, whatever its id.
LEMMA NewHostView ==
  ASSUME NEW item, NEW id
  PROVE  HostView(NewHost(id, item)) = ItemView(item)
<1>1. PICK p, t, l, r : p = check_port(item, "port", 0) /\ t = NewType(item) /\ l = Locals(item) /\ r = Remotes(item)
  OBVIOUS
<1>2. PICK h : h = RemoteProxyHost(id, p, r, l, t)
  OBVIOUS
<1>3. h = NewHost(id, item)
  BY <1>1, <1>2, Zenon DEF NewHost, NewType
<1>4. h.port = p /\ h.type = t /\ h.locals = l /\ h.remotes = r
  BY <1>2 DEF RemoteProxyHost
<1> QED
  BY <1>1, <1>3, <1>4, HostViewIs, Zenon DEF ItemView

\* Locals that did not change are the locals of the item.
LEMMA SameLocals ==
  ASSUME NEW item, ItemParsed(item), NEW v, v.locals \in Seq(LocalType), ~locals_changed(v, item)
  PROVE  Locals(item) = v.locals
<1>1. PICK all : all = Items(item, "locals")
  OBVIOUS
<1>2. PICK ls \in Seq(LocalType) : ls = v.locals
  OBVIOUS
<1>3. /\ Len(all) = Len(ls)
      /\ \A k \in DOMAIN all : LocalLoads(all[k], 0) /\ LocalEndpoint(all[k], 0) = ls[k]
  BY <1>1, <1>2, Zenon DEF locals_changed
<1>4. all \in Seq(Range(all))
  <2>1. Parsed(item, "locals")
    BY Zenon DEF ItemParsed, ArrayParsed
  <2> QED BY <1>1, <2>1, ChecksTyped, Zenon
<1>5. DOMAIN all = 1 .. Len(ls) /\ DOMAIN ls = 1 .. Len(ls) /\ Len(ls) \in Nat
  BY <1>2, <1>3, <1>4
<1>6. PICK s : s = [k \in DOMAIN all |-> LocalEndpoint(all[k], 0)]
  OBVIOUS
<1>7. s = ls
  <2>1. s = [k \in DOMAIN all |-> ls[k]]
    BY <1>3, <1>6, Zenon
  <2>2. ls = [k \in DOMAIN ls |-> ls[k]]
    BY <1>2
  <2>3. DOMAIN all = DOMAIN ls
    BY <1>5
  <2> QED BY <2>1, <2>2, <2>3, Zenon
<1>8. PICK ok : ok = {k \in DOMAIN all : LocalLoads(all[k], 0)}
  OBVIOUS
<1>9. Locals(item) = Kept(ls, ok)
  BY <1>1, <1>6, <1>7, <1>8, Zenon DEF Locals
<1>10. IsKept(Kept(ls, ok), ls, ok)
  BY <1>2, KeptIs, Zenon
<1>11. \A k \in DOMAIN ls : k \in ok
  <2>1. DOMAIN all = DOMAIN ls
    BY <1>5
  <2> QED BY <1>3, <1>8, <2>1, Zenon
<1> QED
  BY <1>2, <1>9, <1>10, <1>11, Zenon DEF IsKept

\* A host that is kept looks like its item.
LEMMA KeptHostView ==
  ASSUME NEW item, ItemParsed(item), NEW h \in SoundHosts, is_same(h, item), ~Changed(h, item)
  PROVE  HostView(Updated(h, item)) = ItemView(item) /\ Locals(item) = h.locals
<1>1. h.locals \in Seq(LocalType) /\ h.type \in PluginTypes \cup {""}
  BY DEF SoundHosts, HostType
<1>2. h.type = check_string(item, "type", "") /\ ~locals_changed(h, item)
  BY Zenon DEF Changed, param_changed
<1>3. Locals(item) = h.locals
  BY <1>1, <1>2, SameLocals, Zenon
<1>4. h.port = check_port(item, "port", 0)
  BY Zenon DEF is_same
<1>5. h.type = NewType(item)
  BY <1>1, <1>2 DEF NewType
<1>6. PICK u : u = Updated(h, item)
  OBVIOUS
<1>7. Alike(h, u) /\ RemoteViews(u.remotes) = RemoteViews(Remotes(item))
  BY <1>6, UpdatedIs, UpdatedView, Zenon
<1>8. u.port = h.port /\ u.type = h.type /\ u.locals = h.locals
  BY <1>7, Zenon DEF Alike
<1> QED
  BY <1>3, <1>4, <1>5, <1>6, <1>7, <1>8, HostViewIs, Zenon DEF ItemView

\* What is_same and the comparison of the parameters read of a host is in its view.
LEMMA ViewCompares ==
  ASSUME NEW h, NEW item
  PROVE  /\ is_same(HostView(h), item) <=> is_same(h, item)
         /\ is_same_throws(HostView(h), item) <=> is_same_throws(h, item)
         /\ Changed(HostView(h), item) <=> Changed(h, item)
<1>1. PICK v : v = HostView(h)
  OBVIOUS
<1>2. v.port = h.port /\ v.type = h.type /\ v.locals = h.locals
  BY <1>1, HostViewIs, Zenon
<1>3. is_same(v, item) <=> is_same(h, item)
  BY <1>2, Zenon DEF is_same
<1>4. is_same_throws(v, item) <=> is_same_throws(h, item)
  BY <1>3, Zenon DEF is_same_throws
<1>5. locals_changed(v, item) <=> locals_changed(h, item)
  BY <1>2, Zenon DEF locals_changed
<1>6. Changed(v, item) <=> Changed(h, item)
  BY <1>2, <1>5, Zenon DEF Changed, param_changed
<1> QED
  BY <1>1, <1>3, <1>4, <1>6, Zenon

\* What an item does to hosts that look like V: it throws, it takes the place of
\* the hosts with its port, or it adds one.
Known(V, item) == \E v \in V : is_same(v, item)
Throws(V, item) == \E v \in V : is_same(v, item) /\ (is_same_throws(v, item) \/ Changed(v, item))
NextViews(V, item) ==
  IF Throws(V, item) THEN V
  ELSE IF Known(V, item) THEN {v \in V : ~is_same(v, item)} \cup {ItemView(item)}
  ELSE IF Remotes(item) = <<>> \/ Locals(item) = <<>> THEN V
  ELSE V \cup {ItemView(item)}

\* populate_json does so for one item.
LEMMA PopulateHostViews ==
  ASSUME NEW l \in SoundLists, ~l.thrown, NEW item, ItemParsed(item)
  PROVE  /\ PopulateHost(l, item, TRUE).thrown <=> Throws(HostViews(l.hosts), item)
         /\ HostViews(PopulateHost(l, item, TRUE).hosts) = NextViews(HostViews(l.hosts), item)
<1>1. /\ l \in ListsType /\ l.hosts \in Seq(HostType) /\ l.hostids \in Nat /\ l.hostids + 1 \in Nat
      /\ HostsSound(l.hosts, l.hostids)
  <2>1. l \in ListsType /\ l.hosts \in Seq(HostType) /\ l.hostids \in Nat /\ HostsSound(l.hosts, l.hostids)
    BY ListsFields, Zenon DEF SoundLists
  <2> QED BY <2>1
<1>2. PICK V : V = HostViews(l.hosts)
  OBVIOUS
<1>3. \A v : v \in V <=> \E k \in DOMAIN l.hosts : v = HostView(l.hosts[k])
  BY <1>2, ViewsAre, Zenon
<1>4. PICK r : r = PopulateHost(l, item, TRUE)
  OBVIOUS
<1>5. TRUE \in BOOLEAN /\ FALSE \in BOOLEAN
  OBVIOUS
<1>6. \A k \in DOMAIN l.hosts : k \in Olds(l, item) <=> is_same(HostView(l.hosts[k]), item)
  BY ViewCompares, Zenon DEF Olds
<1>7. Known(V, item) <=> Olds(l, item) # {}
  BY <1>3, <1>6, Zenon DEF Known, Olds
<1>8. Throws(V, item) <=> Bad(l, item)
  BY <1>3, <1>6, ViewCompares, Zenon DEF Throws, Bad, Olds
<1>9. Bad(l, item) => Olds(l, item) # {}
  BY Zenon DEF Bad
<1>10. ASSUME NEW hs \in Seq(HostType), NEW i \in Nat, NEW t \in BOOLEAN
       PROVE  With(l, hs, i, t).hosts = hs /\ With(l, hs, i, t).thrown = t
  <2>1. l \in ListsType
    BY <1>1, Zenon
  <2> QED BY <2>1, WithFields
<1>11. CASE Bad(l, item)
  <2>1. r = With(l, l.hosts, l.hostids, TRUE)
    BY <1>1, <1>4, <1>5, <1>11, PopulateHostIs, Zenon
  <2>2. r.hosts = l.hosts /\ r.thrown = TRUE
    BY <1>1, <1>5, <1>10, <2>1, Zenon
  <2>3. NextViews(V, item) = V
    BY <1>8, <1>11, Zenon DEF NextViews
  <2> QED BY <1>2, <1>4, <1>8, <1>11, <2>2, <2>3, Zenon
<1>12. CASE ~Bad(l, item) /\ Olds(l, item) # {}
  <2>1. PICK u : u = UpdatedHosts(l, item)
    OBVIOUS
  <2>2. r = With(l, u, l.hostids, FALSE)
    BY <1>1, <1>4, <1>5, <1>12, <2>1, PopulateHostIs, Zenon
  <2>3. u \in Seq(HostType)
    BY <2>1, UpdatedHostsSound, Zenon
  <2>4. r.hosts = u /\ r.thrown = FALSE
    BY <1>1, <1>5, <1>10, <2>2, <2>3, Zenon
  <2>5. DOMAIN u = DOMAIN l.hosts /\ \A k \in DOMAIN l.hosts :
          u[k] = IF k \in Olds(l, item) THEN Updated(l.hosts[k], item) ELSE l.hosts[k]
    BY <2>1, Zenon DEF UpdatedHosts
  <2>6. \A k \in Olds(l, item) : k \in DOMAIN l.hosts /\ HostView(u[k]) = ItemView(item)
    <3> SUFFICES ASSUME NEW k \in Olds(l, item) PROVE k \in DOMAIN l.hosts /\ HostView(u[k]) = ItemView(item)
      OBVIOUS
    <3>1. k \in DOMAIN l.hosts /\ is_same(l.hosts[k], item) /\ ~Changed(l.hosts[k], item)
      BY <1>12, Zenon DEF Olds, Bad
    <3>2. l.hosts[k] \in SoundHosts
      BY <1>1, <3>1, Zenon DEF HostsSound
    <3>3. HostView(Updated(l.hosts[k], item)) = ItemView(item)
      BY <3>1, <3>2, KeptHostView, Zenon
    <3> QED BY <2>5, <3>1, <3>3, Zenon
  <2>7. PICK k0 : k0 \in Olds(l, item)
    BY <1>12, Zenon
  <2>8. PICK N : N = {v \in V : ~is_same(v, item)} \cup {ItemView(item)}
    OBVIOUS
  <2>9. ASSUME NEW v \in HostViews(u) PROVE v \in N
    <3>1. PICK k \in DOMAIN u : v = HostView(u[k])
      BY ViewsAre, Zenon
    <3>2. CASE k \in Olds(l, item)
      BY <2>6, <2>8, <3>1, <3>2, Zenon
    <3>3. CASE k \notin Olds(l, item)
      <4>1. k \in DOMAIN l.hosts /\ v = HostView(l.hosts[k])
        BY <2>5, <3>1, <3>3, Zenon
      <4> QED BY <1>3, <1>6, <2>8, <3>3, <4>1, Zenon
    <3> QED BY <3>2, <3>3
  <2>10. ASSUME NEW v \in N PROVE v \in HostViews(u)
    <3>1. CASE v = ItemView(item)
      BY <2>5, <2>6, <2>7, <3>1, ViewsAre, Zenon
    <3>2. CASE v \in V /\ ~is_same(v, item)
      <4>1. PICK k \in DOMAIN l.hosts : v = HostView(l.hosts[k])
        BY <1>3, <3>2, Zenon
      <4>2. k \notin Olds(l, item)
        BY <1>6, <3>2, <4>1, Zenon
      <4>3. k \in DOMAIN u /\ v = HostView(u[k])
        BY <2>5, <4>1, <4>2, Zenon
      <4> QED BY <4>3, ViewsAre, Zenon
    <3> QED BY <2>8, <3>1, <3>2, Zenon
  <2>11. HostViews(u) = N
    BY <2>9, <2>10, Zenon
  <2>12. NextViews(V, item) = N
    BY <1>7, <1>8, <1>12, <2>8, Zenon DEF NextViews
  <2> QED BY <1>2, <1>4, <1>8, <1>12, <2>4, <2>11, <2>12, Zenon
<1>13. CASE Olds(l, item) = {} /\ (Remotes(item) = <<>> \/ Locals(item) = <<>>)
  <2>1. r = l
    BY <1>1, <1>4, <1>5, <1>13, PopulateHostIs, Zenon
  <2>2. NextViews(V, item) = V
    BY <1>7, <1>8, <1>9, <1>13, Zenon DEF NextViews
  <2> QED BY <1>2, <1>4, <1>8, <1>9, <1>13, <2>1, <2>2, Zenon
<1>14. CASE Olds(l, item) = {} /\ Remotes(item) # <<>> /\ Locals(item) # <<>>
  <2>1. PICK new : new = NewHost(l.hostids + 1, item)
    OBVIOUS
  <2>2. PICK u : u = Append(l.hosts, new)
    OBVIOUS
  <2>3. r = With(l, u, l.hostids + 1, FALSE)
    BY <1>1, <1>4, <1>5, <1>14, <2>1, <2>2, PopulateHostIs, Zenon
  <2>4. new \in HostType /\ HostView(new) = ItemView(item)
    BY <1>1, <2>1, NewHostIs, NewHostView, Zenon DEF SoundHosts
  <2>5. /\ u \in Seq(HostType) /\ Len(l.hosts) \in Nat /\ DOMAIN l.hosts = 1 .. Len(l.hosts)
        /\ DOMAIN u = 1 .. Len(l.hosts) + 1
        /\ u[Len(l.hosts) + 1] = new /\ \A j \in DOMAIN l.hosts : u[j] = l.hosts[j]
    BY <1>1, <2>2, <2>4, AppendIs
  <2>6. r.hosts = u /\ r.thrown = FALSE
    BY <1>1, <1>5, <1>10, <2>3, <2>5, Zenon
  <2>7. /\ \A j \in DOMAIN l.hosts : j \in DOMAIN u /\ u[j] = l.hosts[j]
        /\ \A j \in DOMAIN u : j \in DOMAIN l.hosts \/ u[j] = new
        /\ \E j \in DOMAIN u : u[j] = new
    BY <2>5
  <2>8. \A v : v \in HostViews(u) <=> v \in V \/ v = ItemView(item)
    <3> SUFFICES ASSUME NEW v PROVE v \in HostViews(u) <=> v \in V \/ v = ItemView(item)
      OBVIOUS
    <3>1. v \in HostViews(u) => v \in V \/ v = ItemView(item)
      <4> SUFFICES ASSUME v \in HostViews(u) PROVE v \in V \/ v = ItemView(item)
        OBVIOUS
      <4>1. PICK j \in DOMAIN u : v = HostView(u[j])
        BY ViewsAre, Zenon
      <4>2. CASE u[j] = new
        BY <2>4, <4>1, <4>2, Zenon
      <4>3. CASE j \in DOMAIN l.hosts
        BY <1>3, <2>7, <4>1, <4>3, Zenon
      <4> QED BY <2>7, <4>2, <4>3, Zenon
    <3>2. v \in V => v \in HostViews(u)
      BY <1>3, <2>7, ViewsAre, Zenon
    <3>3. v = ItemView(item) => v \in HostViews(u)
      BY <2>4, <2>7, ViewsAre, Zenon
    <3> QED BY <3>1, <3>2, <3>3
  <2>9. NextViews(V, item) = V \cup {ItemView(item)}
    BY <1>7, <1>8, <1>9, <1>14, Zenon DEF NextViews
  <2>10. HostViews(u) = V \cup {ItemView(item)}
    BY <2>8, Zenon
  <2> QED BY <1>2, <1>4, <1>8, <1>9, <1>14, <2>6, <2>9, <2>10, Zenon
<1> QED
  BY <1>11, <1>12, <1>13, <1>14, Zenon

\* The lists after each item, and how they look.
ViewRun(f, l, items) ==
  /\ f[0] = l /\ f[Len(items)] = PopulateHosts(l, items, TRUE)
  /\ \A n \in 1 .. Len(items) :
       /\ f[n - 1].thrown => f[n] = f[n - 1]
       /\ ~f[n - 1].thrown => /\ f[n].thrown <=> Throws(HostViews(f[n - 1].hosts), items[n])
                              /\ HostViews(f[n].hosts) = NextViews(HostViews(f[n - 1].hosts), items[n])

\* There is such a run.
LEMMA ViewPass ==
  ASSUME NEW l \in SoundLists, NEW items, Len(items) \in Nat, \A n \in 1 .. Len(items) : ItemParsed(items[n])
  PROVE  \E f : ViewRun(f, l, items)
<1>1. PICK S : S = [n \in 0 .. Len(items) |-> SoundLists]
  OBVIOUS
<1>2. l \in S[0] /\ \A n \in 0 .. Len(items) : S[n] = SoundLists
  BY <1>1
<1>3. TRUE \in BOOLEAN
  OBVIOUS
<1>4. \A n \in 1 .. Len(items) : n \in 0 .. Len(items) /\ n - 1 \in 0 .. Len(items)
  OBVIOUS
<1>5. ASSUME NEW n \in 1 .. Len(items), NEW m \in S[n - 1] PROVE PopulateHost(m, items[n], TRUE) \in S[n]
  <2>1. n \in 0 .. Len(items) /\ n - 1 \in 0 .. Len(items)
    BY <1>4
  <2>2. m \in SoundLists
    BY <1>2, <1>5, <2>1, Zenon
  <2>3. PopulateHost(m, items[n], TRUE) \in Descendants(m)
    BY <1>3, <2>2, PopulateHostSound, Zenon
  <2> QED BY <1>2, <2>1, <2>3, Zenon DEF Descendants
<1>6. PICK f : HostsRun(f, l, items, TRUE, S)
  BY <1>2, <1>5, HostsPass, Zenon
<1>7. ASSUME NEW n \in 1 .. Len(items)
      PROVE  /\ f[n - 1].thrown => f[n] = f[n - 1]
             /\ ~f[n - 1].thrown => /\ f[n].thrown <=> Throws(HostViews(f[n - 1].hosts), items[n])
                                    /\ HostViews(f[n].hosts) = NextViews(HostViews(f[n - 1].hosts), items[n])
  <2>1. PICK m : m = f[n - 1]
    OBVIOUS
  <2>2. m \in SoundLists /\ f[n] = PopulateHost(m, items[n], TRUE) /\ ItemParsed(items[n])
    BY <1>2, <1>4, <1>6, <2>1, Zenon DEF HostsRun
  <2>3. m.thrown => f[n] = m
    BY <1>3, <2>2, PopulateHostIs, Zenon DEF SoundLists
  <2>4. ~m.thrown => /\ f[n].thrown <=> Throws(HostViews(m.hosts), items[n])
                     /\ HostViews(f[n].hosts) = NextViews(HostViews(m.hosts), items[n])
    BY <2>2, PopulateHostViews, Zenon
  <2> QED BY <2>1, <2>3, <2>4, Zenon
<1>8. f[0] = l /\ f[Len(items)] = PopulateHosts(l, items, TRUE)
  BY <1>6, Zenon DEF HostsRun
<1>9. ViewRun(f, l, items)
  BY <1>7, <1>8, Zenon DEF ViewRun
<1> QED
  BY <1>9, Zenon

\* Lists that look the same before a document is populated do so afterwards,
\* whatever the ids, and an exception is thrown from both or from none.
LEMMA PopulateSameViews ==
  ASSUME NEW a \in SoundLists, NEW b \in SoundLists, ~a.thrown, ~b.thrown, HostViews(a.hosts) = HostViews(b.hosts),
         NEW items, Len(items) \in Nat, \A n \in 1 .. Len(items) : ItemParsed(items[n])
  PROVE  /\ PopulateHosts(a, items, TRUE).thrown <=> PopulateHosts(b, items, TRUE).thrown
         /\ HostViews(PopulateHosts(a, items, TRUE).hosts) = HostViews(PopulateHosts(b, items, TRUE).hosts)
<1>1. PICK f : ViewRun(f, a, items)
  BY ViewPass, Zenon
<1>2. PICK g : ViewRun(g, b, items)
  BY ViewPass, Zenon
<1>3. PICK T : T = {n \in Nat : (f[n].thrown <=> g[n].thrown) /\ HostViews(f[n].hosts) = HostViews(g[n].hosts)}
  OBVIOUS
<1>4. 0 \in T
  <2>1. f[0] = a /\ g[0] = b /\ 0 \in Nat
    BY <1>1, <1>2 DEF ViewRun
  <2> QED BY <1>3, <2>1, Zenon
<1>5. ASSUME NEW k \in 0 .. Len(items), k + 1 \in 0 .. Len(items), k \in T
      PROVE  k + 1 \in T
  <2>1. PICK n \in 1 .. Len(items) : n = k + 1 /\ n - 1 = k /\ n \in Nat
    BY <1>5
  <2>2. (f[k].thrown <=> g[k].thrown) /\ HostViews(f[k].hosts) = HostViews(g[k].hosts)
    BY <1>3, <1>5, Zenon
  <2>3. /\ f[k].thrown => f[n] = f[k]
        /\ ~f[k].thrown => /\ f[n].thrown <=> Throws(HostViews(f[k].hosts), items[n])
                           /\ HostViews(f[n].hosts) = NextViews(HostViews(f[k].hosts), items[n])
    BY <1>1, <2>1, Zenon DEF ViewRun
  <2>4. /\ g[k].thrown => g[n] = g[k]
        /\ ~g[k].thrown => /\ g[n].thrown <=> Throws(HostViews(g[k].hosts), items[n])
                           /\ HostViews(g[n].hosts) = NextViews(HostViews(g[k].hosts), items[n])
    BY <1>2, <2>1, Zenon DEF ViewRun
  <2>5. (f[n].thrown <=> g[n].thrown) /\ HostViews(f[n].hosts) = HostViews(g[n].hosts)
    BY <2>2, <2>3, <2>4, Zenon
  <2> QED BY <1>3, <2>1, <2>5, Zenon
<1>6. \A k \in 0 .. Len(items) : k \in T
  BY <1>4, <1>5, BoundedInduction, Zenon
<1>7. Len(items) \in 0 .. Len(items)
  OBVIOUS
<1>8. /\ f[Len(items)].thrown <=> g[Len(items)].thrown
      /\ HostViews(f[Len(items)].hosts) = HostViews(g[Len(items)].hosts)
  BY <1>3, <1>6, <1>7, Zenon
<1> QED
  BY <1>1, <1>2, <1>8, Zenon DEF ViewRun

\* A host that an upload in place kept and a start on the document has not made
\* yet: nothing of the document was for it so far, or it lost its remotes.
Waits(v, U, items, n) ==
  /\ v.port # 0 /\ \A u \in U : u.port # v.port
  /\ v.remotes = {} \/ \A i \in 1 .. n : check_port(items[i], "port", 0) # v.port

\* V is what an upload in place has, U what a start on the document has, after
\* n items of it.
CatchingUp(V, U, items, n) ==
  /\ U \subseteq V /\ \A v \in V : v \in U \/ Waits(v, U, items, n)
  /\ \A v \in V : v.locals \in Seq(LocalType) /\ v.locals # <<>>
  /\ \A v \in V : v.port # 0 => \E i \in 1 .. Len(items) : check_port(items[i], "port", 0) = v.port

\* One more item.
LEMMA CatchesUp ==
  ASSUME NEW V, NEW U, NEW items, Len(items) \in Nat, NEW n \in 1 .. Len(items), ItemParsed(items[n]),
         CatchingUp(V, U, items, n - 1), ~Throws(V, items[n])
  PROVE  ~Throws(U, items[n]) /\ CatchingUp(NextViews(V, items[n]), NextViews(U, items[n]), items, n)
<1>1. PICK item : item = items[n] /\ ItemParsed(item)
  OBVIOUS
<1>2. PICK p : p = check_port(item, "port", 0)
  OBVIOUS
<1>3. p \in Port /\ (p > 0 <=> p # 0)
  <2>1. Parsed(item, "port")
    BY <1>1, Zenon DEF ItemParsed
  <2>2. p \in Port
    BY <1>2, <2>1, ChecksTyped
  <2> QED BY <2>2, PortFacts, Zenon
<1>4. \A v : is_same(v, item) <=> v.port = p /\ p # 0
  BY <1>2, <1>3, Zenon DEF is_same
<1>5. PICK iv : iv = ItemView(item)
  OBVIOUS
<1>6. iv.port = p /\ iv.locals = Locals(item) /\ iv.remotes = RemoteViews(Remotes(item))
  BY <1>2, <1>5, ItemViewIs, Zenon
<1>7. Locals(item) \in Seq(LocalType) /\ (Remotes(item) = <<>> => iv.remotes = {})
  BY <1>1, <1>6, EndpointsTyped, NoRemotes, Zenon
<1>8. /\ U \subseteq V /\ \A v \in V : v \in U \/ Waits(v, U, items, n - 1)
      /\ \A v \in V : v.locals \in Seq(LocalType) /\ v.locals # <<>>
      /\ \A v \in V : v.port # 0 => \E i \in 1 .. Len(items) : check_port(items[i], "port", 0) = v.port
  BY Zenon DEF CatchingUp
<1>9. ~Throws(U, item) /\ ~Throws(V, item)
  BY <1>1, <1>8, Zenon DEF Throws
<1>10. \A i \in 1 .. n : i \in 1 .. n - 1 \/ i = n
  OBVIOUS
\* a view with another port goes on waiting when nothing but iv is added
<1>11. ASSUME NEW v, Waits(v, U, items, n - 1), v.port # p, NEW W, \A u \in W : u \in U \/ u = iv
       PROVE  Waits(v, W, items, n)
  <2>1. \A u \in W : u.port # v.port
    BY <1>6, <1>11, Zenon DEF Waits
  <2>2. v.remotes = {} \/ \A i \in 1 .. n : check_port(items[i], "port", 0) # v.port
    BY <1>1, <1>2, <1>10, <1>11, Zenon DEF Waits
  <2> QED BY <1>11, <2>1, <2>2, Zenon DEF Waits
<1>12. PICK X, Y : X = NextViews(V, item) /\ Y = NextViews(U, item)
  OBVIOUS
<1>13. iv.port # 0 => \E i \in 1 .. Len(items) : check_port(items[i], "port", 0) = iv.port
  BY <1>1, <1>2, <1>6, Zenon
<1>14. ASSUME NEW v \in V, is_same(v, item) PROVE iv.locals = v.locals
  <2>1. ~Changed(v, item)
    BY <1>9, <1>14, Zenon DEF Throws
  <2> QED BY <1>1, <1>6, <1>8, <2>1, SameLocals, Zenon DEF Changed
<1>15. CASE Known(U, item)
  <2>1. Known(V, item)
    BY <1>8, <1>15, Zenon DEF Known
  <2>2. X = {v \in V : ~is_same(v, item)} \cup {iv} /\ Y = {v \in U : ~is_same(v, item)} \cup {iv}
    BY <1>5, <1>9, <1>12, <1>15, <2>1, Zenon DEF NextViews
  <2>3. p # 0
    BY <1>4, <1>15, Zenon DEF Known
  <2>4. Y \subseteq X
    BY <1>8, <2>2, Zenon
  <2>5. \A v \in X : v \in Y \/ Waits(v, Y, items, n)
    <3> SUFFICES ASSUME NEW v \in X, v \notin Y PROVE Waits(v, Y, items, n)
      OBVIOUS
    <3>1. v \in V /\ ~is_same(v, item) /\ v \notin U
      BY <2>2, Zenon
    <3>2. Waits(v, U, items, n - 1) /\ v.port # p
      BY <1>4, <1>8, <2>3, <3>1, Zenon
    <3>3. \A u \in Y : u \in U \/ u = iv
      BY <2>2, Zenon
    <3> QED BY <1>11, <3>2, <3>3, Zenon
  <2>6. iv.locals # <<>>
    BY <1>8, <1>14, <2>1, Zenon DEF Known
  <2>7. \A v \in X : v \in V \/ v = iv
    BY <2>2, Zenon
  <2> QED BY <1>1, <1>6, <1>7, <1>8, <1>9, <1>12, <1>13, <2>4, <2>5, <2>6, <2>7, Zenon DEF CatchingUp
<1>16. CASE ~Known(U, item) /\ Known(V, item)
  <2>1. X = {v \in V : ~is_same(v, item)} \cup {iv}
    BY <1>5, <1>9, <1>12, <1>16, Zenon DEF NextViews
  <2>2. iv.locals # <<>> /\ p # 0
    BY <1>4, <1>8, <1>14, <1>16, Zenon DEF Known
  <2>3. \A u \in U : u \in X
    BY <1>8, <1>16, <2>1, Zenon DEF Known
  <2>4. \A v \in X : v \in V \/ v = iv
    BY <2>1, Zenon
  <2>5. ASSUME NEW v \in X, v # iv, v \notin U, NEW W, \A u \in W : u \in U \/ u = iv PROVE Waits(v, W, items, n)
    <3>1. v \in V /\ ~is_same(v, item)
      BY <2>1, <2>5, Zenon
    <3>2. Waits(v, U, items, n - 1) /\ v.port # p
      BY <1>4, <1>8, <2>2, <2>5, <3>1, Zenon
    <3> QED BY <1>11, <2>5, <3>2, Zenon
  <2>6. CASE Remotes(item) = <<>>
    <3>1. Y = U
      BY <1>9, <1>12, <1>16, <2>6, Zenon DEF NextViews
    <3>2. Waits(iv, Y, items, n)
      BY <1>4, <1>6, <1>7, <1>16, <2>2, <2>6, <3>1, Zenon DEF Waits, Known
    <3>3. \A v \in X : v \in Y \/ Waits(v, Y, items, n)
      BY <2>5, <3>1, <3>2, Zenon
    <3>4. Y \subseteq X
      BY <2>3, <3>1, Zenon
    <3> QED BY <1>1, <1>6, <1>7, <1>8, <1>9, <1>12, <1>13, <2>2, <2>4, <3>3, <3>4, Zenon DEF CatchingUp
  <2>7. CASE Remotes(item) # <<>>
    <3>1. Y = U \cup {iv}
      BY <1>5, <1>6, <1>9, <1>12, <1>16, <2>2, <2>7, Zenon DEF NextViews
    <3>2. \A v \in X : v \in Y \/ Waits(v, Y, items, n)
      BY <2>5, <3>1, Zenon
    <3>3. Y \subseteq X
      BY <2>1, <2>3, <3>1, Zenon
    <3> QED BY <1>1, <1>6, <1>7, <1>8, <1>9, <1>12, <1>13, <2>2, <2>4, <3>2, <3>3, Zenon DEF CatchingUp
  <2> QED BY <2>6, <2>7
<1>17. CASE ~Known(V, item)
  <2>1. ~Known(U, item)
    BY <1>8, <1>17, Zenon DEF Known
  <2>2. ASSUME NEW v \in V, v \notin U, NEW W, \A u \in W : u \in U \/ u = iv PROVE Waits(v, W, items, n)
    <3>1. Waits(v, U, items, n - 1) /\ ~is_same(v, item)
      BY <1>8, <1>17, <2>2, Zenon DEF Known
    <3>2. v.port # p
      BY <1>4, <3>1, Zenon DEF Waits
    <3> QED BY <1>11, <2>2, <3>1, <3>2, Zenon
  <2>3. CASE Remotes(item) = <<>> \/ Locals(item) = <<>>
    <3>1. X = V /\ Y = U
      BY <1>9, <1>12, <1>17, <2>1, <2>3, Zenon DEF NextViews
    <3>2. \A v \in X : v \in Y \/ Waits(v, Y, items, n)
      BY <2>2, <3>1, Zenon
    <3> QED BY <1>1, <1>8, <1>9, <1>12, <3>1, <3>2, Zenon DEF CatchingUp
  <2>4. CASE Remotes(item) # <<>> /\ Locals(item) # <<>>
    <3>1. X = V \cup {iv} /\ Y = U \cup {iv}
      BY <1>5, <1>9, <1>12, <1>17, <2>1, <2>4, Zenon DEF NextViews
    <3>2. \A v \in X : v \in Y \/ Waits(v, Y, items, n)
      BY <2>2, <3>1, Zenon
    <3>3. Y \subseteq X /\ \A v \in X : v \in V \/ v = iv
      BY <1>8, <3>1, Zenon
    <3> QED BY <1>1, <1>6, <1>7, <1>8, <1>9, <1>12, <1>13, <2>4, <3>2, <3>3, Zenon DEF CatchingUp
  <2> QED BY <2>3, <2>4
<1> QED
  BY <1>15, <1>16, <1>17, Zenon

\* The hosts that anybody may connect to.
Live(V) == {v \in V : v.remotes # {}}

\* A document that is populated over hosts which it has items for leaves, as far
\* as they have remotes, the hosts that it gives from nothing.
LEMMA CatchPass ==
  ASSUME NEW a \in SoundLists, NEW b \in SoundLists, ~a.thrown, ~b.thrown, b.hosts = <<>>,
         NEW items, Len(items) \in Nat, \A n \in 1 .. Len(items) : ItemParsed(items[n]),
         \A k \in DOMAIN a.hosts : a.hosts[k].locals # <<>> /\ \E i \in 1 .. Len(items) : is_same(a.hosts[k], items[i]),
         ~PopulateHosts(a, items, TRUE).thrown
  PROVE  Live(HostViews(PopulateHosts(a, items, TRUE).hosts)) = Live(HostViews(PopulateHosts(b, items, TRUE).hosts))
<1>1. PICK f : ViewRun(f, a, items)
  BY ViewPass, Zenon
<1>2. PICK g : ViewRun(g, b, items)
  BY ViewPass, Zenon
<1>3. PICK T : T = {n \in Nat : ~f[n].thrown =>
                      ~g[n].thrown /\ CatchingUp(HostViews(f[n].hosts), HostViews(g[n].hosts), items, n)}
  OBVIOUS
<1>4. CatchingUp(HostViews(a.hosts), HostViews(b.hosts), items, 0)
  <2>1. PICK V : V = HostViews(a.hosts)
    OBVIOUS
  <2>2. HostViews(b.hosts) = {}
    <3>1. DOMAIN b.hosts = {}
      OBVIOUS
    <3> QED BY <3>1, ViewsAre, Zenon
  <2>3. ASSUME NEW v \in V
        PROVE  /\ v.port # 0 /\ v.locals \in Seq(LocalType) /\ v.locals # <<>>
               /\ \E i \in 1 .. Len(items) : check_port(items[i], "port", 0) = v.port
    <3>1. PICK k \in DOMAIN a.hosts : v = HostView(a.hosts[k])
      BY <2>1, ViewsAre, Zenon
    <3>2. PICK h : h = a.hosts[k]
      OBVIOUS
    <3>3. v.port = h.port /\ v.locals = h.locals
      BY <3>1, <3>2, HostViewIs, Zenon
    <3>4. h \in HostType
      BY <3>2, Zenon DEF SoundLists, HostsSound, SoundHosts
    <3>5. h.locals \in Seq(LocalType) /\ h.locals # <<>>
      <4>1. h.locals # <<>>
        BY <3>2, Zenon
      <4> QED BY <3>4, <4>1 DEF HostType
    <3>6. PICK i \in 1 .. Len(items) : is_same(h, items[i])
      BY <3>2, Zenon
    <3>7. PICK p : p = check_port(items[i], "port", 0)
      OBVIOUS
    <3>8. h.port = p /\ p > 0
      BY <3>6, <3>7, Zenon DEF is_same
    <3>9. p # 0
      BY <3>8
    <3> QED BY <3>3, <3>5, <3>7, <3>8, <3>9, Zenon
  <2>4. \A i : i \notin 1 .. 0
    OBVIOUS
  <2>5. \A v \in V : Waits(v, {}, items, 0)
    BY <2>3, <2>4, Zenon DEF Waits
  <2> QED BY <2>1, <2>2, <2>3, <2>5, Zenon DEF CatchingUp
<1>5. 0 \in T
  <2>1. f[0] = a /\ g[0] = b /\ 0 \in Nat
    BY <1>1, <1>2 DEF ViewRun
  <2> QED BY <1>3, <1>4, <2>1, Zenon
<1>6. ASSUME NEW k \in 0 .. Len(items), k + 1 \in 0 .. Len(items), k \in T
      PROVE  k + 1 \in T
  <2>1. PICK n \in 1 .. Len(items) : n = k + 1 /\ n - 1 = k /\ n \in Nat
    BY <1>6
  <2>2. ~f[k].thrown => ~g[k].thrown /\ CatchingUp(HostViews(f[k].hosts), HostViews(g[k].hosts), items, k)
    BY <1>3, <1>6, Zenon
  <2>3. /\ f[k].thrown => f[n] = f[k]
        /\ ~f[k].thrown => /\ f[n].thrown <=> Throws(HostViews(f[k].hosts), items[n])
                           /\ HostViews(f[n].hosts) = NextViews(HostViews(f[k].hosts), items[n])
    BY <1>1, <2>1, Zenon DEF ViewRun
  <2>4. ~g[k].thrown => /\ g[n].thrown <=> Throws(HostViews(g[k].hosts), items[n])
                        /\ HostViews(g[n].hosts) = NextViews(HostViews(g[k].hosts), items[n])
    BY <1>2, <2>1, Zenon DEF ViewRun
  <2>5. ASSUME ~f[n].thrown
        PROVE  ~g[n].thrown /\ CatchingUp(HostViews(f[n].hosts), HostViews(g[n].hosts), items, n)
    <3>1. PICK V : V = HostViews(f[k].hosts)
      OBVIOUS
    <3>2. PICK U : U = HostViews(g[k].hosts)
      OBVIOUS
    <3>3. ~f[k].thrown
      BY <2>3, <2>5, Zenon
    <3>4. ~Throws(V, items[n]) /\ HostViews(f[n].hosts) = NextViews(V, items[n])
      BY <2>3, <2>5, <3>1, <3>3, Zenon
    <3>5. CatchingUp(V, U, items, n - 1)
      BY <2>1, <2>2, <3>1, <3>2, <3>3, Zenon
    <3>6. ~Throws(U, items[n]) /\ CatchingUp(NextViews(V, items[n]), NextViews(U, items[n]), items, n)
      BY <3>4, <3>5, CatchesUp, Zenon
    <3>7. ~g[n].thrown /\ HostViews(g[n].hosts) = NextViews(U, items[n])
      BY <2>2, <2>4, <3>2, <3>3, <3>6, Zenon
    <3> QED BY <3>4, <3>6, <3>7, Zenon
  <2> QED BY <1>3, <2>1, <2>5, Zenon
<1>7. \A k \in 0 .. Len(items) : k \in T
  BY <1>5, <1>6, BoundedInduction, Zenon
<1>8. Len(items) \in 0 .. Len(items)
  OBVIOUS
<1>9. PICK V : V = HostViews(PopulateHosts(a, items, TRUE).hosts)
  OBVIOUS
<1>10. PICK U : U = HostViews(PopulateHosts(b, items, TRUE).hosts)
  OBVIOUS
<1>11. CatchingUp(V, U, items, Len(items))
  BY <1>1, <1>2, <1>3, <1>7, <1>8, <1>9, <1>10, Zenon DEF ViewRun
<1>12. \A v \in V : v.remotes # {} => v \in U
  BY <1>11, Zenon DEF CatchingUp, Waits
<1>13. \A v : v \in Live(V) <=> v \in Live(U)
  BY <1>11, <1>12, Zenon DEF CatchingUp, Live
<1>14. Live(V) = Live(U)
  BY <1>13, Zenon
<1> QED
  BY <1>9, <1>10, <1>14, Zenon

\* The client that an item gives as it is compared, and whether there is one.
ItemClient(item) == ClientView(NewClient(1, item))
Made(c) == IF c.provider THEN c.locals # <<>> ELSE c.active /\ c.remotes # <<>>
NextClients(V, item) ==
  IF (\A v \in V : v.port # check_port(item, "port", 0)) /\ Made(NewClient(1, item)) THEN V \cup {ItemClient(item)}
  ELSE V

\* The id of a new client says nothing about it.
LEMMA NewClientView ==
  ASSUME NEW id, NEW item
  PROVE  /\ ClientView(NewClient(id, item)) = ItemClient(item)
         /\ Made(NewClient(id, item)) <=> Made(NewClient(1, item))
<1>1. PICK t, p, q, l, r : /\ t = check_bool(item, "provider", FALSE) /\ q = check_bool(item, "active", TRUE)
                           /\ p = IF t THEN 0 ELSE check_port(item, "port", 0)
                           /\ l = (IF t THEN Locals(item) ELSE <<>>) /\ r = Remotes(item)
  OBVIOUS
<1>2. \A i : NewClient(i, item) = BaseClient(i, q, p, r, t, l)
  BY <1>1, Zenon DEF NewClient
<1>3. ASSUME NEW i, NEW c, c = BaseClient(i, q, p, r, t, l)
      PROVE  c.active = q /\ c.port = p /\ c.remotes = r /\ c.provider = t /\ c.locals = l
  BY <1>3 DEF BaseClient
<1>4. PICK c : c = NewClient(id, item)
  OBVIOUS
<1>5. PICK d : d = NewClient(1, item)
  OBVIOUS
<1>6. /\ c.active = d.active /\ c.port = d.port /\ c.remotes = d.remotes /\ c.provider = d.provider
      /\ c.locals = d.locals
  BY <1>2, <1>3, <1>4, <1>5, Zenon
<1>7. ClientView(c) = ClientView(d)
  BY <1>6, Zenon DEF ClientView
<1>8. Made(c) <=> Made(d)
  BY <1>6, Zenon DEF Made
<1> QED
  BY <1>4, <1>5, <1>7, <1>8, Zenon DEF ItemClient

\* The port of a client is in its view.
LEMMA ClientViewPort == \A c : ClientView(c).port = c.port
BY DEF ClientView

\* populate_json for one item of the clients.
LEMMA PopulateClientViews ==
  ASSUME NEW l \in SoundLists, NEW item, ItemParsed(item)
  PROVE  ClientViews(PopulateClient(l, item).clients) = NextClients(ClientViews(l.clients), item)
<1>1. l \in ListsType /\ l.clients \in Seq(ClientType) /\ l.clientids \in Nat
  BY ListsFields, Zenon DEF SoundLists
<1>2. PICK i \in Nat : i = l.clientids + 1
  BY <1>1
<1>3. PICK c : c = NewClient(i, item)
  OBVIOUS
<1>4. c \in ClientType
  BY <1>3, NewClientSound, Zenon DEF SoundClients
<1>5. PICK cs : cs = Append(l.clients, c)
  OBVIOUS
<1>6. PICK m : m = [l EXCEPT !.clients = cs, !.clientids = i]
  OBVIOUS
<1>7. m = [l EXCEPT !.clients = Append(@, c), !.clientids = @ + 1] /\ m.clients = cs
  BY <1>1, <1>2, <1>5, <1>6 DEF ListsType
<1>8. PICK V : V = ClientViews(l.clients)
  OBVIOUS
<1>9. (\A v \in V : v.port # check_port(item, "port", 0))
      <=> ~\E k \in DOMAIN l.clients : l.clients[k].port = check_port(item, "port", 0)
  <2>1. PICK p : p = check_port(item, "port", 0)
    OBVIOUS
  <2>2. ASSUME NEW k \in DOMAIN l.clients, l.clients[k].port = p PROVE \E v \in V : v.port = p
    <3>1. ClientView(l.clients[k]) \in V /\ ClientView(l.clients[k]).port = p
      BY <1>8, <2>2, ViewsAre, ClientViewPort, Zenon
    <3> QED BY <3>1, Zenon
  <2>3. ASSUME NEW v \in V, v.port = p PROVE \E k \in DOMAIN l.clients : l.clients[k].port = p
    <3>1. PICK k \in DOMAIN l.clients : v = ClientView(l.clients[k])
      BY <1>8, ViewsAre, Zenon
    <3>2. l.clients[k].port = p
      BY <2>3, <3>1, ClientViewPort, Zenon
    <3> QED BY <3>2, Zenon
  <2> QED BY <2>1, <2>2, <2>3, Zenon
<1>10. ClientView(c) = ItemClient(item) /\ (Made(c) <=> Made(NewClient(1, item)))
  BY <1>3, NewClientView, Zenon
<1>11. CASE (\A v \in V : v.port # check_port(item, "port", 0)) /\ Made(c)
  <2>1. PopulateClient(l, item) = m
    BY <1>2, <1>3, <1>7, <1>9, <1>11, Zenon DEF PopulateClient, Made
  <2>2. /\ DOMAIN cs = 1 .. Len(l.clients) + 1 /\ cs[Len(l.clients) + 1] = c
        /\ DOMAIN l.clients = 1 .. Len(l.clients) /\ Len(l.clients) \in Nat
        /\ \A k \in DOMAIN l.clients : cs[k] = l.clients[k]
    BY <1>1, <1>4, <1>5, AppendIs
  <2>3. /\ \A k \in DOMAIN cs : k \in DOMAIN l.clients \/ cs[k] = c
        /\ \A k \in DOMAIN l.clients : k \in DOMAIN cs /\ cs[k] = l.clients[k]
        /\ \E k \in DOMAIN cs : cs[k] = c
    BY <2>2
  <2>4. ASSUME NEW v \in ClientViews(cs) PROVE v \in V \/ v = ItemClient(item)
    <3>1. PICK k \in DOMAIN cs : v = ClientView(cs[k])
      BY ViewsAre, Zenon
    <3>2. CASE cs[k] = c
      BY <1>10, <3>1, <3>2, Zenon
    <3>3. CASE k \in DOMAIN l.clients
      BY <1>8, <2>3, <3>1, <3>3, ViewsAre, Zenon
    <3> QED BY <2>3, <3>2, <3>3, Zenon
  <2>5. ItemClient(item) \in ClientViews(cs)
    BY <1>10, <2>3, ViewsAre, Zenon
  <2>6. ASSUME NEW v \in V PROVE v \in ClientViews(cs)
    BY <1>8, <2>3, ViewsAre, Zenon
  <2>7. ClientViews(cs) = V \cup {ItemClient(item)}
    BY <2>4, <2>5, <2>6, Zenon
  <2>8. NextClients(V, item) = V \cup {ItemClient(item)}
    BY <1>10, <1>11, Zenon DEF NextClients
  <2> QED BY <1>7, <1>8, <2>1, <2>7, <2>8, Zenon
<1>12. CASE ~((\A v \in V : v.port # check_port(item, "port", 0)) /\ Made(c))
  <2>1. PopulateClient(l, item) = l
    BY <1>2, <1>3, <1>9, <1>12, Zenon DEF PopulateClient, Made
  <2>2. NextClients(V, item) = V
    BY <1>10, <1>12, Zenon DEF NextClients
  <2> QED BY <1>8, <2>1, <2>2, Zenon
<1> QED
  BY <1>11, <1>12, Zenon

\* The clients of a document are the same whatever the ids.
LEMMA PopulateSameClients ==
  ASSUME NEW a \in SoundLists, NEW b \in SoundLists, ClientViews(a.clients) = ClientViews(b.clients),
         NEW items, Len(items) \in Nat, \A n \in 1 .. Len(items) : ItemParsed(items[n])
  PROVE  ClientViews(PopulateClients(a, items).clients) = ClientViews(PopulateClients(b, items).clients)
<1>1. PICK S : S = [n \in 0 .. Len(items) |-> SoundLists]
  OBVIOUS
<1>2. 0 \in 0 .. Len(items) /\ \A n \in 1 .. Len(items) : n \in 0 .. Len(items) /\ n - 1 \in 0 .. Len(items)
  OBVIOUS
<1>3. \A n \in 0 .. Len(items) : S[n] = SoundLists
  BY <1>1
<1>4. \A n \in 1 .. Len(items) : \A m \in S[n - 1] : PopulateClient(m, items[n]) \in S[n]
  <2> SUFFICES ASSUME NEW n \in 1 .. Len(items), NEW m \in S[n - 1] PROVE PopulateClient(m, items[n]) \in S[n]
    OBVIOUS
  <2>1. m \in SoundLists /\ S[n] = SoundLists
    BY <1>2, <1>3, Zenon
  <2>2. PopulateClient(m, items[n]) \in SameHosts(m)
    BY <2>1, PopulateClientSound, Zenon
  <2> QED BY <2>1, <2>2, Zenon DEF SameHosts
<1>5. a \in S[0] /\ b \in S[0]
  BY <1>2, <1>3, Zenon
<1>6. PICK f : /\ f[0] = a /\ f[Len(items)] = PopulateClients(a, items)
               /\ \A n \in 1 .. Len(items) : f[n] = PopulateClient(f[n - 1], items[n])
               /\ \A n \in 0 .. Len(items) : f[n] \in S[n]
  BY <1>4, <1>5, ClientsPass, ZenonT(40)
<1>7. PICK g : /\ g[0] = b /\ g[Len(items)] = PopulateClients(b, items)
               /\ \A n \in 1 .. Len(items) : g[n] = PopulateClient(g[n - 1], items[n])
               /\ \A n \in 0 .. Len(items) : g[n] \in S[n]
  BY <1>4, <1>5, ClientsPass, ZenonT(40)
<1>8. PICK T : T = {n \in Nat : ClientViews(f[n].clients) = ClientViews(g[n].clients)}
  OBVIOUS
<1>9. 0 \in T
  <2>1. 0 \in Nat
    OBVIOUS
  <2> QED BY <1>6, <1>7, <1>8, <2>1, Zenon
<1>10. ASSUME NEW k \in 0 .. Len(items), k + 1 \in 0 .. Len(items), k \in T
       PROVE  k + 1 \in T
  <2>1. PICK n \in 1 .. Len(items) : n = k + 1 /\ n - 1 = k /\ n \in Nat
    BY <1>10
  <2>2. f[n] = PopulateClient(f[k], items[n]) /\ g[n] = PopulateClient(g[k], items[n])
    BY <1>6, <1>7, <2>1, Zenon
  <2>3. f[k] \in SoundLists /\ g[k] \in SoundLists
    BY <1>3, <1>6, <1>7, Zenon
  <2>4. ClientViews(f[k].clients) = ClientViews(g[k].clients)
    BY <1>8, <1>10, Zenon
  <2>5. /\ ClientViews(f[n].clients) = NextClients(ClientViews(f[k].clients), items[n])
        /\ ClientViews(g[n].clients) = NextClients(ClientViews(g[k].clients), items[n])
    BY <2>2, <2>3, PopulateClientViews, Zenon
  <2> QED BY <1>8, <2>1, <2>4, <2>5, Zenon
<1>11. \A k \in 0 .. Len(items) : k \in T
  BY <1>9, <1>10, BoundedInduction, Zenon
<1>12. Len(items) \in 0 .. Len(items)
  OBVIOUS
<1> QED
  BY <1>6, <1>7, <1>8, <1>11, <1>12, Zenon

\* View in terms of the sets above.
LEMMA ViewIs ==
  ASSUME NEW l \in SoundLists
  PROVE  View(l) = [hosts |-> Live(HostViews(l.hosts)), clients |-> ClientViews(l.clients)]
<1>1. PICK H : H = {HostView(h) : h \in {g \in Range(l.hosts) : g.remotes # <<>>}}
  OBVIOUS
<1>2. ASSUME NEW k \in DOMAIN l.hosts
      PROVE  l.hosts[k].remotes # <<>> <=> HostView(l.hosts[k]).remotes # {}
  <2>1. PICK h : h = l.hosts[k]
    OBVIOUS
  <2>2. h \in HostType
    BY <2>1, Zenon DEF SoundLists, HostsSound, SoundHosts
  <2>3. PICK s \in Seq(RemoteType) : s = h.remotes
    BY <2>2 DEF HostType
  <2>4. RemoteViews(s) = {} <=> s = <<>>
    BY NoRemotes, Zenon
  <2> QED BY <2>1, <2>3, <2>4, HostViewIs, Zenon
<1>3. ASSUME NEW v \in H PROVE v \in Live(HostViews(l.hosts))
  <2>1. PICK h \in Range(l.hosts) : h.remotes # <<>> /\ v = HostView(h)
    BY <1>1, Zenon
  <2>2. PICK k \in DOMAIN l.hosts : h = l.hosts[k]
    BY RangeIs, Zenon
  <2>3. v.remotes # {} /\ v \in HostViews(l.hosts)
    BY <1>2, <2>1, <2>2, ViewsAre, Zenon
  <2> QED BY <2>3, Zenon DEF Live
<1>4. ASSUME NEW v \in Live(HostViews(l.hosts)) PROVE v \in H
  <2>1. v \in HostViews(l.hosts) /\ v.remotes # {}
    BY Zenon DEF Live
  <2>2. PICK k \in DOMAIN l.hosts : v = HostView(l.hosts[k])
    BY <2>1, ViewsAre, Zenon
  <2>3. l.hosts[k] \in Range(l.hosts) /\ l.hosts[k].remotes # <<>>
    BY <1>2, <2>1, <2>2, RangeIs, Zenon
  <2> QED BY <1>1, <2>2, <2>3, Zenon
<1>5. H = Live(HostViews(l.hosts))
  BY <1>3, <1>4, Zenon
<1> QED
  BY <1>1, <1>5, Zenon DEF View, ClientViews

\* The hosts of l have local endpoints, and items in the document.
Furnished(l) == \A k \in DOMAIN l.hosts : l.hosts[k].locals # <<>>
Ready(l, doc) ==
  /\ l.clients = <<>>
  /\ \A k \in DOMAIN l.hosts : \E i \in DOMAIN Items(doc, "hosts") : is_same(l.hosts[k], Items(doc, "hosts")[i])

\* A document gives the same hosts and clients over what unpopulate_json left of
\* older ones as it gives from nothing.
LEMMA PopulateViews ==
  ASSUME NEW a \in SoundLists, NEW b \in SoundLists, ~a.thrown, ~b.thrown, NEW doc, DocumentParsed(doc),
         a.clients = <<>>, b.clients = <<>>, b.hosts = <<>>,
         \/ a.hosts = <<>>
         \/ Furnished(a) /\ Ready(a, doc) /\ ~PopulateLists(a, doc, TRUE).thrown
  PROVE  View(PopulateLists(a, doc, TRUE)) = View(PopulateLists(b, doc, TRUE))
<1>1. ASSUME NEW key \in {"hosts", "clients"}
      PROVE  /\ Len(Items(doc, key)) \in Nat /\ DOMAIN Items(doc, key) = 1 .. Len(Items(doc, key))
             /\ \A n \in 1 .. Len(Items(doc, key)) : ItemParsed(Items(doc, key)[n])
  <2>1. Parsed(doc, key) /\ \A k \in DOMAIN Items(doc, key) : ItemParsed(Items(doc, key)[k])
    BY Zenon DEF DocumentParsed
  <2>2. Items(doc, key) \in Seq(Range(Items(doc, key)))
    BY <2>1, ChecksTyped, Zenon
  <2>3. Len(Items(doc, key)) \in Nat /\ DOMAIN Items(doc, key) = 1 .. Len(Items(doc, key))
    BY <2>2
  <2> QED BY <2>1, <2>3, Zenon
<1>2. PICK hs : hs = Items(doc, "hosts")
  OBVIOUS
<1>3. PICK cs : cs = Items(doc, "clients")
  OBVIOUS
<1>4. /\ Len(hs) \in Nat /\ \A n \in 1 .. Len(hs) : ItemParsed(hs[n])
      /\ Len(cs) \in Nat /\ \A n \in 1 .. Len(cs) : ItemParsed(cs[n])
      /\ DOMAIN hs = 1 .. Len(hs)
  BY <1>1, <1>2, <1>3, Zenon
<1>5. PICK c : c = PopulateClients(a, cs)
  OBVIOUS
<1>6. PICK d : d = PopulateClients(b, cs)
  OBVIOUS
<1>7. c \in SameHosts(a) /\ d \in SameHosts(b)
  BY <1>4, <1>5, <1>6, PopulateClientsSound, Zenon
<1>8. c \in SoundLists /\ d \in SoundLists /\ c.hosts = a.hosts /\ d.hosts = b.hosts /\ ~c.thrown /\ ~d.thrown
  BY <1>7, Zenon DEF SameHosts
<1>9. ClientViews(c.clients) = ClientViews(d.clients)
  <2>1. ClientViews(a.clients) = ClientViews(b.clients)
    OBVIOUS
  <2> QED BY <1>4, <1>5, <1>6, <2>1, PopulateSameClients, Zenon
<1>10. PICK x : x = PopulateHosts(c, hs, TRUE)
  OBVIOUS
<1>11. PICK y : y = PopulateHosts(d, hs, TRUE)
  OBVIOUS
<1>12. x = PopulateLists(a, doc, TRUE) /\ y = PopulateLists(b, doc, TRUE)
  BY <1>2, <1>3, <1>5, <1>6, <1>10, <1>11, Zenon DEF PopulateLists
<1>13. TRUE \in BOOLEAN
  OBVIOUS
<1>14. x \in Descendants(c) /\ y \in Descendants(d) /\ x.clients = c.clients /\ y.clients = d.clients
  BY <1>4, <1>8, <1>10, <1>11, <1>13, PopulateHostsSound, Zenon
<1>15. Live(HostViews(x.hosts)) = Live(HostViews(y.hosts))
  <2>1. CASE a.hosts = <<>>
    <3>1. HostViews(c.hosts) = HostViews(d.hosts)
      BY <1>8, <2>1, Zenon
    <3>2. HostViews(x.hosts) = HostViews(y.hosts)
      BY <1>4, <1>8, <1>10, <1>11, <3>1, PopulateSameViews, Zenon
    <3> QED BY <3>2, Zenon
  <2>2. CASE Furnished(a) /\ Ready(a, doc) /\ ~PopulateLists(a, doc, TRUE).thrown
    <3>1. \A k \in DOMAIN c.hosts : c.hosts[k].locals # <<>> /\ \E i \in 1 .. Len(hs) : is_same(c.hosts[k], hs[i])
      BY <1>2, <1>4, <1>8, <2>2, Zenon DEF Furnished, Ready
    <3>2. ~PopulateHosts(c, hs, TRUE).thrown
      BY <1>10, <1>12, <2>2, Zenon
    <3>3. d.hosts = <<>>
      BY <1>8, Zenon
    <3> QED BY <1>4, <1>8, <1>10, <1>11, <3>1, <3>2, <3>3, CatchPass, Zenon
  <2> QED BY <2>1, <2>2
<1>16. View(x) = View(y)
  BY <1>9, <1>14, <1>15, ViewIs, Zenon DEF Descendants
<1> QED
  BY <1>12, <1>16, Zenon

------------------------------------------------------------------------------
(* What starting and switching leave alone *)

\* m lists what l lists, with other things switched on or running.
Resembles(m, l) ==
  /\ DOMAIN m.hosts = DOMAIN l.hosts /\ DOMAIN m.clients = DOMAIN l.clients
  /\ \A k \in DOMAIN l.hosts : /\ m.hosts[k].port = l.hosts[k].port /\ m.hosts[k].type = l.hosts[k].type
                               /\ m.hosts[k].locals = l.hosts[k].locals
                               /\ m.hosts[k].remotes = l.hosts[k].remotes
  /\ \A k \in DOMAIN l.clients : ClientView(m.clients[k]) = ClientView(l.clients[k])

\* Starting and switching change nothing that RunsTheFile compares.
LEMMA ResemblesView ==
  ASSUME NEW l \in SoundLists, NEW m \in SoundLists, Resembles(m, l)
  PROVE  /\ View(m) = View(l) /\ (Furnished(l) => Furnished(m))
         /\ \A doc : Ready(l, doc) => Ready(m, doc)
<1>1. ASSUME NEW k \in DOMAIN l.hosts PROVE HostView(m.hosts[k]) = HostView(l.hosts[k])
  BY HostViewIs, ZenonT(40) DEF Resembles
<1>2. DOMAIN m.hosts = DOMAIN l.hosts /\ DOMAIN m.clients = DOMAIN l.clients
  BY Zenon DEF Resembles
<1>3. HostViews(m.hosts) = HostViews(l.hosts)
  <2>1. ASSUME NEW v PROVE v \in HostViews(m.hosts) <=> v \in HostViews(l.hosts)
    <3>1. v \in HostViews(m.hosts) <=> \E k \in DOMAIN l.hosts : v = HostView(m.hosts[k])
      BY <1>2, ViewsAre, Zenon
    <3>2. v \in HostViews(l.hosts) <=> \E k \in DOMAIN l.hosts : v = HostView(l.hosts[k])
      BY ViewsAre, Zenon
    <3> QED BY <1>1, <3>1, <3>2, Zenon
  <2> QED BY <2>1, Zenon
<1>4. ClientViews(m.clients) = ClientViews(l.clients)
  <2>1. ASSUME NEW v PROVE v \in ClientViews(m.clients) <=> v \in ClientViews(l.clients)
    <3>1. v \in ClientViews(m.clients) <=> \E k \in DOMAIN l.clients : v = ClientView(m.clients[k])
      BY <1>2, ViewsAre, Zenon
    <3>2. v \in ClientViews(l.clients) <=> \E k \in DOMAIN l.clients : v = ClientView(l.clients[k])
      BY ViewsAre, Zenon
    <3>3. \A k \in DOMAIN l.clients : ClientView(m.clients[k]) = ClientView(l.clients[k])
      BY Zenon DEF Resembles
    <3> QED BY <3>1, <3>2, <3>3, Zenon
  <2> QED BY <2>1, Zenon
<1>5. Furnished(l) => Furnished(m)
  BY Zenon DEF Furnished, Resembles
<1>6. ASSUME NEW doc, Ready(l, doc) PROVE Ready(m, doc)
  <2>1. m.clients = <<>>
    <3>1. m.clients \in Seq(ClientType) /\ l.clients = <<>>
      BY <1>6, ListsFields, Zenon DEF Ready, SoundLists
    <3>2. DOMAIN m.clients = {}
      BY <1>2, <3>1
    <3>3. PICK s \in Seq(ClientType) : s = m.clients
      BY <3>1, Zenon
    <3>4. Len(s) \in Nat /\ DOMAIN s = 1 .. Len(s) /\ DOMAIN s = {}
      BY <3>2, <3>3
    <3>5. Len(s) = 0
      BY <3>4
    <3>6. s = <<>>
      BY <3>5
    <3> QED BY <3>3, <3>6, Zenon
  <2>2. ASSUME NEW k \in DOMAIN m.hosts
        PROVE  \E i \in DOMAIN Items(doc, "hosts") : is_same(m.hosts[k], Items(doc, "hosts")[i])
    <3>1. k \in DOMAIN l.hosts /\ m.hosts[k].port = l.hosts[k].port
      BY Zenon DEF Resembles
    <3>2. PICK i \in DOMAIN Items(doc, "hosts") : is_same(l.hosts[k], Items(doc, "hosts")[i])
      BY <1>6, <3>1, Zenon DEF Ready
    <3>3. is_same(m.hosts[k], Items(doc, "hosts")[i])
      BY <3>1, <3>2, Zenon DEF is_same
    <3> QED BY <3>3, Zenon
  <2> QED BY <2>1, <2>2, Zenon DEF Ready
<1> QED
  BY <1>3, <1>4, <1>5, <1>6, ViewIs, Zenon

\* Leaving a section in which an exception was caught.
LEMMA ClearedResembles ==
  ASSUME NEW l \in SoundLists
  PROVE  Resembles(Cleared(l), l)
<1>1. Cleared(l).hosts = l.hosts /\ Cleared(l).clients = l.clients
  BY ClearedSound, Zenon
<1> QED
  BY <1>1, Zenon DEF Resembles

\* lock() changes nothing of what is listed, whichever start throws.
LEMMA StartResembles ==
  ASSUME NEW l \in SoundLists, ~l.thrown, PortsFree(l.hosts, foreign, web)
  PROVE  Resembles(StartAll(l), l)
<1>1. PICK h : h = StartHosts(l)
  OBVIOUS
<1>2. h \in StartedTo(l, Len(l.hosts))
  BY <1>1, StartHostsSound, Zenon
<1>3. /\ h \in SoundLists /\ h.clients = l.clients /\ DOMAIN h.hosts = DOMAIN l.hosts
      /\ \A k \in DOMAIN l.hosts : Begun(l.hosts[k], h.hosts[k])
  BY <1>2, Zenon DEF StartedTo
<1>4. ASSUME NEW m, m.hosts = h.hosts, DOMAIN m.clients = DOMAIN h.clients,
             \A k \in DOMAIN h.clients : ClientView(m.clients[k]) = ClientView(h.clients[k])
      PROVE  Resembles(m, l)
  <2>1. \A k \in DOMAIN l.hosts : /\ m.hosts[k].port = l.hosts[k].port /\ m.hosts[k].type = l.hosts[k].type
                                  /\ m.hosts[k].locals = l.hosts[k].locals
                                  /\ m.hosts[k].remotes = l.hosts[k].remotes
    BY <1>3, <1>4, Zenon DEF Begun
  <2> QED BY <1>3, <1>4, <2>1, Zenon DEF Resembles
<1>5. CASE h.thrown
  <2>1. StartAll(l) = h
    BY <1>1, <1>5, Zenon DEF StartAll
  <2> QED BY <1>4, <2>1, Zenon
<1>6. CASE ~h.thrown
  <2>1. PICK cs : cs = [k \in DOMAIN h.clients |-> StartClient(h.clients[k])]
    OBVIOUS
  <2>2. PICK m : m = [h EXCEPT !.clients = cs]
    OBVIOUS
  <2>3. StartAll(l) = m
    <3>1. ~StartHosts(l).thrown
      BY <1>1, <1>6, Zenon
    <3>2. StartAll(l) = [h EXCEPT !.clients = cs]
      BY <1>1, <2>1, <3>1, Zenon DEF StartAll
    <3> QED BY <2>2, <3>2, Zenon
  <2>4. h \in ListsType /\ ClientsSound(h.clients)
    BY <1>3, Zenon DEF SoundLists
  <2>5. m.hosts = h.hosts /\ m.clients = cs
    BY <2>2, <2>4 DEF ListsType
  <2>6. ASSUME NEW k \in DOMAIN h.clients PROVE ClientView(cs[k]) = ClientView(h.clients[k])
    <3>1. PICK c \in ClientType : c = h.clients[k]
      BY <2>4, Zenon DEF ClientsSound, SoundClients
    <3>2. PICK d : d = StartClient(c)
      OBVIOUS
    <3>3. d.port = c.port /\ d.provider = c.provider /\ d.locals = c.locals /\ d.remotes = c.remotes
      BY <3>2 DEF StartClient, ClientType
    <3>4. cs[k] = d
      BY <2>1, <3>1, <3>2
    <3> QED BY <3>1, <3>3, <3>4, Zenon DEF ClientView
  <2>7. DOMAIN cs = DOMAIN h.clients
    BY <2>1
  <2> QED BY <1>4, <2>3, <2>5, <2>6, <2>7, Zenon
<1> QED
  BY <1>5, <1>6, Zenon

\* host_set_active switches a host, it changes nothing else of it.
LEMMA HostSwitchResembles ==
  ASSUME NEW l \in SoundLists, NEW id, NEW active \in BOOLEAN
  PROVE  Resembles(HostsSwitched(l, id, active), l)
<1>1. l \in ListsType /\ HostsSound(l.hosts, l.hostids)
  BY ListsFields, Zenon DEF SoundLists
<1>2. PICK hs : hs = [k \in DOMAIN l.hosts |-> set_host_active(l.hosts[k], id, active, InUse(l.hosts))]
  OBVIOUS
<1>3. DOMAIN hs = DOMAIN l.hosts
      /\ \A k \in DOMAIN l.hosts : hs[k] = set_host_active(l.hosts[k], id, active, InUse(l.hosts))
  BY <1>2
<1>4. ASSUME NEW k \in DOMAIN l.hosts
      PROVE  /\ hs[k].port = l.hosts[k].port /\ hs[k].type = l.hosts[k].type
             /\ hs[k].locals = l.hosts[k].locals /\ hs[k].remotes = l.hosts[k].remotes
  <2>1. l.hosts[k] \in SoundHosts
    BY <1>1, Zenon DEF HostsSound
  <2>2. IsSwitched(hs[k], l.hosts[k], id, InUse(l.hosts))
    BY <1>3, <2>1, HostSwitched, Zenon
  <2> QED BY <2>2, Zenon DEF IsSwitched
<1>5. PICK m : m = [l EXCEPT !.hosts = hs]
  OBVIOUS
<1>6. HostsSwitched(l, id, active) = m
  BY <1>2, <1>5, Zenon DEF HostsSwitched
<1>7. m.hosts = hs /\ m.clients = l.clients
  BY <1>1, <1>5 DEF ListsType
<1> QED
  BY <1>3, <1>4, <1>6, <1>7, Zenon DEF Resembles

\* client_set_active switches a client, it changes nothing else of it.
LEMMA ClientSwitchResembles ==
  ASSUME NEW l \in SoundLists, NEW id, NEW active \in BOOLEAN
  PROVE  Resembles(ClientsSwitched(l, id, active), l)
<1>1. l \in ListsType /\ ClientsSound(l.clients)
  BY ListsFields, Zenon DEF SoundLists
<1>2. PICK cs : cs = [k \in DOMAIN l.clients |-> set_active(l.clients[k], id, active)]
  OBVIOUS
<1>3. DOMAIN cs = DOMAIN l.clients
      /\ \A k \in DOMAIN l.clients : cs[k] = set_active(l.clients[k], id, active)
  BY <1>2
<1>4. ASSUME NEW k \in DOMAIN l.clients PROVE ClientView(cs[k]) = ClientView(l.clients[k])
  <2>1. PICK c \in ClientType : c = l.clients[k]
    BY <1>1, Zenon DEF ClientsSound, SoundClients
  <2>2. PICK d : d = set_active(c, id, active)
    OBVIOUS
  <2>3. d.port = c.port /\ d.provider = c.provider /\ d.locals = c.locals /\ d.remotes = c.remotes
    BY <2>2 DEF set_active, ClientType
  <2>4. cs[k] = d
    BY <1>3, <2>1, <2>2, Zenon
  <2> QED BY <2>1, <2>3, <2>4, Zenon DEF ClientView
<1>5. PICK m : m = [l EXCEPT !.clients = cs]
  OBVIOUS
<1>6. ClientsSwitched(l, id, active) = m
  BY <1>2, <1>5, Zenon DEF ClientsSwitched
<1>7. m.hosts = l.hosts /\ m.clients = cs
  BY <1>1, <1>5 DEF ListsType
<1> QED
  BY <1>3, <1>4, <1>6, <1>7, Zenon DEF Resembles

------------------------------------------------------------------------------
(* What the passes keep *)

\* populate_json makes no host without local endpoints.
LEMMA PopulateHostFurnished ==
  ASSUME NEW l \in SoundLists, Furnished(l), NEW item, ItemParsed(item), NEW keyOk \in BOOLEAN
  PROVE  Furnished(PopulateHost(l, item, keyOk))
<1>1. l \in ListsType /\ l.hosts \in Seq(HostType) /\ l.hostids \in Nat /\ l.thrown \in BOOLEAN /\ HostsSound(l.hosts, l.hostids)
  BY ListsFields, Zenon DEF SoundLists
<1>2. ASSUME NEW hs \in Seq(HostType), NEW i \in Nat, NEW t \in BOOLEAN, \A k \in DOMAIN hs : hs[k].locals # <<>>
      PROVE  Furnished(With(l, hs, i, t))
  <2>1. With(l, hs, i, t).hosts = hs
    <3>1. l \in ListsType
      BY <1>1, Zenon
    <3> QED BY <3>1, WithFields
  <2> QED BY <1>2, <2>1, Zenon DEF Furnished
<1>3. \A k \in DOMAIN l.hosts : l.hosts[k].locals # <<>>
  BY Zenon DEF Furnished
<1>4. TRUE \in BOOLEAN /\ FALSE \in BOOLEAN
  OBVIOUS
<1>5. Furnished(With(l, l.hosts, l.hostids, TRUE))
  BY <1>1, <1>2, <1>3, <1>4, Zenon
<1>6. Furnished(With(l, UpdatedHosts(l, item), l.hostids, FALSE))
  <2>1. UpdatedHosts(l, item) \in Seq(HostType)
    BY UpdatedHostsSound, Zenon
  <2>2. PICK u : u = UpdatedHosts(l, item)
    OBVIOUS
  <2>3. DOMAIN u = DOMAIN l.hosts
        /\ \A k \in DOMAIN l.hosts : u[k] = l.hosts[k] \/ u[k] = Updated(l.hosts[k], item)
    BY <2>2 DEF UpdatedHosts
  <2>4. ASSUME NEW k \in DOMAIN u PROVE u[k].locals # <<>>
    <3>1. k \in DOMAIN l.hosts /\ l.hosts[k] \in SoundHosts /\ l.hosts[k].locals # <<>>
      BY <1>1, <1>3, <2>3, Zenon DEF HostsSound
    <3>2. Updated(l.hosts[k], item).locals = l.hosts[k].locals
      BY <3>1, UpdatedIs, Zenon DEF Alike
    <3> QED BY <2>3, <3>1, <3>2, Zenon
  <2> QED BY <1>1, <1>2, <1>4, <2>1, <2>2, <2>4, Zenon
<1>7. ASSUME Locals(item) # <<>>, Olds(l, item) = {}
      PROVE  Furnished(With(l, Append(l.hosts, NewHost(l.hostids + 1, item)), l.hostids + 1, FALSE))
  <2>1. PICK i \in Nat : i = l.hostids + 1
    BY <1>1
  <2>2. PICK h : h = NewHost(i, item)
    OBVIOUS
  <2>3. h \in HostType /\ h.locals # <<>>
    BY <1>7, <2>1, <2>2, NewHostIs, Zenon DEF SoundHosts
  <2>4. PICK u : u = Append(l.hosts, h)
    OBVIOUS
  <2>5. u \in Seq(HostType) /\ \A k \in DOMAIN u : (k \in DOMAIN l.hosts /\ u[k] = l.hosts[k]) \/ u[k] = h
    <3>1. l.hosts \in Seq(HostType)
      BY <1>1, Zenon
    <3>2. /\ u \in Seq(HostType) /\ DOMAIN u = 1 .. Len(l.hosts) + 1 /\ u[Len(l.hosts) + 1] = h
          /\ Len(l.hosts) \in Nat /\ DOMAIN l.hosts = 1 .. Len(l.hosts)
          /\ \A k \in DOMAIN l.hosts : u[k] = l.hosts[k]
      BY <2>3, <2>4, <3>1, AppendIs
    <3> QED BY <3>2
  <2>6. \A k \in DOMAIN u : u[k].locals # <<>>
    BY <1>3, <2>3, <2>5, Zenon
  <2> QED BY <1>2, <1>4, <2>1, <2>2, <2>4, <2>5, <2>6, Zenon
<1> QED
  BY <1>1, <1>5, <1>6, <1>7, PopulateHostIs, ZenonT(40)

\* The same for a document.
LEMMA PopulateFurnished ==
  ASSUME NEW l \in SoundLists, Furnished(l), NEW doc, DocumentParsed(doc), NEW keyOk \in BOOLEAN
  PROVE  Furnished(PopulateLists(l, doc, keyOk))
<1>1. ASSUME NEW key \in {"hosts", "clients"}
      PROVE  Len(Items(doc, key)) \in Nat /\ \A n \in 1 .. Len(Items(doc, key)) : ItemParsed(Items(doc, key)[n])
  <2>1. Parsed(doc, key) /\ \A k \in DOMAIN Items(doc, key) : ItemParsed(Items(doc, key)[k])
    BY Zenon DEF DocumentParsed
  <2>2. Items(doc, key) \in Seq(Range(Items(doc, key)))
    BY <2>1, ChecksTyped, Zenon
  <2>3. Len(Items(doc, key)) \in Nat /\ DOMAIN Items(doc, key) = 1 .. Len(Items(doc, key))
    BY <2>2
  <2> QED BY <2>1, <2>3, Zenon
<1>2. PICK items : items = Items(doc, "hosts")
  OBVIOUS
<1>3. Len(items) \in Nat /\ \A n \in 1 .. Len(items) : ItemParsed(items[n])
  BY <1>1, <1>2, Zenon
<1>4. PICK c : c = PopulateClients(l, Items(doc, "clients"))
  OBVIOUS
<1>5. c \in SoundLists /\ c.hosts = l.hosts
  BY <1>1, <1>4, PopulateClientsSound, Zenon DEF SameHosts
<1>6. PICK D : D = {m \in SoundLists : Furnished(m)}
  OBVIOUS
<1>7. c \in D
  BY <1>5, <1>6, Zenon DEF Furnished
<1>8. PICK S : S = [n \in 0 .. Len(items) |-> D]
  OBVIOUS
<1>9. 0 \in 0 .. Len(items) /\ Len(items) \in 0 .. Len(items)
      /\ \A n \in 1 .. Len(items) : n \in 0 .. Len(items) /\ n - 1 \in 0 .. Len(items)
  BY <1>3
<1>10. \A n \in 0 .. Len(items) : S[n] = D
  BY <1>8
<1>11. \A n \in 1 .. Len(items) : \A m \in S[n - 1] : PopulateHost(m, items[n], keyOk) \in S[n]
  <2> SUFFICES ASSUME NEW n \in 1 .. Len(items), NEW m \in S[n - 1] PROVE PopulateHost(m, items[n], keyOk) \in S[n]
    OBVIOUS
  <2>1. m \in SoundLists /\ Furnished(m) /\ S[n] = D
    BY <1>6, <1>9, <1>10, Zenon
  <2>2. PopulateHost(m, items[n], keyOk) \in SoundLists
    BY <1>3, <2>1, PopulateHostSound, Zenon DEF Descendants
  <2>3. Furnished(PopulateHost(m, items[n], keyOk))
    BY <1>3, <2>1, PopulateHostFurnished, Zenon
  <2> QED BY <1>6, <2>1, <2>2, <2>3, Zenon
<1>12. PICK f : HostsRun(f, c, items, keyOk, S)
  <2>1. c \in S[0]
    BY <1>7, <1>9, <1>10, Zenon
  <2> QED BY <1>3, <1>11, <2>1, HostsPass, Zenon
<1>13. PopulateHosts(c, items, keyOk) \in D
  BY <1>9, <1>10, <1>12, Zenon DEF HostsRun
<1> QED
  BY <1>2, <1>4, <1>6, <1>13, Zenon DEF PopulateLists

\* unpopulate_json makes no host.
LEMMA UnpopulateFurnished ==
  ASSUME NEW l \in SoundLists, Furnished(l), NEW doc
  PROVE  Furnished(unpopulate_json(l, doc))
<1>1. PICK m : m = unpopulate_json(l, doc)
  OBVIOUS
<1>2. m \in Remnants(l, Len(l.hosts))
  BY <1>1, UnpopulateSound, Zenon
<1>3. \A j \in DOMAIN m.hosts : \E k \in DOMAIN l.hosts : m.hosts[j] = l.hosts[k]
  BY <1>2, Zenon DEF Remnants
<1> QED
  BY <1>1, <1>3, Zenon DEF Furnished

\* A host that unpopulate_json keeps is in the document, unless something threw.
LEMMA UnpopulateKeepsListed ==
  ASSUME NEW l \in ListsType, NEW host, NEW doc, ~l.thrown
  PROVE  \/ UnpopulateHost(l, host, doc) = l
         \/ UnpopulateHost(l, host, doc) = With(l, Append(l.hosts, host), l.hostids, TRUE)
         \/ /\ UnpopulateHost(l, host, doc) = With(l, Append(l.hosts, host), l.hostids, l.thrown)
            /\ \E i \in DOMAIN Items(doc, "hosts") : is_same(host, Items(doc, "hosts")[i])
<1>1. PICK items : items = Items(doc, "hosts")
  OBVIOUS
<1>2. PICK same : same = {k \in DOMAIN items : is_same(host, items[k])}
  OBVIOUS
<1>3. CASE \E k \in same : is_same_throws(host, items[k])
  <2>1. \E i \in DOMAIN items : is_same(host, items[i])
    BY <1>2, <1>3, Zenon
  <2> QED BY <1>1, <2>1, UnpopulateHostIs, Zenon
<1>4. CASE ~\E k \in same : is_same_throws(host, items[k])
  <2>1. CASE same = {}
    <3>1. UnpopulateHost(l, host, doc) = l
      BY <1>1, <1>2, <1>4, <2>1, Zenon DEF UnpopulateHost
    <3> QED BY <3>1, Zenon
  <2>2. CASE same # {}
    <3>1. \E i \in DOMAIN items : is_same(host, items[i])
      BY <1>2, <2>2, Zenon
    <3> QED BY <1>1, <3>1, UnpopulateHostIs, Zenon
  <2> QED BY <2>1, <2>2, Zenon
<1> QED
  BY <1>3, <1>4, Zenon

\* What unpopulate_json leaves, when nothing threw, is in the document.
LEMMA UnpopulateReady ==
  ASSUME NEW l \in SoundLists, NEW doc, ~unpopulate_json(l, doc).thrown
  PROVE  Ready(unpopulate_json(l, doc), doc)
<1>1. Len(l.hosts) \in Nat /\ DOMAIN l.hosts = 1 .. Len(l.hosts)
  BY ListsFields, Zenon DEF SoundLists
<1>2. PICK b \in Remnants(l, 0) : unpopulate_json(l, doc) = UnpopulateHosts(b, l.hosts, doc)
  BY UnpopulateBegins, Zenon
<1>3. PICK S : S = [n \in 0 .. Len(l.hosts) |-> {m \in Remnants(l, n) : m.thrown \/ Ready(m, doc)}]
  OBVIOUS
<1>4. \A n \in 0 .. Len(l.hosts) : \A m : m \in S[n] <=> m \in Remnants(l, n) /\ (m.thrown \/ Ready(m, doc))
  BY <1>3
<1>5. 0 \in 0 .. Len(l.hosts) /\ Len(l.hosts) \in 0 .. Len(l.hosts)
      /\ \A n \in 1 .. Len(l.hosts) : n \in 0 .. Len(l.hosts) /\ n - 1 \in 0 .. Len(l.hosts)
  BY <1>1
<1>6. b \in S[0]
  <2>1. b.clients = <<>> /\ \A j \in DOMAIN b.hosts : \E k \in DOMAIN l.hosts : k <= 0
    BY Zenon DEF Remnants
  <2>2. \A k \in DOMAIN l.hosts : ~(k <= 0)
    BY <1>1
  <2>3. Ready(b, doc)
    BY <2>1, <2>2, Zenon DEF Ready
  <2> QED BY <1>4, <1>5, <2>3, Zenon
<1>7. \A n \in 1 .. Len(l.hosts) : \A m \in S[n - 1] : UnpopulateHost(m, l.hosts[n], doc) \in S[n]
  <2> SUFFICES ASSUME NEW n \in 1 .. Len(l.hosts), NEW m \in S[n - 1]
               PROVE  UnpopulateHost(m, l.hosts[n], doc) \in S[n]
    OBVIOUS
  <2>1. m \in Remnants(l, n - 1) /\ (m.thrown \/ Ready(m, doc))
    BY <1>4, <1>5, Zenon
  <2>2. PICK r : r = UnpopulateHost(m, l.hosts[n], doc)
    OBVIOUS
  <2>3. r \in Remnants(l, n)
    BY <2>1, <2>2, UnpopulateHostSound, Zenon
  <2>4. m \in ListsType /\ m.hosts \in Seq(HostType) /\ m.hostids \in Nat /\ m.thrown \in BOOLEAN /\ m.clients = <<>>
    BY <2>1, ListsFields, Zenon DEF Remnants, SoundLists
  <2>5. PICK h \in HostType : h = l.hosts[n]
    BY <1>1, Zenon DEF SoundLists, HostsSound, SoundHosts
  <2>6. PICK u : u = Append(m.hosts, h)
    OBVIOUS
  <2>7. u \in Seq(HostType) /\ \A k \in DOMAIN u : (k \in DOMAIN m.hosts /\ u[k] = m.hosts[k]) \/ u[k] = h
    <3>1. m.hosts \in Seq(HostType)
      BY <2>4, Zenon
    <3>2. /\ u \in Seq(HostType) /\ DOMAIN u = 1 .. Len(m.hosts) + 1 /\ u[Len(m.hosts) + 1] = h
          /\ Len(m.hosts) \in Nat /\ DOMAIN m.hosts = 1 .. Len(m.hosts)
          /\ \A k \in DOMAIN m.hosts : u[k] = m.hosts[k]
      BY <2>6, <3>1, AppendIs
    <3> QED BY <3>2
  <2>8. ASSUME NEW t \in BOOLEAN
        PROVE  /\ With(m, u, m.hostids, t).hosts = u /\ With(m, u, m.hostids, t).clients = m.clients
               /\ With(m, u, m.hostids, t).thrown = t
    <3>1. m \in ListsType /\ u \in Seq(HostType) /\ m.hostids \in Nat
      BY <2>4, <2>7, Zenon
    <3> QED BY <3>1, WithFields
  <2>9. TRUE \in BOOLEAN
    OBVIOUS
  <2>10. r.thrown \/ Ready(r, doc)
    <3>1. CASE m.thrown
      <4>1. \/ r = m \/ r = With(m, u, m.hostids, m.thrown) \/ r = With(m, u, m.hostids, TRUE)
        BY <2>2, <2>4, <2>5, <2>6, UnpopulateHostIs, Zenon
      <4> QED BY <2>4, <2>8, <2>9, <3>1, <4>1, Zenon
    <3>2. CASE ~m.thrown
      <4>1. \/ r = m \/ r = With(m, u, m.hostids, TRUE)
            \/ /\ r = With(m, u, m.hostids, m.thrown)
               /\ \E i \in DOMAIN Items(doc, "hosts") : is_same(h, Items(doc, "hosts")[i])
        BY <2>2, <2>4, <2>5, <2>6, <3>2, UnpopulateKeepsListed, Zenon
      <4>2. ASSUME r = With(m, u, m.hostids, m.thrown),
                   \E i \in DOMAIN Items(doc, "hosts") : is_same(h, Items(doc, "hosts")[i])
            PROVE  Ready(r, doc)
        <5>1. r.hosts = u /\ r.clients = <<>> /\ Ready(m, doc)
          BY <2>1, <2>4, <2>8, <3>2, <4>2, Zenon
        <5>2. ASSUME NEW k \in DOMAIN u
              PROVE  \E i \in DOMAIN Items(doc, "hosts") : is_same(u[k], Items(doc, "hosts")[i])
          BY <2>7, <4>2, <5>1, Zenon DEF Ready
        <5> QED BY <5>1, <5>2, Zenon DEF Ready
      <4>3. ASSUME r = With(m, u, m.hostids, TRUE) PROVE r.thrown
        BY <2>8, <2>9, <4>3, Zenon
      <4> QED BY <2>1, <3>2, <4>1, <4>2, <4>3, Zenon
    <3> QED BY <3>1, <3>2, Zenon
  <2> QED BY <1>4, <1>5, <2>2, <2>3, <2>10, Zenon
<1>8. PICK f : UnpopulateRun(f, b, l.hosts, doc, S)
  BY <1>1, <1>6, <1>7, UnpopulatePass, Zenon
<1>9. UnpopulateHosts(b, l.hosts, doc) \in S[Len(l.hosts)]
  BY <1>5, <1>8, Zenon DEF UnpopulateRun
<1> QED
  BY <1>2, <1>4, <1>5, <1>9, Zenon

------------------------------------------------------------------------------
(* What is read of the file *)

\* The name that is read from a document, and whether reading it throws.
LEMMA ConfigIs ==
  ASSUME NEW s \in SettingsType, NEW doc, DocumentParsed(doc)
  PROVE  /\ Config(doc).t = "object" =>
              /\ PopulateConfig(s, doc).name = check_string(Config(doc), "name", s.name)
              /\ PopulateConfig(s, doc).thrown <=> min_tls_protocol(doc) \notin 12 .. 13
         /\ Config(doc).t # "object" =>
              PopulateConfig(s, doc).name = s.name /\ (PopulateConfig(s, doc).thrown <=> s.thrown)
<1>1. PICK c : c = Config(doc)
  OBVIOUS
<1>2. PICK port : port = IF c.t = "object" THEN check_port(find(c, "activate"), "port", ActivatePort) ELSE ActivatePort
  OBVIOUS
<1>3. PICK webport : webport = check_port(find(doc, "web"), "port", s.web_port)
  OBVIOUS
<1>4. PICK name : name = check_string(c, "name", s.name)
  OBVIOUS
<1>5. PICK tls \in BOOLEAN : tls <=> min_tls_protocol(doc) \in 12 .. 13
  OBVIOUS
<1>6. PICK ups : ups = IF tls THEN s.uniproxies \cup Uniproxies(doc, WebPort) ELSE s.uniproxies
  OBVIOUS
<1>7. PICK set : set = [s EXCEPT !.activate_port = port, !.web_port = webport]
  OBVIOUS
<1>8. set = Settings(s.name, s.uniproxies, port, webport, s.thrown)
  BY <1>7 DEF SettingsType, Settings
<1>9. set.name = s.name /\ set.uniproxies = s.uniproxies /\ set.thrown = s.thrown
  BY <1>8 DEF Settings
<1>10. CASE c.t # "object"
  <2>1. PopulateConfig(s, doc) = set
    BY <1>1, <1>2, <1>3, <1>7, <1>10, Zenon DEF PopulateConfig
  <2> QED BY <1>1, <1>9, <1>10, <2>1, Zenon
<1>11. CASE c.t = "object"
  <2>1. PICK r : r = [set EXCEPT !.name = name, !.uniproxies = ups, !.thrown = ~tls]
    OBVIOUS
  <2>2. PopulateConfig(s, doc) = r
    BY <1>1, <1>2, <1>3, <1>4, <1>5, <1>6, <1>7, <1>9, <1>11, <2>1 DEF PopulateConfig
  <2>3. r = Settings(name, ups, port, webport, ~tls)
    BY <1>8, <2>1 DEF Settings
  <2>4. r.name = name /\ r.thrown = ~tls
    BY <2>3 DEF Settings
  <2> QED BY <1>1, <1>4, <1>5, <1>11, <2>2, <2>4, Zenon
<1> QED
  BY <1>1, <1>10, <1>11, Zenon

\* What a load reads from file f over the settings s.
Read(f, s) == IF Documents[f].parses THEN PopulateConfig(s, Doc(f)) ELSE s

\* A file that is read again has the same name and throws again.
LEMMA ReadAgain ==
  ASSUME NEW f \in DOMAIN Documents, NEW s \in SettingsType, ~s.thrown
  PROVE  /\ Read(f, s) \in SettingsType /\ Cleared(Read(f, s)) \in SettingsType
         /\ Read(f, Cleared(Read(f, s))).name = Read(f, s).name
         /\ Read(f, Cleared(Read(f, s))).thrown <=> Read(f, s).thrown
<1>1. PICK doc : doc = Doc(f)
  OBVIOUS
<1>2. DocumentParsed(doc)
  BY <1>1, DocumentsAssumption, Zenon DEF Doc
<1>3. PICK r : r = Read(f, s)
  OBVIOUS
<1>4. r \in SettingsType
  BY <1>1, <1>2, <1>3, ConfigTyped, Zenon DEF Read
<1>5. PICK c : c = Cleared(r)
  OBVIOUS
<1>6. c \in SettingsType /\ ~c.thrown /\ c.name = r.name
  BY <1>4, <1>5, ClearedSettings, Zenon
<1>7. CASE ~Documents[f].parses
  <2>1. r = s /\ Read(f, c) = c
    BY <1>3, <1>7, Zenon DEF Read
  <2> QED BY <1>3, <1>4, <1>5, <1>6, <2>1, Zenon
<1>8. CASE Documents[f].parses
  <2>1. r = PopulateConfig(s, doc) /\ Read(f, c) = PopulateConfig(c, doc)
    BY <1>1, <1>3, <1>8, Zenon DEF Read
  <2>2. CASE Config(doc).t = "object"
    <3>1. r.name = check_string(Config(doc), "name", s.name)
          /\ PopulateConfig(c, doc).name = check_string(Config(doc), "name", c.name)
          /\ (r.thrown <=> PopulateConfig(c, doc).thrown)
      BY <1>2, <1>6, <2>1, <2>2, ConfigIs, Zenon
    <3>2. PopulateConfig(c, doc).name = r.name
      BY <1>6, <3>1, Zenon DEF check_string
    <3> QED BY <1>3, <1>4, <1>5, <1>6, <2>1, <3>1, <3>2, Zenon
  <2>3. CASE Config(doc).t # "object"
    <3>1. /\ r.name = s.name /\ (r.thrown <=> s.thrown) /\ PopulateConfig(c, doc).name = c.name
          /\ (PopulateConfig(c, doc).thrown <=> c.thrown)
      BY <1>2, <1>6, <2>1, <2>3, ConfigIs, Zenon
    <3> QED BY <1>3, <1>4, <1>5, <1>6, <2>1, <3>1, Zenon
  <2> QED BY <2>2, <2>3, Zenon
<1> QED
  BY <1>7, <1>8, Zenon

\* A document that is not a new configuration has the name that is set.
LEMMA SameName ==
  ASSUME NEW s \in SettingsType, NEW doc, DocumentParsed(doc), ~is_new_configuration(s, doc)
  PROVE  PopulateConfig(s, doc).name = s.name /\ s.name # ""
<1>1. s.name # "" /\ Config(doc).t = "object" /\ check_string(Config(doc), "name", "") = s.name
  BY Zenon DEF is_new_configuration
<1>2. check_string(Config(doc), "name", s.name) = s.name
  BY <1>1, Zenon DEF check_string
<1> QED
  BY <1>1, <1>2, ConfigIs, Zenon

------------------------------------------------------------------------------
(* What a start on the file would list *)

\* The lists of a start on file f over the settings s with the key o.
StartLists(f, s, o) ==
  IF /\ Documents[f].parses /\ ~Read(f, s).thrown /\ Read(f, s).name # ""
     /\ ~(o.key # "none" /\ ~KeyOk(o)) /\ Read(f, s).name = o.cert
  THEN PopulateLists(NoLists, Doc(f), KeyOk(o)) ELSE NoLists

\* FromFile, in a state and in the next.
LEMMA FromFileIs ==
  /\ Loaded = Read(file, settings)
  /\ FromFile = View(StartLists(file, settings, own))
  /\ FromFile' = View(StartLists(file', settings', own'))
<1>1. Loaded = Read(file, settings) /\ Loaded' = Read(file', settings')
  BY DEF Loaded, Read, Doc
<1>2. FromFile = View(StartLists(file, settings, own))
  BY <1>1, Zenon DEF FromFile, StartLists, Filled, Readable, KeyThrows
<1>3. FromFile' = View(StartLists(file', settings', own'))
  BY <1>1, Zenon DEF FromFile, StartLists, Filled, Readable, KeyThrows
<1> QED
  BY <1>1, <1>2, <1>3, Zenon

\* The program starts with sound lists.
LEMMA NoListsSound ==
  /\ NoLists \in SoundLists /\ ~NoLists.thrown /\ NoLists.hosts = <<>> /\ NoLists.clients = <<>>
  /\ Furnished(NoLists)
<1>1. NoLists \in ListsType /\ ~NoLists.thrown /\ NoLists.hosts = <<>> /\ NoLists.clients = <<>>
  <2>1. <<>> \in Seq(HostType) /\ <<>> \in Seq(ClientType) /\ 0 \in Nat
    OBVIOUS
  <2> QED BY <2>1 DEF NoLists, ListsType
<1>2. (\A k \in DOMAIN NoLists.hosts : FALSE) /\ (\A k \in DOMAIN NoLists.clients : FALSE)
  BY <1>1
<1>3. HostsSound(NoLists.hosts, NoLists.hostids) /\ ClientsSound(NoLists.clients) /\ Furnished(NoLists)
  BY <1>2, Zenon DEF HostsSound, ClientsSound, Furnished
<1> QED
  BY <1>1, <1>3, Zenon DEF SoundLists

\* Lists without hosts and clients are like those of the start.
LEMMA EmptyView ==
  ASSUME NEW l \in SoundLists, l.hosts = <<>>, l.clients = <<>>
  PROVE  View(l) = View(NoLists) /\ Furnished(l)
<1>1. View(l) = View(NoLists)
  BY NoListsSound, ViewIs, Zenon
<1>2. \A k \in DOMAIN l.hosts : FALSE
  OBVIOUS
<1> QED
  BY <1>1, <1>2, Zenon DEF Furnished

\* Reading the file and filling the lists, over nothing or over what
\* unpopulate_json left, gives what a start would.
LEMMA FillsAsStart ==
  ASSUME NEW l \in SoundLists, ~l.thrown, l.clients = <<>>, NEW f \in DOMAIN Documents, NEW s \in SettingsType, ~s.thrown,
         NEW o, KeyOk(o), Documents[f].parses, ~Read(f, s).thrown, Read(f, s).name # "", Read(f, s).name = o.cert,
         \/ l.hosts = <<>>
         \/ Furnished(l) /\ Ready(l, Doc(f)) /\ ~PopulateLists(l, Doc(f), KeyOk(o)).thrown
  PROVE  View(Cleared(PopulateLists(l, Doc(f), KeyOk(o)))) = View(StartLists(f, Cleared(Read(f, s)), o))
<1>1. KeyOk(o) = TRUE
  BY DEF KeyOk
<1>2. PICK t : t = Cleared(Read(f, s))
  OBVIOUS
<1>3. Read(f, t).name = Read(f, s).name /\ (Read(f, t).thrown <=> Read(f, s).thrown)
  BY <1>2, ReadAgain, Zenon
<1>4. StartLists(f, t, o) = PopulateLists(NoLists, Doc(f), TRUE)
  BY <1>1, <1>3, Zenon DEF StartLists
<1>5. DocumentParsed(Doc(f))
  BY DocumentsAssumption, Zenon DEF Doc
<1>6. PICK m : m = PopulateLists(l, Doc(f), TRUE)
  OBVIOUS
<1>7. TRUE \in BOOLEAN
  OBVIOUS
<1>8. m \in SoundLists
  BY <1>5, <1>6, <1>7, PopulateListsSound, Zenon DEF Descendants
<1>9. View(m) = View(PopulateLists(NoLists, Doc(f), TRUE))
  <2>1. l.hosts = <<>> \/ (Furnished(l) /\ Ready(l, Doc(f)) /\ ~PopulateLists(l, Doc(f), TRUE).thrown)
    BY <1>1, Zenon
  <2> QED BY <1>5, <1>6, <2>1, NoListsSound, PopulateViews, Zenon
<1>10. View(Cleared(m)) = View(m)
  BY <1>8, ClearedSound, ClearedResembles, ResemblesView, Zenon
<1> QED
  BY <1>1, <1>2, <1>4, <1>6, <1>9, <1>10, Zenon

------------------------------------------------------------------------------
(* The lists are those of the file *)

\* A worker is busy with an upload.
Uploading(w) == worker[w].at \notin {"idle", "testing"}

\* main() loads into empty lists.
FreshLoad == pc = "load" \/ (pc = "again" /\ reload) => lists.hosts = <<>> /\ lists.clients = <<>>

\* Every host has local endpoints.
HaveLocals == Furnished(lists)

\* raced says whether two uploads were under way.
OneUpload == ~raced => \A v, w \in Workers : Uploading(v) /\ Uploading(w) => v = w

\* What a worker parsed is upload.json, and uniproxy.json after the copy; the
\* file is taken over in place only under the name that is set, and after
\* unpopulate_json no host is left that the file does not have.
UploadOwn(w) ==
  /\ worker[w].at = "copy" => worker[w].doc = upload /\ Documents[upload].parses
  /\ worker[w].at \in InPlace =>
       worker[w].doc = file /\ Documents[file].parses /\ ~is_new_configuration(settings, Doc(file))
  /\ worker[w].at = "populate" => Ready(lists, Doc(file))

UploadsOwn == ~raced => \A w \in Workers : UploadOwn(w)

\* From the load on, unless an upload is taking the lists apart or a restart is
\* due, the lists are those of the file.
FileRun ==
  /\ pc \in {"lock", "serving"} /\ OwnName /\ ~raced /\ ~timer /\ ~shut
  /\ \A w \in Workers : worker[w].at \notin InPlace
  => View(lists) = FromFile

FileOK == FreshLoad /\ HaveLocals /\ OneUpload /\ UploadsOwn /\ FileRun

\* With every worker idle there is no upload to speak of.
LEMMA NoUpload ==
  ASSUME \A w \in Workers : worker'[w].at = "idle"
  PROVE  OneUpload' /\ UploadsOwn'
<1>1. \A w \in Workers : ~Uploading(w)'
  BY DEF Uploading
<1>2. \A w \in Workers : UploadOwn(w)'
  BY DEF UploadOwn, InPlace
<1> QED
  BY <1>1, <1>2, Zenon DEF OneUpload, UploadsOwn

\* main() between two loads.
LEMMA Between ==
  ASSUME \A w \in Workers : worker'[w].at = "idle", pc' \notin {"lock", "serving"}, FreshLoad', HaveLocals'
  PROVE  FileOK'
BY NoUpload, Zenon DEF FileOK, FileRun

\* The program starts with empty lists and idle workers.
LEMMA InitFile == Init => FileOK
<1> SUFFICES ASSUME Init PROVE FileOK
  OBVIOUS
<1>1. pc = "load" /\ lists = NoLists /\ worker = [w \in Workers |-> Idle]
  BY Zenon DEF Init
<1>2. Idle.at = "idle"
  BY DEF Idle
<1>3. \A w \in Workers : worker[w].at = "idle"
  BY <1>1, <1>2
<1>4. \A w \in Workers : ~Uploading(w) /\ UploadOwn(w)
  BY <1>3 DEF Uploading, UploadOwn, InPlace
<1>5. FreshLoad /\ HaveLocals
  BY <1>1, NoListsSound, Zenon DEF FreshLoad, HaveLocals
<1>6. FileRun
  BY <1>1 DEF FileRun
<1> QED
  BY <1>4, <1>5, <1>6, Zenon DEF FileOK, OneUpload, UploadsOwn

\* A worker that goes on: it begins no upload, and leaves none that is in place.
GoesOn(v) ==
  /\ Uploading(v)' => Uploading(v)
  /\ worker'[v].at \in InPlace <=> worker[v].at \in InPlace
  /\ worker'[v].at \in InPlace => worker'[v].doc = worker[v].doc
  /\ worker'[v].at = "populate" => worker[v].at = "populate"
  /\ worker'[v].at = "copy" => \/ worker[v].at = "copy" /\ worker'[v].doc = worker[v].doc
                               \/ worker'[v].doc = upload /\ Documents[upload].parses

\* Steps that start or switch at most what is listed.
LEMMA FileStays ==
  ASSUME lists \in SoundLists, lists' \in SoundLists, Resembles(lists', lists), FileOK,
         pc' = pc, pc = "serving" \/ (lists' = lists /\ reload' = reload),
         own' = own, openssl_count' = openssl_count, file' = file, upload' = upload, settings' = settings,
         raced' = raced, timer \/ shut => timer' \/ shut', \A v \in Workers : GoesOn(v)
  PROVE  FileOK'
<1>1. FreshLoad /\ HaveLocals /\ OneUpload /\ UploadsOwn /\ FileRun
  BY Zenon DEF FileOK
<1>2. /\ View(lists') = View(lists) /\ (Furnished(lists) => Furnished(lists'))
      /\ \A doc : Ready(lists, doc) => Ready(lists', doc)
  BY ResemblesView, Zenon
<1>3. FreshLoad'
  <2>1. CASE pc = "serving"
    BY <2>1 DEF FreshLoad
  <2>2. CASE lists' = lists /\ reload' = reload
    BY <1>1, <2>2, Zenon DEF FreshLoad
  <2> QED BY <2>1, <2>2, Zenon
<1>4. HaveLocals'
  BY <1>1, <1>2, Zenon DEF HaveLocals
<1>5. OneUpload'
  BY <1>1, Zenon DEF OneUpload, GoesOn
<1>6. ASSUME ~raced', NEW w \in Workers PROVE UploadOwn(w)'
  <2>1. GoesOn(w) /\ UploadOwn(w)
    BY <1>1, <1>6, Zenon DEF UploadsOwn
  <2>2. worker'[w].at = "copy" => worker'[w].doc = upload /\ Documents[upload].parses
    BY <2>1, Zenon DEF GoesOn, UploadOwn
  <2>3. worker'[w].at \in InPlace =>
          worker'[w].doc = file /\ Documents[file].parses /\ ~is_new_configuration(settings, Doc(file))
    BY <2>1, Zenon DEF GoesOn, UploadOwn
  <2>4. worker'[w].at = "populate" => Ready(lists', Doc(file))
    BY <1>2, <2>1, Zenon DEF GoesOn, UploadOwn
  <2>5. Doc(file)' = Doc(file)
    BY DEF Doc
  <2> QED BY <2>2, <2>3, <2>4, <2>5 DEF UploadOwn
<1>7. FileRun'
  <2> SUFFICES ASSUME pc' \in {"lock", "serving"}, OwnName', ~raced', ~timer', ~shut',
                      \A w \in Workers : worker'[w].at \notin InPlace
               PROVE  View(lists') = FromFile'
    BY Zenon DEF FileRun
  <2>1. OwnName
    BY Zenon DEF OwnName
  <2>2. \A w \in Workers : worker[w].at \notin InPlace
    BY Zenon DEF GoesOn
  <2>3. View(lists) = FromFile
    BY <1>1, <2>1, <2>2, Zenon DEF FileRun
  <2>4. FromFile' = FromFile
    BY FromFileIs, Zenon
  <2> QED BY <1>2, <2>3, <2>4, Zenon
<1> QED
  BY <1>3, <1>4, <1>5, <1>6, <1>7, Zenon DEF FileOK, UploadsOwn

\* A worker that moves from step to step, the others staying where they are.
LEMMA MovedGoesOn ==
  ASSUME NEW w \in Workers, NEW step, Moved(w, step), step \notin InPlace, worker[w].at \notin InPlace,
         step \in {"idle", "testing"} \/ Uploading(w),
         step = "copy" => worker'[w].doc = upload /\ Documents[upload].parses
  PROVE  \A v \in Workers : GoesOn(v)
<1> SUFFICES ASSUME NEW v \in Workers PROVE GoesOn(v)
  OBVIOUS
<1>1. CASE v = w
  <2>1. worker'[v].at = step
    BY <1>1, Zenon DEF Moved
  <2>2. Uploading(v)' => Uploading(v)
    BY <1>1, <2>1, Zenon DEF Uploading
  <2>3. "populate" \in InPlace
    BY DEF InPlace
  <2> QED BY <1>1, <2>1, <2>2, <2>3, Zenon DEF GoesOn
<1>2. CASE v # w
  <2>1. worker'[v] = worker[v]
    BY <1>2, Zenon DEF Moved
  <2> QED BY <2>1, Zenon DEF GoesOn, Uploading
<1> QED
  BY <1>1, <1>2, Zenon

\* No worker moves.
LEMMA StillGoesOn ==
  ASSUME worker' = worker
  PROVE  \A v \in Workers : GoesOn(v)
BY Zenon DEF GoesOn, Uploading

\* Nothing is listed anew.
LEMMA SameResembles == ASSUME NEW l PROVE Resembles(l, l)
BY Zenon DEF Resembles

\* A load that fails: the lists stay empty, as those of a start that fails.
LEMMA LoadFailsFile ==
  ASSUME Inv, FileOK, LoadFails
  PROVE  FileOK'
<1>1. TypeOK /\ lists \in SoundLists /\ FreshLoad
  BY Zenon DEF Inv, ListsOK, FileOK
<1>2. /\ AtLoad /\ settings' = Cleared(Loaded) /\ pc' = "lock" /\ UNCHANGED <<openssl_count, own, lists>>
      /\ ~Readable \/ KeyThrows
  BY Zenon DEF LoadFails
<1>3. /\ own' = own /\ lists' = lists /\ pc = "load" /\ file' = file /\ worker' = worker
  BY <1>2, AtLoadFrame DEF AtLoad
<1>4. \A w \in Workers : worker'[w].at = "idle"
  BY <1>3 DEF Inv, ServerDown, AllIdle
<1>5. lists.hosts = <<>> /\ lists.clients = <<>>
  BY <1>1, <1>3, Zenon DEF FreshLoad
<1>6. View(lists) = View(NoLists) /\ HaveLocals'
  BY <1>1, <1>3, <1>5, EmptyView, Zenon DEF HaveLocals
<1>7. FreshLoad'
  BY <1>2 DEF FreshLoad
<1>8. FileRun'
  <2> SUFFICES ASSUME OwnName' PROVE View(lists') = FromFile'
    BY Zenon DEF FileRun
  <2>1. KeyOk(own)
    BY <1>3, Zenon DEF OwnName
  <2>2. ~Readable
    BY <1>2, <2>1, Zenon DEF KeyThrows
  <2>3. file \in DOMAIN Documents /\ settings \in SettingsType /\ ~settings.thrown
    BY <1>1, Zenon DEF TypeOK
  <2>4. PICK f \in DOMAIN Documents : f = file
    BY <2>3, Zenon
  <2>5. PICK s \in SettingsType : s = settings /\ ~s.thrown
    BY <2>3, Zenon
  <2>6. Loaded = Read(f, s)
    BY <2>4, <2>5, FromFileIs, Zenon
  <2>7. ~Documents[f].parses \/ Read(f, s).thrown \/ Read(f, s).name = ""
    BY <2>2, <2>4, <2>6, Zenon DEF Readable
  <2>8. PICK t : t = Cleared(Read(f, s))
    OBVIOUS
  <2>9. Read(f, t).name = Read(f, s).name /\ (Read(f, t).thrown <=> Read(f, s).thrown)
    BY <2>5, <2>8, ReadAgain, Zenon
  <2>10. StartLists(f, t, own) = NoLists
    BY <2>7, <2>9, Zenon DEF StartLists
  <2>11. FromFile' = View(StartLists(f, t, own))
    BY <1>2, <1>3, <2>4, <2>6, <2>8, FromFileIs, Zenon
  <2> QED BY <1>3, <1>6, <2>10, <2>11, Zenon
<1> QED
  BY <1>4, <1>6, <1>7, <1>8, NoUpload, Zenon DEF FileOK

\* A load that asks for another one.
LEMMA LoadGeneratesFile ==
  ASSUME Inv, FileOK, LoadGenerates
  PROVE  FileOK'
<1>1. AtLoad /\ pc' = "again" /\ lists' = lists
  BY Zenon DEF LoadGenerates
<1>2. pc = "load" /\ worker' = worker
  BY <1>1, AtLoadFrame DEF AtLoad
<1>3. \A w \in Workers : worker'[w].at = "idle"
  BY <1>2 DEF Inv, ServerDown, AllIdle
<1>4. lists.hosts = <<>> /\ lists.clients = <<>> /\ Furnished(lists)
  BY <1>2, Zenon DEF FileOK, FreshLoad, HaveLocals
<1>5. FreshLoad' /\ HaveLocals'
  BY <1>1, <1>4, Zenon DEF FreshLoad, HaveLocals
<1>6. pc' \notin {"lock", "serving"}
  BY <1>1
<1> QED
  BY <1>3, <1>5, <1>6, Between, Zenon

\* A load that fills the lists.
LEMMA LoadPopulatesFile ==
  ASSUME Inv, FileOK, LoadPopulates
  PROVE  FileOK'
<1>1. TypeOK /\ lists \in SoundLists /\ ~lists.thrown /\ FreshLoad /\ Furnished(lists)
  BY Zenon DEF Inv, ListsOK, FileOK, TypeOK, HaveLocals
<1>2. /\ AtLoad /\ settings' = Cleared(Loaded) /\ pc' = "lock" /\ Readable
      /\ lists' = Cleared(Filled(lists, Loaded, own.cert, own'))
      /\ own' = own \/ openssl_count' = 3
  BY DEF LoadPopulates
<1>3. pc = "load" /\ file' = file /\ worker' = worker
  BY <1>2, AtLoadFrame DEF AtLoad
<1>4. \A w \in Workers : worker'[w].at = "idle"
  BY <1>3 DEF Inv, ServerDown, AllIdle
<1>5. lists.hosts = <<>> /\ lists.clients = <<>>
  BY <1>1, <1>3, Zenon DEF FreshLoad
<1>6. PICK f \in DOMAIN Documents : f = file
  BY <1>1, Zenon DEF TypeOK
<1>7. PICK s \in SettingsType : s = settings /\ ~s.thrown
  BY <1>1, Zenon DEF TypeOK
<1>8. Loaded = Read(f, s)
  BY <1>6, <1>7, FromFileIs, Zenon
<1>9. DocumentParsed(Doc(f))
  BY DocumentsAssumption, Zenon DEF Doc
<1>10. HaveLocals'
  <2>1. CASE Loaded.name = own.cert
    <3>1. PICK ok \in BOOLEAN : ok = KeyOk(own')
      BY DEF KeyOk
    <3>2. PICK m : m = PopulateLists(lists, Doc(f), ok)
      OBVIOUS
    <3>3. lists' = Cleared(m)
      BY <1>2, <1>6, <2>1, <3>1, <3>2, Zenon DEF Filled
    <3>4. m \in SoundLists /\ Furnished(m)
      BY <1>1, <1>9, <3>2, PopulateListsSound, PopulateFurnished, Zenon DEF Descendants
    <3>5. lists'.hosts = m.hosts
      BY <3>3, <3>4, ClearedSound, Zenon
    <3> QED BY <3>4, <3>5, Zenon DEF HaveLocals, Furnished
  <2>2. CASE Loaded.name # own.cert
    <3>1. lists' = lists
      BY <1>1, <1>2, <2>2, ClearedSound, Zenon DEF Filled
    <3> QED BY <1>1, <3>1, Zenon DEF HaveLocals
  <2> QED BY <2>1, <2>2, Zenon
<1>11. FreshLoad'
  BY <1>2 DEF FreshLoad
<1>12. FileRun'
  <2> SUFFICES ASSUME OwnName' PROVE View(lists') = FromFile'
    BY Zenon DEF FileRun
  <2>1. own' = own
    <3>1. openssl_count' < 3
      BY Zenon DEF OwnName
    <3>2. openssl_count' # 3
      BY <3>1
    <3> QED BY <1>2, <3>2, Zenon
  <2>2. KeyOk(own) /\ settings'.name = own.cert
    BY <2>1, Zenon DEF OwnName
  <2>3. Documents[f].parses /\ ~Read(f, s).thrown /\ Read(f, s).name # ""
    BY <1>2, <1>6, <1>8, Zenon DEF Readable
  <2>4. Read(f, s).name = own.cert
    <3>1. Read(f, s) \in SettingsType
      BY <1>7, ReadAgain, Zenon
    <3> QED BY <1>2, <1>8, <2>2, <3>1, ClearedSettings, Zenon
  <2>5. lists' = Cleared(PopulateLists(lists, Doc(f), KeyOk(own)))
    BY <1>2, <1>6, <1>8, <2>1, <2>4, Zenon DEF Filled
  <2>6. View(lists') = View(StartLists(f, Cleared(Read(f, s)), own))
    BY <1>1, <1>5, <1>7, <2>2, <2>3, <2>4, <2>5, FillsAsStart, Zenon
  <2>7. FromFile' = View(StartLists(f, Cleared(Read(f, s)), own))
    BY <1>2, <1>3, <1>6, <1>8, <2>1, FromFileIs, Zenon
  <2> QED BY <2>6, <2>7, Zenon
<1> QED
  BY <1>4, <1>10, <1>11, <1>12, NoUpload, Zenon DEF FileOK

\* stopall leaves nothing listed.
LEMMA StopAllEmpties ==
  ASSUME lists \in SoundLists, stopall
  PROVE  lists'.hosts = <<>> /\ lists'.clients = <<>> /\ HaveLocals'
<1>1. lists \in ListsType
  BY Zenon DEF SoundLists
<1>2. lists' = [lists EXCEPT !.hosts = <<>>, !.clients = <<>>, !.thrown = FALSE]
  BY Zenon DEF stopall
<1>3. lists'.hosts = <<>> /\ lists'.clients = <<>>
  BY <1>1, <1>2 DEF ListsType
<1>4. \A k \in DOMAIN lists'.hosts : FALSE
  BY <1>3
<1> QED
  BY <1>3, <1>4, Zenon DEF HaveLocals, Furnished

\* lock(): what is listed is started.
LEMMA LockFile ==
  ASSUME Inv, FileOK, Lock
  PROVE  FileOK'
<1>1. /\ TypeOK /\ lists \in SoundLists /\ ~lists.thrown /\ PortsFree(lists.hosts, foreign, web)
      /\ FileRun /\ Furnished(lists)
  BY Zenon DEF Inv, ListsOK, FileOK, TypeOK, HaveLocals
<1>2. pc = "lock" /\ reload' = FALSE
      /\ UNCHANGED <<shut, timer, openssl_count, own, files, settings, worker, mutex, page, commands>>
  BY Zenon DEF Lock
<1>3. /\ shut' = shut /\ timer' = timer /\ openssl_count' = openssl_count /\ own' = own /\ file' = file
      /\ raced' = raced /\ settings' = settings /\ worker' = worker
  BY <1>2 DEF files
<1>4. \A w \in Workers : worker[w].at = "idle" /\ worker'[w].at = "idle"
  BY <1>2, <1>3 DEF Inv, ServerDown, AllIdle
<1>5. PICK l : l = StartAll(lists)
  OBVIOUS
<1>6. l \in SoundLists /\ Resembles(l, lists)
  BY <1>1, <1>5, StartStep, StartResembles, Zenon
<1>7. View(l) = View(lists) /\ Furnished(l)
  BY <1>1, <1>6, ResemblesView, Zenon
<1>8. FreshLoad'
  <2>1. pc' # "load"
    BY <1>5 DEF Lock
  <2> QED BY <1>2, <2>1, Zenon DEF FreshLoad
<1>9. CASE l.thrown
  <2>1. pc' = "again" /\ lists' = Cleared(l)
    BY <1>5, <1>9, Zenon DEF Lock
  <2>2. lists'.hosts = l.hosts
    BY <1>6, <2>1, ClearedSound, Zenon
  <2>3. HaveLocals'
    BY <1>7, <2>2, Zenon DEF HaveLocals, Furnished
  <2>4. pc' \notin {"lock", "serving"}
    BY <2>1
  <2> QED BY <1>4, <1>8, <2>3, <2>4, Between, Zenon
<1>10. CASE ~l.thrown /\ settings.web_port \in InUse(l.hosts)
  <2>1. pc' = "again" /\ stopall
    BY <1>5, <1>10, Zenon DEF Lock
  <2>2. HaveLocals'
    BY <1>1, <2>1, StopAllEmpties, Zenon
  <2>3. pc' \notin {"lock", "serving"}
    BY <2>1
  <2> QED BY <1>4, <1>8, <2>2, <2>3, Between, Zenon
<1>11. CASE ~l.thrown /\ settings.web_port \notin InUse(l.hosts)
  <2>1. pc' = "serving" /\ lists' = l
    BY <1>5, <1>11, Zenon DEF Lock
  <2>2. HaveLocals'
    BY <1>7, <2>1, Zenon DEF HaveLocals
  <2>3. FileRun'
    <3> SUFFICES ASSUME OwnName', ~raced', ~timer', ~shut' PROVE View(lists') = FromFile'
      BY Zenon DEF FileRun
    <3>1. OwnName
      BY <1>3, Zenon DEF OwnName
    <3>2. \A w \in Workers : worker[w].at \notin InPlace
      BY <1>4 DEF InPlace
    <3>3. pc \in {"lock", "serving"}
      BY <1>2
    <3>4. View(lists) = FromFile
      BY <1>1, <1>3, <3>1, <3>2, <3>3, Zenon DEF FileRun
    <3>5. FromFile' = FromFile
      BY <1>3, FromFileIs, Zenon
    <3> QED BY <1>7, <2>1, <3>4, <3>5, Zenon
  <2> QED BY <1>4, <1>8, <2>2, <2>3, NoUpload, Zenon DEF FileOK
<1> QED
  BY <1>9, <1>10, <1>11, Zenon

\* The server is left, or main() goes on: what is loaded next finds no lists.
LEMMA UnlockAgainFile ==
  ASSUME Inv, FileOK, Unlock \/ Again
  PROVE  FileOK'
<1>1. lists \in SoundLists /\ FreshLoad /\ HaveLocals
  BY Zenon DEF Inv, ListsOK, FileOK
<1>2. CASE Unlock
  <2>1. AllIdle /\ stopall /\ pc' = "again" /\ worker' = worker
    BY <1>2 DEF Unlock
  <2>2. \A w \in Workers : worker'[w].at = "idle"
    BY <2>1, Zenon DEF AllIdle
  <2>3. FreshLoad' /\ HaveLocals'
    BY <1>1, <2>1, StopAllEmpties, Zenon DEF FreshLoad
  <2>4. pc' \notin {"lock", "serving"}
    BY <2>1
  <2> QED BY <2>2, <2>3, <2>4, Between, Zenon
<1>3. CASE Again
  <2>1. pc = "again" /\ worker' = worker
    BY <1>3 DEF Again
  <2>2. \A w \in Workers : worker'[w].at = "idle"
    BY <2>1 DEF Inv, ServerDown, AllIdle
  <2>3. CASE reload
    <3>1. pc' = "load" /\ lists' = lists
      BY <1>3, <2>3 DEF Again
    <3>2. FreshLoad' /\ HaveLocals'
      BY <1>1, <2>1, <2>3, <3>1, Zenon DEF FreshLoad, HaveLocals
    <3>3. pc' \notin {"lock", "serving"}
      BY <3>1
    <3> QED BY <2>2, <3>2, <3>3, Between, Zenon
  <2>4. CASE ~reload
    <3>1. pc' = "stopped" /\ stopall
      BY <1>3, <2>4, Zenon DEF Again
    <3>2. FreshLoad' /\ HaveLocals'
      BY <1>1, <3>1, StopAllEmpties, Zenon DEF FreshLoad
    <3>3. pc' \notin {"lock", "serving"}
      BY <3>1
    <3> QED BY <2>2, <3>2, <3>3, Between, Zenon
  <2> QED BY <2>3, <2>4, Zenon
<1> QED
  BY <1>2, <1>3, Zenon

\* The timer, SIGHUP, and a port that another program gives up.
LEMMA SignalFile ==
  ASSUME Inv, FileOK, timeout_handle \/ Sighup \/ \E p \in ForeignPorts : PortFreed(p)
  PROVE  FileOK'
<1>1. lists \in SoundLists
  BY Zenon DEF Inv, ListsOK
<1>2. /\ pc' = pc /\ openssl_count' = openssl_count /\ own' = own /\ file' = file /\ upload' = upload
      /\ raced' = raced /\ settings' = settings /\ lists' = lists /\ worker' = worker
      /\ pc = "serving" \/ reload' = reload
  <2>1. CASE timeout_handle
    BY <2>1 DEF timeout_handle, TimerFires, files
  <2>2. CASE Sighup
    BY <2>2 DEF Sighup, files
  <2>3. CASE \E p \in ForeignPorts : PortFreed(p)
    <3>1. PICK p \in ForeignPorts : PortFreed(p)
      BY <2>3
    <3> QED BY <3>1 DEF PortFreed, loop, files
  <2> QED BY <2>1, <2>2, <2>3, Zenon
<1>3. timer \/ shut => timer' \/ shut'
  <2>1. CASE timeout_handle
    BY <2>1, Zenon DEF timeout_handle
  <2>2. CASE Sighup
    BY <2>2, Zenon DEF Sighup
  <2>3. CASE \E p \in ForeignPorts : PortFreed(p)
    <3>1. PICK p \in ForeignPorts : PortFreed(p)
      BY <2>3
    <3>2. shut' = shut /\ timer' = timer
      BY <3>1 DEF PortFreed, loop
    <3> QED BY <3>2, Zenon
  <2> QED BY <2>1, <2>2, <2>3, Zenon
<1>4. Resembles(lists', lists) /\ lists' \in SoundLists
  BY <1>1, <1>2, SameResembles, Zenon
<1>5. \A v \in Workers : GoesOn(v)
  BY <1>2, StillGoesOn, Zenon
<1> QED
  BY <1>1, <1>2, <1>3, <1>4, <1>5, FileStays, Zenon

\* What the requests below leave alone.
FileKept ==
  /\ pc = "serving" /\ pc' = pc /\ own' = own /\ openssl_count' = openssl_count
  /\ file' = file /\ upload' = upload /\ settings' = settings /\ raced' = raced

\* A request that at most starts or switches what is listed.
LEMMA RequestFile ==
  ASSUME Inv, FileOK, FileKept, lists' \in SoundLists, Resembles(lists', lists),
         timer \/ shut => timer' \/ shut', \A v \in Workers : GoesOn(v)
  PROVE  FileOK'
<1>1. lists \in SoundLists
  BY Zenon DEF Inv, ListsOK
<1> QED
  BY <1>1, FileStays, Zenon DEF FileKept

\* Two uploads at once are noted; a single one finds no other.
LEMMA config_uploadFile ==
  ASSUME Inv, FileOK, NEW w \in Workers, config_upload(w)
  PROVE  FileOK'
<1>1. TypeOK /\ FreshLoad /\ HaveLocals /\ OneUpload /\ UploadsOwn /\ FileRun
  BY Zenon DEF Inv, FileOK
<1>2. /\ pc = "serving" /\ Goto(w, "parse")
      /\ raced' = (raced \/ \E v \in Workers : worker[v].at \notin {"idle", "testing"})
      /\ UNCHANGED <<loop, timer, file, settings, lists, ports, mutex, page, commands>>
  BY Zenon DEF config_upload, Accepts, At
<1>3. /\ pc' = pc /\ own' = own /\ openssl_count' = openssl_count /\ file' = file /\ settings' = settings
      /\ lists' = lists /\ shut' = shut /\ timer' = timer
  BY <1>2 DEF loop
<1>4. Moved(w, "parse")
  <2>1. "parse" \in Steps
    BY DEF Steps
  <2> QED BY <1>1, <1>2, <2>1, GotoIs, Zenon
<1>5. FreshLoad' /\ HaveLocals'
  <2>1. FreshLoad'
    BY <1>2, <1>3 DEF FreshLoad
  <2> QED BY <1>1, <1>3, <2>1, Zenon DEF HaveLocals
<1>6. CASE raced'
  BY <1>5, <1>6, Zenon DEF FileOK, OneUpload, UploadsOwn, FileRun
<1>7. CASE ~raced'
  <2>1. ~raced /\ \A v \in Workers : worker[v].at \in {"idle", "testing"}
    BY <1>2, <1>7, Zenon
  <2>2. \A v \in Workers : worker'[v].at = "parse" \/ worker'[v].at \in {"idle", "testing"}
    BY <1>4, <2>1, Zenon DEF Moved
  <2>3. \A v \in Workers : v # w => worker'[v].at \in {"idle", "testing"}
    BY <1>4, <2>1, Zenon DEF Moved
  <2>4. OneUpload'
    BY <2>3, Zenon DEF OneUpload, Uploading
  <2>5. ASSUME NEW v \in Workers PROVE UploadOwn(v)' /\ worker[v].at \notin InPlace
    BY <2>1, <2>2 DEF UploadOwn, InPlace
  <2>6. FileRun'
    <3> SUFFICES ASSUME OwnName', ~timer', ~shut' PROVE View(lists') = FromFile'
      BY Zenon DEF FileRun
    <3>1. OwnName
      BY <1>3, Zenon DEF OwnName
    <3>2. pc \in {"lock", "serving"}
      BY <1>2
    <3>3. View(lists) = FromFile
      BY <1>1, <1>3, <2>1, <2>5, <3>1, <3>2, Zenon DEF FileRun
    <3>4. FromFile' = FromFile
      BY <1>3, FromFileIs, Zenon
    <3> QED BY <1>3, <3>3, <3>4, Zenon
  <2> QED BY <1>5, <2>4, <2>5, <2>6, Zenon DEF FileOK, UploadsOwn
<1> QED
  BY <1>6, <1>7, Zenon

\* What a single upload parses is what it wrote.
LEMMA ParseFile ==
  ASSUME Inv, FileOK, NEW w \in Workers, Parse(w)
  PROVE  FileOK'
<1>1. TypeOK /\ ServerDown /\ lists \in SoundLists
  BY Zenon DEF Inv, ListsOK
<1>2. /\ worker[w].at = "parse" /\ UNCHANGED <<loop, timer, files, settings, lists, ports, mutex, page, commands>>
      /\ \/ Documents[upload].parses /\ worker' = [worker EXCEPT ![w] = [at |-> "copy", doc |-> upload]]
         \/ Done(w)
  BY Zenon DEF Parse, At
<1>3. /\ lists' = lists /\ timer' = timer /\ shut' = shut /\ pc' = pc /\ own' = own /\ openssl_count' = openssl_count
      /\ file' = file /\ upload' = upload /\ settings' = settings /\ raced' = raced
  BY <1>2 DEF loop, files
<1>4. pc = "serving"
  BY <1>1, <1>2, BusyServes
<1>5. FileKept
  BY <1>3, <1>4, Zenon DEF FileKept
<1>6. worker[w].at \notin InPlace /\ Uploading(w)
  BY <1>2 DEF InPlace, Uploading
<1>7. \A v \in Workers : GoesOn(v)
  <2>1. CASE Done(w)
    <3>1. "idle" \notin InPlace /\ "idle" # "copy"
      BY DEF InPlace
    <3>2. Moved(w, "idle")
      BY <1>1, <2>1, DoneIs, Zenon
    <3> QED BY <1>6, <3>1, <3>2, MovedGoesOn, Zenon
  <2>2. CASE Documents[upload].parses /\ worker' = [worker EXCEPT ![w] = [at |-> "copy", doc |-> upload]]
    <3>1. worker \in [Workers -> WorkerType] /\ upload \in DOMAIN Documents
      BY <1>1, Zenon DEF TypeOK
    <3>2. [at |-> "copy", doc |-> upload] \in WorkerType
      BY <3>1 DEF WorkerType
    <3>3. Moved(w, "copy") /\ worker'[w].doc = upload
      BY <2>2, <3>1, <3>2 DEF Moved
    <3>4. "copy" \notin InPlace
      BY DEF InPlace
    <3> QED BY <1>6, <2>2, <3>3, <3>4, MovedGoesOn, Zenon
  <2> QED BY <1>2, <2>1, <2>2, Zenon
<1>8. Resembles(lists', lists) /\ lists' \in SoundLists
  BY <1>1, <1>3, SameResembles, Zenon
<1>9. timer \/ shut => timer' \/ shut'
  BY <1>3, Zenon
<1> QED
  BY <1>5, <1>7, <1>8, <1>9, RequestFile, Zenon

\* A single upload is alone: the other workers hold no document.
LEMMA Alone ==
  ASSUME FileOK, ~raced, NEW w \in Workers, Uploading(w)
  PROVE  /\ UploadOwn(w)
         /\ \A v \in Workers : v # w => worker[v].at \in {"idle", "testing"}
<1>1. OneUpload /\ UploadsOwn
  BY Zenon DEF FileOK
<1> QED
  BY <1>1, Zenon DEF OneUpload, UploadsOwn, Uploading

\* A step of a single upload: the other workers have nothing to do with it.
LEMMA AloneMoves ==
  ASSUME NEW w \in Workers, NEW step, Moved(w, step), UploadOwn(w)',
         \A v \in Workers : v # w => worker[v].at \in {"idle", "testing"}
  PROVE  OneUpload' /\ UploadsOwn'
<1>1. \A v \in Workers : v # w => worker'[v].at \in {"idle", "testing"}
  BY Zenon DEF Moved
<1>2. OneUpload'
  BY <1>1, Zenon DEF OneUpload, Uploading
<1>3. ASSUME NEW v \in Workers, v # w PROVE UploadOwn(v)'
  BY <1>1, <1>3 DEF UploadOwn, InPlace
<1> QED
  BY <1>2, <1>3, Zenon DEF UploadsOwn

\* The file is replaced: the lists are taken apart, or a restart is due.
LEMMA CopyFile ==
  ASSUME Inv, FileOK, NEW w \in Workers, Copy(w)
  PROVE  FileOK'
<1>1. TypeOK /\ ServerDown /\ HaveLocals
  BY Zenon DEF Inv, FileOK
<1>2. /\ worker[w].at = "copy" /\ file' = upload
      /\ UNCHANGED <<loop, upload, uploads, raced, settings, lists, ports, mutex, page, commands>>
      /\ \/ Throw(w)
         \/ ~is_new_configuration(settings, Doc(worker[w].doc)) /\ Goto(w, "unpopulate") /\ UNCHANGED timer
  BY Zenon DEF Copy, At
<1>3. /\ lists' = lists /\ pc' = pc /\ upload' = upload /\ settings' = settings /\ raced' = raced
  BY <1>2 DEF loop
<1>4. pc = "serving"
  BY <1>1, <1>2, BusyServes
<1>5. FreshLoad' /\ HaveLocals'
  <2>1. FreshLoad'
    BY <1>3, <1>4 DEF FreshLoad
  <2> QED BY <1>1, <1>3, <2>1, Zenon DEF HaveLocals
<1>6. CASE raced
  BY <1>3, <1>5, <1>6, Zenon DEF FileOK, OneUpload, UploadsOwn, FileRun
<1>7. CASE ~raced
  <2>1. Uploading(w)
    BY <1>2 DEF Uploading
  <2>2. UploadOwn(w) /\ \A v \in Workers : v # w => worker[v].at \in {"idle", "testing"}
    BY <1>7, <2>1, Alone, Zenon
  <2>3. worker[w].doc = upload /\ Documents[upload].parses
    BY <1>2, <2>2, Zenon DEF UploadOwn
  <2>4. CASE Throw(w)
    <3>1. Moved(w, "idle") /\ timer' = TRUE
      BY <1>1, <2>4, DoneIs, Zenon DEF Throw
    <3>2. worker'[w].at = "idle"
      BY <3>1, Zenon DEF Moved
    <3>3. UploadOwn(w)'
      BY <3>2 DEF UploadOwn, InPlace
    <3>4. FileRun'
      BY <3>1, Zenon DEF FileRun
    <3> QED BY <1>5, <2>2, <3>1, <3>3, <3>4, AloneMoves, Zenon DEF FileOK
  <2>5. CASE ~is_new_configuration(settings, Doc(worker[w].doc)) /\ Goto(w, "unpopulate") /\ UNCHANGED timer
    <3>1. "unpopulate" \in Steps /\ "unpopulate" \in InPlace
      BY DEF Steps, InPlace
    <3>2. Moved(w, "unpopulate") /\ worker'[w].doc = worker[w].doc
      BY <1>1, <2>5, <3>1, GotoIs, Zenon
    <3>3. worker'[w].at = "unpopulate"
      BY <3>2, Zenon DEF Moved
    <3>4. /\ worker'[w].doc = file' /\ Documents[file'].parses /\ ~is_new_configuration(settings', Doc(file'))
      BY <1>2, <1>3, <2>3, <2>5, <3>2, Zenon
    <3>5. Doc(file)' = Doc(file')
      BY DEF Doc
    <3>6. UploadOwn(w)'
      BY <3>3, <3>4, <3>5 DEF UploadOwn
    <3>7. FileRun'
      BY <3>1, <3>3, Zenon DEF FileRun
    <3> QED BY <1>5, <2>2, <3>2, <3>6, <3>7, AloneMoves, Zenon DEF FileOK
  <2> QED BY <1>2, <2>4, <2>5, Zenon
<1> QED
  BY <1>6, <1>7, Zenon

\* A copy that fails leaves the file.
LEMMA CopyFailsFile ==
  ASSUME Inv, FileOK, NEW w \in Workers, CopyFails(w)
  PROVE  FileOK'
<1>1. TypeOK /\ ServerDown /\ lists \in SoundLists
  BY Zenon DEF Inv, ListsOK
<1>2. worker[w].at = "copy" /\ Done(w) /\ UNCHANGED <<loop, timer, files, settings, lists, ports, mutex, page, commands>>
  BY Zenon DEF CopyFails, At
<1>3. /\ lists' = lists /\ timer' = timer /\ shut' = shut /\ pc' = pc /\ own' = own /\ openssl_count' = openssl_count
      /\ file' = file /\ upload' = upload /\ settings' = settings /\ raced' = raced
  BY <1>2 DEF loop, files
<1>4. pc = "serving"
  BY <1>1, <1>2, BusyServes
<1>5. FileKept
  BY <1>3, <1>4, Zenon DEF FileKept
<1>6. worker[w].at \notin InPlace /\ "idle" \notin InPlace /\ "idle" # "copy"
  BY <1>2 DEF InPlace
<1>7. \A v \in Workers : GoesOn(v)
  BY <1>1, <1>2, <1>6, DoneIs, MovedGoesOn, Zenon
<1>8. Resembles(lists', lists) /\ lists' \in SoundLists /\ (timer \/ shut => timer' \/ shut')
  BY <1>1, <1>3, SameResembles, Zenon
<1> QED
  BY <1>5, <1>7, <1>8, RequestFile, Zenon

\* unpopulate_json is entered.
LEMMA UnpopulateFile ==
  ASSUME Inv, FileOK, NEW w \in Workers, Unpopulate(w)
  PROVE  FileOK'
<1>1. TypeOK /\ ServerDown /\ lists \in SoundLists
  BY Zenon DEF Inv, ListsOK
<1>2. /\ worker[w].at = "unpopulate" /\ Goto(w, "stopping")
      /\ UNCHANGED <<loop, timer, files, settings, lists, ports, page, commands>>
  BY Zenon DEF Unpopulate, At
<1>3. /\ lists' = lists /\ timer' = timer /\ shut' = shut /\ pc' = pc /\ own' = own /\ openssl_count' = openssl_count
      /\ file' = file /\ upload' = upload /\ settings' = settings /\ raced' = raced
  BY <1>2 DEF loop, files
<1>4. pc = "serving"
  BY <1>1, <1>2, BusyServes
<1>5. FileKept
  BY <1>3, <1>4, Zenon DEF FileKept
<1>6. "stopping" \in Steps
  BY DEF Steps
<1>7. Moved(w, "stopping") /\ worker'[w].doc = worker[w].doc
  BY <1>1, <1>2, <1>6, GotoIs, Zenon
<1>8. ASSUME NEW v \in Workers PROVE GoesOn(v)
  <2>1. CASE v = w
    <3>1. worker'[v].at = "stopping" /\ worker[v].at = "unpopulate" /\ worker'[v].doc = worker[v].doc
      BY <1>2, <1>7, <2>1, Zenon DEF Moved
    <3> QED BY <3>1 DEF GoesOn, Uploading, InPlace
  <2>2. CASE v # w
    <3>1. worker'[v] = worker[v]
      BY <1>7, <2>2, Zenon DEF Moved
    <3> QED BY <3>1, Zenon DEF GoesOn, Uploading
  <2> QED BY <2>1, <2>2, Zenon
<1>9. Resembles(lists', lists) /\ lists' \in SoundLists /\ (timer \/ shut => timer' \/ shut')
  BY <1>1, <1>3, SameResembles, Zenon
<1> QED
  BY <1>5, <1>8, <1>9, RequestFile, Zenon

\* The hosts that are left are those of the file, or a restart is due.
LEMMA UnpopulatedFile ==
  ASSUME Inv, FileOK, NEW w \in Workers, Unpopulated(w)
  PROVE  FileOK'
<1>1. TypeOK /\ ServerDown /\ lists \in SoundLists /\ Furnished(lists)
  BY Zenon DEF Inv, ListsOK, FileOK, HaveLocals
<1>2. PICK d : d = Doc(worker[w].doc)
  OBVIOUS
<1>3. PICK l : l = unpopulate_json(lists, d)
  OBVIOUS
<1>4. /\ worker[w].at = "stopping" /\ lists' = Cleared(l)
      /\ UNCHANGED <<loop, files, settings, ports, undefined, page, commands>>
      /\ Throw(w) \/ (~l.thrown /\ Goto(w, "populate") /\ UNCHANGED timer)
  BY <1>2, <1>3, Zenon DEF Unpopulated, At
<1>5. /\ pc' = pc /\ file' = file /\ upload' = upload /\ settings' = settings /\ raced' = raced
  BY <1>4 DEF loop, files
<1>6. pc = "serving"
  BY <1>1, <1>4, BusyServes
<1>7. l \in SoundLists /\ Furnished(l)
  BY <1>1, <1>3, UnpopulateSound, UnpopulateFurnished, Zenon DEF Remnants
<1>8. lists' \in SoundLists /\ Furnished(lists') /\ \A doc : Ready(l, doc) => Ready(lists', doc)
  BY <1>4, <1>7, ClearedSound, ClearedResembles, ResemblesView, Zenon
<1>9. FreshLoad' /\ HaveLocals'
  <2>1. FreshLoad'
    BY <1>5, <1>6 DEF FreshLoad
  <2> QED BY <1>8, <2>1, Zenon DEF HaveLocals
<1>10. CASE raced
  BY <1>5, <1>9, <1>10, Zenon DEF FileOK, OneUpload, UploadsOwn, FileRun
<1>11. CASE ~raced
  <2>1. Uploading(w) /\ worker[w].at \in InPlace
    BY <1>4 DEF Uploading, InPlace
  <2>2. UploadOwn(w) /\ \A v \in Workers : v # w => worker[v].at \in {"idle", "testing"}
    BY <1>11, <2>1, Alone, Zenon
  <2>3. worker[w].doc = file /\ Documents[file].parses /\ ~is_new_configuration(settings, Doc(file))
    BY <2>1, <2>2, Zenon DEF UploadOwn
  <2>4. CASE Throw(w)
    <3>1. Moved(w, "idle") /\ timer' = TRUE
      BY <1>1, <2>4, DoneIs, Zenon DEF Throw
    <3>2. worker'[w].at = "idle"
      BY <3>1, Zenon DEF Moved
    <3>3. UploadOwn(w)'
      BY <3>2 DEF UploadOwn, InPlace
    <3>4. FileRun'
      BY <3>1, Zenon DEF FileRun
    <3> QED BY <1>9, <2>2, <3>1, <3>3, <3>4, AloneMoves, Zenon DEF FileOK
  <2>5. CASE ~l.thrown /\ Goto(w, "populate") /\ UNCHANGED timer
    <3>1. "populate" \in Steps /\ "populate" \in InPlace
      BY DEF Steps, InPlace
    <3>2. Moved(w, "populate") /\ worker'[w].doc = worker[w].doc
      BY <1>1, <2>5, <3>1, GotoIs, Zenon
    <3>3. worker'[w].at = "populate"
      BY <3>2, Zenon DEF Moved
    <3>4. Ready(lists', Doc(file))
      BY <1>1, <1>2, <1>3, <1>8, <2>3, <2>5, UnpopulateReady, Zenon
    <3>5. Doc(file)' = Doc(file)
      BY <1>5 DEF Doc
    <3>6. UploadOwn(w)'
      BY <1>5, <2>3, <3>2, <3>3, <3>4, <3>5 DEF UploadOwn
    <3>7. FileRun'
      BY <3>1, <3>3, Zenon DEF FileRun
    <3> QED BY <1>9, <2>2, <3>2, <3>6, <3>7, AloneMoves, Zenon DEF FileOK
  <2> QED BY <1>4, <2>4, <2>5, Zenon
<1> QED
  BY <1>10, <1>11, Zenon

\* The hosts that were left are furnished and the new ones made as the file says,
\* or a restart is due.
LEMMA PopulateFile ==
  ASSUME Inv, FileOK, NEW w \in Workers, Populate(w)
  PROVE  FileOK'
<1>1. /\ TypeOK /\ ServerDown /\ lists \in SoundLists /\ ~lists.thrown /\ Furnished(lists)
      /\ settings \in SettingsType /\ ~settings.thrown /\ file \in DOMAIN Documents
  BY Zenon DEF Inv, ListsOK, FileOK, HaveLocals, TypeOK
<1>2. PICK d : d = Doc(worker[w].doc)
  OBVIOUS
<1>3. PICK l : l = PopulateLists(lists, d, KeyOk(own))
  OBVIOUS
<1>4. PICK s : s = IF l.thrown THEN [settings EXCEPT !.activate_port = ActivatePort] ELSE PopulateConfig(settings, d)
  OBVIOUS
<1>5. /\ worker[w].at = "populate" /\ lists' = Cleared(l) /\ settings' = Cleared(s)
      /\ UNCHANGED <<loop, files, ports, page, commands>>
      /\ Throw(w) \/ (~l.thrown /\ ~s.thrown /\ Goto(w, "start") /\ UNCHANGED timer)
  BY <1>2, <1>3, <1>4, Zenon DEF Populate, At
<1>6. pc' = pc /\ own' = own /\ file' = file /\ raced' = raced
  BY <1>5 DEF loop, files
<1>7. pc = "serving"
  BY <1>1, <1>5, BusyServes
<1>8. DocumentParsed(d)
  <2>1. worker[w].doc \in DOMAIN Documents
    <3>1. worker[w] \in WorkerType
      BY <1>1, Zenon DEF TypeOK
    <3> QED BY <3>1 DEF WorkerType
  <2> QED BY <1>2, <2>1, DocumentsAssumption, Zenon DEF Doc
<1>9. FreshLoad' /\ HaveLocals'
  <2>1. FreshLoad'
    BY <1>6, <1>7 DEF FreshLoad
  <2>2. PICK ok \in BOOLEAN : ok = KeyOk(own)
    BY DEF KeyOk
  <2>3. l = PopulateLists(lists, d, ok)
    BY <1>3, <2>2, Zenon
  <2>4. l \in SoundLists /\ Furnished(l)
    BY <1>1, <1>8, <2>3, PopulateListsSound, PopulateFurnished, Zenon DEF Descendants
  <2>5. Furnished(lists')
    BY <1>5, <2>4, ClearedSound, ZenonT(40) DEF Furnished
  <2> QED BY <2>1, <2>5, Zenon DEF HaveLocals
<1>10. CASE raced
  BY <1>6, <1>9, <1>10, Zenon DEF FileOK, OneUpload, UploadsOwn, FileRun
<1>11. CASE ~raced
  <2>1. Uploading(w) /\ worker[w].at \in InPlace
    BY <1>5 DEF Uploading, InPlace
  <2>2. UploadOwn(w) /\ \A v \in Workers : v # w => worker[v].at \in {"idle", "testing"}
    BY <1>11, <2>1, Alone, Zenon
  <2>3. /\ worker[w].doc = file /\ Documents[file].parses /\ ~is_new_configuration(settings, Doc(file))
        /\ Ready(lists, Doc(file))
    BY <1>5, <2>1, <2>2, Zenon DEF UploadOwn
  <2>4. CASE Throw(w)
    <3>1. Moved(w, "idle") /\ timer' = TRUE
      BY <1>1, <2>4, DoneIs, Zenon DEF Throw
    <3>2. worker'[w].at = "idle"
      BY <3>1, Zenon DEF Moved
    <3>3. UploadOwn(w)'
      BY <3>2 DEF UploadOwn, InPlace
    <3>4. FileRun'
      BY <3>1, Zenon DEF FileRun
    <3> QED BY <1>9, <2>2, <3>1, <3>3, <3>4, AloneMoves, Zenon DEF FileOK
  <2>5. CASE ~l.thrown /\ ~s.thrown /\ Goto(w, "start") /\ UNCHANGED timer
    <3>1. "start" \in Steps
      BY DEF Steps
    <3>2. Moved(w, "start")
      BY <1>1, <2>5, <3>1, GotoIs, Zenon
    <3>3. worker'[w].at = "start"
      BY <3>2, Zenon DEF Moved
    <3>4. UploadOwn(w)'
      BY <3>3 DEF UploadOwn, InPlace
    <3>5. d = Doc(file) /\ s = PopulateConfig(settings, d) /\ s = Read(file, settings)
      BY <1>2, <1>4, <2>3, <2>5, Zenon DEF Read
    <3>6. s \in SettingsType /\ s.name = settings.name /\ settings.name # ""
      BY <1>1, <1>8, <2>3, <3>5, ConfigTyped, SameName, ZenonT(40)
    <3>7. settings'.name = s.name
      BY <1>5, <3>6, ClearedSettings, Zenon
    <3>8. ASSUME OwnName' PROVE View(lists') = FromFile'
      <4>1. KeyOk(own) /\ s.name = own.cert
        BY <1>6, <3>7, <3>8, Zenon DEF OwnName
      <4>2. lists.clients = <<>> /\ l = PopulateLists(lists, Doc(file), KeyOk(own))
        BY <1>3, <2>3, <3>5, Zenon DEF Ready
      <4>3. /\ ~Read(file, settings).thrown /\ Read(file, settings).name # ""
            /\ Read(file, settings).name = own.cert
        BY <2>5, <3>5, <3>6, <4>1, Zenon
      <4>4. View(Cleared(l)) = View(StartLists(file, Cleared(Read(file, settings)), own))
        BY <1>1, <2>3, <2>5, <4>1, <4>2, <4>3, FillsAsStart, Zenon
      <4> QED BY <1>5, <1>6, <3>5, <4>4, FromFileIs, Zenon
    <3>9. FileRun'
      BY <3>8, Zenon DEF FileRun
    <3> QED BY <1>9, <2>2, <3>2, <3>4, <3>9, AloneMoves, Zenon DEF FileOK
  <2> QED BY <1>5, <2>4, <2>5, Zenon
<1> QED
  BY <1>10, <1>11, Zenon

\* The start at the end of an upload in place lists nothing anew.
LEMMA StartFile ==
  ASSUME Inv, FileOK, NEW w \in Workers, Start(w)
  PROVE  FileOK'
<1>1. /\ TypeOK /\ ServerDown /\ lists \in SoundLists /\ ~lists.thrown
      /\ PortsFree(lists.hosts, foreign, web)
  BY Zenon DEF Inv, ListsOK, TypeOK
<1>2. PICK l : l = StartAll(lists)
  OBVIOUS
<1>3. /\ worker[w].at = "start" /\ lists' = Cleared(l)
      /\ UNCHANGED <<loop, files, settings, web, foreign, exchange, page, commands>>
      /\ Throw(w) \/ (Done(w) /\ timer' = timer)
  BY <1>2, Zenon DEF Start, At
<1>4. /\ shut' = shut /\ pc' = pc /\ own' = own /\ openssl_count' = openssl_count
      /\ file' = file /\ upload' = upload /\ settings' = settings /\ raced' = raced
  BY <1>3 DEF loop, files
<1>5. pc = "serving"
  BY <1>1, <1>3, BusyServes
<1>6. FileKept
  BY <1>4, <1>5, Zenon DEF FileKept
<1>7. Moved(w, "idle") /\ (timer \/ shut => timer' \/ shut')
  <2>1. CASE Throw(w)
    <3>1. Done(w) /\ timer'
      BY <2>1, Zenon DEF Throw
    <3> QED BY <1>1, <3>1, DoneIs, Zenon
  <2>2. CASE Done(w) /\ timer' = timer
    BY <1>1, <1>4, <2>2, DoneIs, Zenon
  <2> QED BY <1>3, <2>1, <2>2, Zenon
<1>8. worker[w].at \notin InPlace /\ "idle" \notin InPlace /\ "idle" # "copy"
  BY <1>3 DEF InPlace
<1>9. \A v \in Workers : GoesOn(v)
  BY <1>7, <1>8, MovedGoesOn, Zenon
<1>10. l \in SoundLists /\ Resembles(l, lists)
  BY <1>1, <1>2, StartStep, StartResembles, Zenon
<1>11. lists' \in SoundLists /\ Resembles(lists', lists)
  <2>1. lists' \in SoundLists /\ lists'.hosts = l.hosts /\ lists'.clients = l.clients
    BY <1>3, <1>10, ClearedSound, Zenon
  <2>2. PICK m : m = lists'
    OBVIOUS
  <2>3. Resembles(m, lists)
    BY <1>10, <2>1, <2>2 DEF Resembles
  <2> QED BY <2>1, <2>2, <2>3, Zenon
<1> QED
  BY <1>6, <1>7, <1>9, <1>11, RequestFile, Zenon

\* config_reload, certificate_delete, shutdown and host_test list nothing anew.
LEMMA OrdersFile ==
  ASSUME Inv, FileOK, NEW w \in Workers, AskReload(w) \/ shutdown(w) \/ host_test(w) \/ HostTested(w)
  PROVE  FileOK'
<1>1. TypeOK /\ ServerDown /\ lists \in SoundLists
  BY Zenon DEF Inv, ListsOK
<1>2. "idle" \notin InPlace /\ "testing" \notin InPlace /\ "testing" \in Steps /\ "idle" # "copy" /\ "testing" # "copy"
  BY DEF InPlace, Steps
<1>3. FileKept /\ lists' = lists /\ (timer \/ shut => timer' \/ shut') /\ \A v \in Workers : GoesOn(v)
  <2>1. CASE AskReload(w)
    <3>1. /\ pc = "serving" /\ worker[w].at = "idle" /\ Throw(w)
          /\ UNCHANGED <<loop, files, settings, lists, ports, page>>
      BY <2>1, Zenon DEF AskReload, Command, Accepts, At
    <3>2. FileKept /\ lists' = lists
      BY <3>1 DEF loop, files, FileKept
    <3>3. timer' /\ Moved(w, "idle")
      BY <1>1, <3>1, DoneIs, Zenon DEF Throw
    <3>4. worker[w].at \notin InPlace
      BY <1>2, <3>1, Zenon
    <3> QED BY <1>2, <3>2, <3>3, <3>4, MovedGoesOn, Zenon
  <2>2. CASE shutdown(w)
    <3>1. /\ pc = "serving" /\ shut'
          /\ UNCHANGED <<pc, exit_code, reload, openssl_count, own, timer, files, settings, lists, ports, worker, mutex, page>>
      BY <2>2, Zenon DEF shutdown, Command, Accepts
    <3>2. FileKept /\ lists' = lists /\ worker' = worker
      BY <3>1 DEF files, FileKept
    <3> QED BY <3>1, <3>2, StillGoesOn, Zenon
  <2>3. CASE host_test(w)
    <3>1. /\ pc = "serving" /\ worker[w].at = "idle" /\ Goto(w, "testing")
          /\ UNCHANGED <<loop, timer, files, settings, lists, ports, page>>
      BY <2>3, Zenon DEF host_test, Command, Accepts, At
    <3>2. FileKept /\ lists' = lists /\ timer' = timer /\ shut' = shut
      BY <3>1 DEF loop, files, FileKept
    <3>3. Moved(w, "testing") /\ worker[w].at \notin InPlace
      BY <1>1, <1>2, <3>1, GotoIs, Zenon
    <3> QED BY <1>2, <3>2, <3>3, MovedGoesOn, Zenon
  <2>4. CASE HostTested(w)
    <3>1. /\ worker[w].at = "testing" /\ Done(w)
          /\ UNCHANGED <<loop, timer, files, settings, lists, ports, inside, undefined, page, commands>>
      BY <2>4, Zenon DEF HostTested, At
    <3>2. pc = "serving"
      BY <1>1, <3>1, BusyServes
    <3>3. FileKept /\ lists' = lists /\ timer' = timer /\ shut' = shut
      BY <3>1, <3>2 DEF loop, files, FileKept
    <3>4. Moved(w, "idle") /\ worker[w].at \notin InPlace
      BY <1>1, <1>2, <3>1, DoneIs, Zenon
    <3> QED BY <1>2, <3>3, <3>4, MovedGoesOn, Zenon
  <2> QED BY <2>1, <2>2, <2>3, <2>4, Zenon
<1>4. Resembles(lists', lists) /\ lists' \in SoundLists
  BY <1>1, <1>3, SameResembles, Zenon
<1> QED
  BY <1>3, <1>4, RequestFile, Zenon

\* The status page and the switches list nothing anew.
LEMMA SwitchesFile ==
  ASSUME Inv, FileOK, NEW w \in Workers, status_get(w) \/ host_set_active(w) \/ client_set_active(w)
  PROVE  FileOK'
<1>1. TypeOK /\ lists \in SoundLists /\ ~lists.thrown /\ PortsFree(lists.hosts, foreign, web)
  BY Zenon DEF Inv, ListsOK, TypeOK
<1>2. pc = "serving" /\ UNCHANGED <<loop, timer, files, settings, ports, worker>>
  BY Zenon DEF status_get, host_set_active, client_set_active, Command, Accepts
<1>3. FileKept /\ timer' = timer /\ shut' = shut /\ worker' = worker
  BY <1>2 DEF loop, files, FileKept
<1>4. Resembles(lists', lists) /\ lists' \in SoundLists
  <2>1. CASE status_get(w)
    <3>1. lists' = lists
      BY <2>1 DEF status_get
    <3> QED BY <1>1, <3>1, SameResembles, Zenon
  <2>2. CASE host_set_active(w)
    <3>1. PICK p \in {q \in page : q.kind = "host"}, active \in BOOLEAN : lists' = HostsSwitched(lists, p.id, active)
      BY <2>2, Zenon DEF host_set_active, HostsSwitched
    <3>2. PICK id : id = p.id
      OBVIOUS
    <3>3. lists' = HostsSwitched(lists, id, active) /\ active \in BOOLEAN
      BY <3>1, <3>2
    <3> QED BY <1>1, <3>3, HostSwitchStep, HostSwitchResembles, Zenon
  <2>3. CASE client_set_active(w)
    <3>1. PICK p \in {q \in page : q.kind = "client"}, active \in BOOLEAN : lists' = ClientsSwitched(lists, p.id, active)
      BY <2>3, Zenon DEF client_set_active, ClientsSwitched
    <3>2. PICK id : id = p.id
      OBVIOUS
    <3>3. lists' = ClientsSwitched(lists, id, active) /\ active \in BOOLEAN
      BY <3>1, <3>2
    <3> QED BY <1>1, <3>3, ClientSwitchStep, ClientSwitchResembles, Zenon DEF Successors
  <2> QED BY <2>1, <2>2, <2>3, Zenon
<1>5. \A v \in Workers : GoesOn(v)
  BY <1>3, StillGoesOn, Zenon
<1>6. timer \/ shut => timer' \/ shut'
  BY <1>3, Zenon
<1> QED
  BY <1>3, <1>4, <1>5, <1>6, RequestFile, Zenon

\* Every step of the program keeps to the file.
LEMMA StepFile ==
  ASSUME Inv, FileOK, [Next]_vars
  PROVE  FileOK'
<1>1. CASE Main
  BY <1>1, LoadFailsFile, LoadGeneratesFile, LoadPopulatesFile, LockFile, UnlockAgainFile, SignalFile, Zenon DEF Main
<1>2. CASE Sighup \/ \E p \in ForeignPorts : PortFreed(p)
  BY <1>2, SignalFile, Zenon
<1>3. ASSUME NEW w \in Workers, Request(w) PROVE FileOK'
  <2>1. CASE config_upload(w)
    BY <2>1, config_uploadFile, Zenon
  <2>2. CASE Parse(w)
    BY <2>2, ParseFile, Zenon
  <2>3. CASE Copy(w)
    BY <2>3, CopyFile, Zenon
  <2>4. CASE CopyFails(w)
    BY <2>4, CopyFailsFile, Zenon
  <2>5. CASE Unpopulate(w)
    BY <2>5, UnpopulateFile, Zenon
  <2>6. CASE Unpopulated(w)
    BY <2>6, UnpopulatedFile, Zenon
  <2>7. CASE Populate(w)
    BY <2>7, PopulateFile, Zenon
  <2>8. CASE Start(w)
    BY <2>8, StartFile, Zenon
  <2>9. CASE AskReload(w) \/ shutdown(w) \/ host_test(w) \/ HostTested(w)
    BY <2>9, OrdersFile, Zenon
  <2>10. CASE status_get(w) \/ host_set_active(w) \/ client_set_active(w)
    BY <2>10, SwitchesFile, Zenon
  <2> QED
    BY <1>3, <2>1, <2>2, <2>3, <2>4, <2>5, <2>6, <2>7, <2>8, <2>9, <2>10, Zenon DEF Request, UploadStep
<1>4. CASE UNCHANGED vars
  <2>1. /\ pc' = pc /\ reload' = reload /\ shut' = shut /\ timer' = timer /\ openssl_count' = openssl_count
        /\ own' = own /\ file' = file /\ upload' = upload /\ raced' = raced /\ settings' = settings
        /\ lists' = lists /\ worker' = worker
    BY <1>4 DEF vars, loop, files
  <2>2. lists \in SoundLists /\ lists' \in SoundLists
    BY <2>1, Zenon DEF Inv, ListsOK
  <2>3. Resembles(lists', lists) /\ \A v \in Workers : GoesOn(v)
    BY <2>1, SameResembles, StillGoesOn, Zenon
  <2>4. timer \/ shut => timer' \/ shut'
    BY <2>1, Zenon
  <2> QED BY <2>1, <2>2, <2>3, <2>4, FileStays, Zenon
<1> QED
  BY <1>1, <1>2, <1>3, <1>4, Zenon DEF Next

------------------------------------------------------------------------------
(* The theorems *)

\* No host is switched but one that the status page shows.
OnlyShown ==
  \A k \in DOMAIN lists.hosts, j \in DOMAIN lists'.hosts :
    lists.hosts[k].id = lists'.hosts[j].id /\ lists.hosts[k].active # lists'.hosts[j].active
      => HostStatus(lists.hosts[k]) \in page

\* Steps that follow the lists, or leave them alone, switch nothing.
LEMMA SuccessorsSwitchNothing ==
  ASSUME Inv, lists' \in Successors(lists) \/ lists' = lists
  PROVE  OnlyShown
<1>1. lists \in SoundLists /\ ~lists.thrown
  BY Zenon DEF Inv, ListsOK, TypeOK
<1>2. lists' \in Successors(lists)
  BY <1>1, Unchanged, Zenon
<1> QED
  BY <1>2, Zenon DEF Successors, SameSwitch, OnlyShown

\* Every step of the program keeps the invariant and switches only what is shown.
LEMMA StepInv ==
  ASSUME Inv, [Next]_vars
  PROVE  Inv' /\ OnlyShown
<1>1. CASE Main
  <2>1. CASE LoadFails
    <3>1. lists' = lists
      BY <2>1 DEF LoadFails
    <3> QED BY <2>1, <3>1, LoadFailsInv, SuccessorsSwitchNothing, Zenon
  <2>2. CASE LoadGenerates
    <3>1. lists' = lists
      BY <2>2, Zenon DEF LoadGenerates
    <3> QED BY <2>2, <3>1, LoadGeneratesInv, SuccessorsSwitchNothing, Zenon
  <2>3. CASE LoadPopulates
    BY <2>3, LoadPopulatesInv, SuccessorsSwitchNothing, Zenon
  <2>4. CASE Lock
    BY <2>4, LockInv, SuccessorsSwitchNothing, Zenon
  <2>5. CASE Unlock
    BY <2>5, UnlockInv, SuccessorsSwitchNothing, Zenon
  <2>6. CASE Again
    BY <2>6, AgainInv, SuccessorsSwitchNothing, Zenon
  <2>7. CASE timeout_handle
    BY <2>7, SignalInv, SuccessorsSwitchNothing, Zenon
  <2> QED BY <1>1, <2>1, <2>2, <2>3, <2>4, <2>5, <2>6, <2>7, Zenon DEF Main
<1>2. CASE Sighup \/ \E p \in ForeignPorts : PortFreed(p)
  BY <1>2, SignalInv, SuccessorsSwitchNothing, Zenon
<1>3. ASSUME NEW w \in Workers, Request(w) PROVE Inv' /\ OnlyShown
  <2>1. CASE config_upload(w)
    BY <2>1, config_uploadInv, SuccessorsSwitchNothing, Zenon
  <2>2. CASE Parse(w)
    BY <2>2, ParseInv, SuccessorsSwitchNothing, Zenon
  <2>3. CASE Copy(w)
    BY <2>3, CopyInv, SuccessorsSwitchNothing, Zenon
  <2>4. CASE CopyFails(w)
    BY <2>4, CopyFailsInv, SuccessorsSwitchNothing, Zenon
  <2>5. CASE Unpopulate(w)
    BY <2>5, UnpopulateInv, SuccessorsSwitchNothing, Zenon
  <2>6. CASE Unpopulated(w)
    BY <2>6, UnpopulatedInv, SuccessorsSwitchNothing, Zenon
  <2>7. CASE Populate(w)
    BY <2>7, PopulateInv, SuccessorsSwitchNothing, Zenon
  <2>8. CASE Start(w)
    BY <2>8, StartInv, SuccessorsSwitchNothing, Zenon
  <2>9. CASE AskReload(w) \/ shutdown(w) \/ host_test(w) \/ HostTested(w)
    BY <2>9, OrdersInv, SuccessorsSwitchNothing, Zenon
  <2>10. CASE status_get(w)
    BY <2>10, status_getInv, SuccessorsSwitchNothing, Zenon
  <2>11. CASE host_set_active(w)
    BY <2>11, host_set_activeInv, Zenon DEF OnlyShown
  <2>12. CASE client_set_active(w)
    BY <2>12, client_set_activeInv, SuccessorsSwitchNothing, Zenon
  <2> QED
    BY <1>3, <2>1, <2>2, <2>3, <2>4, <2>5, <2>6, <2>7, <2>8, <2>9, <2>10, <2>11, <2>12, Zenon
    DEF Request, UploadStep
<1>4. CASE UNCHANGED vars
  <2>1. /\ pc' = pc /\ exit_code' = exit_code /\ reload' = reload /\ shut' = shut /\ timer' = timer
        /\ openssl_count' = openssl_count /\ own' = own /\ file' = file /\ upload' = upload /\ raced' = raced
        /\ settings' = settings /\ lists' = lists /\ activation' = activation /\ web' = web
        /\ foreign' = foreign /\ exchange' = exchange /\ worker' = worker /\ locked' = locked
        /\ inside' = inside /\ undefined' = undefined /\ page' = page
    BY <1>4 DEF vars, loop, files, ports, mutex
  <2>2. Inv'
    BY <2>1, ZenonT(40) DEF Inv, TypeOK, ListsOK, ServerDown, AllIdle, StartDue, ExchangeOK, UploadAdds, PageOK
  <2> QED BY <2>1, <2>2, SuccessorsSwitchNothing, Zenon
<1> QED
  BY <1>1, <1>2, <1>3, <1>4, Zenon DEF Next

\* The parts of the invariant give what AllUp claims.
LEMMA InvAllUp == Inv => AllUp
<1> SUFFICES ASSUME Inv PROVE AllUp
  OBVIOUS
<1>1. lists \in SoundLists /\ PortsFree(lists.hosts, foreign, web) /\ StartDue /\ ExchangeOK
  BY Zenon DEF Inv, ListsOK
<1>2. EveryPortRuns
  <2> SUFFICES ASSUME Quiet
               PROVE  /\ \A h \in Range(lists.hosts) : h.running \/ ~h.active \/ h.acceptor = "open"
                      /\ \A c \in Range(lists.clients) : c.running = c.active
    BY Zenon DEF EveryPortRuns
  <2>1. pc = "serving" /\ ~timer /\ ~shut /\ \A w \in Workers : worker[w].at = "idle"
    BY Zenon DEF Quiet, AllIdle
  <2>2. \A w \in Workers : worker[w].at # "start"
    BY <2>1
  <2>3. Up(lists)
    BY <1>1, <2>1, <2>2, Zenon DEF StartDue
  <2> QED BY <2>3, Zenon DEF Up, Range
<1>3. PortsExclusive
  <2> SUFFICES ASSUME NEW k \in DOMAIN lists.hosts, lists.hosts[k].running, lists.hosts[k].port # 0
               PROVE  /\ lists.hosts[k].acceptor = "bound" /\ lists.hosts[k].port \notin foreign \cup {web}
                      /\ \A j \in DOMAIN lists.hosts \ {k} :
                           lists.hosts[j].port # lists.hosts[k].port \/ ~lists.hosts[j].running
    BY Zenon DEF PortsExclusive
  <2>1. HostsSound(lists.hosts, lists.hostids)
    BY <1>1, Zenon DEF SoundLists
  <2>2. lists.hosts[k].acceptor = "bound"
    BY <2>1, Zenon DEF HostsSound, SoundHosts
  <2>3. lists.hosts[k].port \notin foreign \cup {web}
    BY <1>1, Zenon DEF PortsFree
  <2>4. \A j \in DOMAIN lists.hosts \ {k} : lists.hosts[j].port # lists.hosts[k].port
    BY <2>1, Zenon DEF HostsSound
  <2> QED BY <2>2, <2>3, <2>4, Zenon
<1>4. Quiet => exchange = settings.uniproxies
  BY <1>1, Zenon DEF Quiet, ExchangeOK
<1> QED
  BY <1>2, <1>3, <1>4, Zenon DEF AllUp

\* The invariant, for every number of workers, every set of documents the JSON
\* parser can give and every sequence of uploads, switches, reloads and faults.
THEOREM ApplicationInvariant == Spec => []Inv
<1>1. Init => Inv
  BY InitInv
<1>2. Inv /\ [Next]_vars => Inv'
  BY StepInv
<1> QED
  BY <1>1, <1>2, PTL DEF Spec

\* Type correctness: ports stay as wide as mylib::port_type, whatever number a
\* document gives, and no exception is left to handle between two steps.
THEOREM TypeCorrect == Spec => []TypeOK
<1>1. Inv => TypeOK
  BY Zenon DEF Inv
<1> QED
  BY <1>1, ApplicationInvariant, PTL

\* AllUp: once nothing is under way every host and every active client runs,
\* no two hosts hold one port, and certificates are exchanged with every
\* uniproxy that is known.
THEOREM PortsUp == Spec => []AllUp
<1>1. Inv => AllUp
  BY InvAllUp
<1> QED
  BY <1>1, ApplicationInvariant, PTL

\* SwitchActsOnShown: host_set_active switches no host but one that the status
\* page shows under that id and port, however old the page is.
THEOREM SwitchesShown == Spec => SwitchActsOnShown
<1>1. Inv /\ [Next]_vars => [OnlyShown]_vars
  BY StepInv
<1>2. SwitchActsOnShown <=> [][OnlyShown]_vars
  BY PTL DEF SwitchActsOnShown, OnlyShown
<1> QED
  BY <1>1, <1>2, ApplicationInvariant, PTL DEF Spec

\* RunsTheFile: whatever was uploaded before, in place or by a restart, and
\* whichever step of it threw, the hosts and clients are those a start on the
\* present uniproxy.json would give, once nothing is under way.
THEOREM RunsTheUploadedFile == Spec => []RunsTheFile
<1>1. Init => Inv /\ FileOK
  BY InitInv, InitFile
<1>2. Inv /\ FileOK /\ [Next]_vars => (Inv /\ FileOK)'
  BY StepInv, StepFile, Zenon
<1>3. FileOK => RunsTheFile
  <2> SUFFICES ASSUME FileOK, Quiet, OwnName, ~raced PROVE View(lists) = FromFile
    BY Zenon DEF RunsTheFile
  <2>1. pc = "serving" /\ ~timer /\ ~shut /\ \A w \in Workers : worker[w].at = "idle"
    BY Zenon DEF Quiet, AllIdle
  <2>2. pc \in {"lock", "serving"} /\ \A w \in Workers : worker[w].at \notin InPlace
    BY <2>1 DEF InPlace
  <2> QED BY <2>1, <2>2, Zenon DEF FileOK, FileRun
<1> QED
  BY <1>1, <1>2, <1>3, PTL DEF Spec
==============================================================================
