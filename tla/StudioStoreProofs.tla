------------------------- MODULE StudioStoreProofs --------------------------
(***************************************************************************)
(* Proofs about the two tables that Studio writes concurrently.            *)
(*                                                                         *)
(* Versions: published history is an append-only log, for any number of    *)
(* environments, publishers and versions.  Inv says that numbers are       *)
(* dense, what a request in flight may still rely on, and what was         *)
(* acknowledged.                                                           *)
(*                                                                         *)
(* Drafts: on SQLite no update of the draft is lost, for any number of     *)
(* resources, editors, imports and writes.  Every step has one of a few    *)
(* effects on a row, on an editor and on the transaction (Effect);         *)
(* DraftsInv is kept by each effect, so each action is opened once.        *)
(***************************************************************************)
EXTENDS Versions, Drafts, TLAPS

-----------------------------------------------------------------------------
(* Versions                                                                *)

\* The largest element of 1..k is k.
LEMMA IntervalMax ==
  ASSUME NEW e \in Envs, NEW k \in Nat, Numbers(e) = 1..k
  PROVE  MaxNumber(e) = k
<1>1. CASE k = 0
  BY <1>1 DEF MaxNumber
<1>2. CASE k # 0
  <2>1. k \in 1..k /\ \A m \in 1..k : m <= k
    BY <1>2
  <2>2. \A n \in 1..k : (\A m \in 1..k : m <= n) => n = k
    BY <2>1
  <2>. QED
    BY <1>2, <2>1, <2>2 DEF MaxNumber, Max
<1>. QED
  BY <1>1, <1>2

\* The requests in flight, and the ones just begun, are well formed.
LEMMA RequestShape ==
  ASSUME TypeOK, NEW p \in Publishers, req[p] # Idle
  PROVE  /\ req[p] \in [pc : {"number", "insert"}, env : Envs, doc : Docs, next : Nat,
                         attempt : 1..Attempts, base : Nat]
         /\ req[p].pc \in {"number", "insert"} /\ req[p].env \in Envs /\ req[p].doc \in Docs
         /\ req[p].next \in Nat /\ req[p].attempt \in 1..Attempts /\ req[p].base \in Nat
<1>1. req[p] \in [pc : {"number", "insert"}, env : Envs, doc : Docs, next : Nat,
                  attempt : 1..Attempts, base : Nat]
  BY DEF TypeOK, Requests
<1>. QED
  BY <1>1

LEMMA InitInv == Init => Inv
<1> SUFFICES ASSUME Init PROVE Inv
  OBVIOUS
<1>1. \A e \in Envs : Numbers(e) = 1..0
  BY DEF Init, Numbers
<1>2. \A e \in Envs : MaxNumber(e) = 0
  BY <1>1, IntervalMax
<1>3. TypeOK
  <2>1. \A e \in Envs : Numbers(e) \subseteq Nat \ {0} /\ versions[e] \in [Numbers(e) -> Docs]
    BY <1>1 DEF Init, Numbers
  <2>2. acked \in [Envs -> Seq([number : Nat, doc : Docs])]
    BY DEF Init
  <2>. QED
    BY <2>1, <2>2, VersionsAssumption DEF Init, TypeOK, Requests
<1>4. NumbersDense
  BY <1>1, <1>2 DEF NumbersDense
<1>5. AckedVersionsStand
  BY DEF Init, AckedVersionsStand
<1>6. RequestsSound /\ ConflictMeansProgress
  BY DEF Init, RequestsSound, ConflictMeansProgress
<1>. QED
  BY <1>3, <1>4, <1>5, <1>6 DEF Inv

\* A step that leaves the tables, the history and the validator alone keeps
\* everything that is not about requests.
LEMMA TablesUnchanged ==
  ASSUME Inv, UNCHANGED <<versions, acked>>
  PROVE  /\ \A e \in Envs : Numbers(e)' = Numbers(e) /\ MaxNumber(e)' = MaxNumber(e)
         /\ NumbersDense'
         /\ AckedVersionsStand'
<1>1. \A e \in Envs : Numbers(e)' = Numbers(e)
  BY DEF Numbers
<1>2. \A e \in Envs : MaxNumber(e)' = MaxNumber(e)
  BY <1>1 DEF MaxNumber
<1>3. NumbersDense'
  BY <1>1, <1>2 DEF Inv, NumbersDense
<1>4. AckedVersionsStand'
  BY <1>1 DEF Inv, AckedVersionsStand
<1>. QED
  BY <1>1, <1>2, <1>3, <1>4

\* What inserting a row does to the numbers of an environment.
LEMMA InsertExtends ==
  ASSUME Inv, NEW p \in Publishers, Insert(p),
         NEW e, e = req[p].env, NEW n, n = req[p].next
  PROVE  /\ e \in Envs
         /\ n = MaxNumber(e) + 1
         /\ MaxNumber(e) \in Nat
         /\ MaxNumber(e)' = MaxNumber(e) + 1
         /\ Numbers(e)' = 1..(MaxNumber(e) + 1)
         /\ \A f \in Envs \ {e} : Numbers(f)' = Numbers(f) /\ MaxNumber(f)' = MaxNumber(f)
         /\ DOMAIN versions' = Envs
         /\ \A f \in Envs : \A m \in Numbers(f) : versions'[f][m] = versions[f][m]
         /\ versions'[e][n] = req[p].doc
         /\ \A f \in Envs : versions'[f] \in [Numbers(f)' -> Docs]
<1>0. req[p] # Idle /\ TypeOK
  BY DEF Insert, Idle, Inv
<1>1. e \in Envs /\ n \in Nat /\ req[p].doc \in Docs
  BY <1>0, RequestShape
<1>2. MaxNumber(e) \in Nat /\ Numbers(e) = 1..MaxNumber(e)
  BY <1>1 DEF Inv, NumbersDense
<1>3. n = MaxNumber(e) + 1
  BY <1>0, <1>1, <1>2 DEF Inv, RequestsSound, Insert
<1>4. versions' = [versions EXCEPT ![e] =
         [m \in Numbers(e) \cup {n} |-> IF m = n THEN req[p].doc ELSE versions[e][m]]]
  BY DEF Insert, PutRow
<1>5. DOMAIN versions = Envs /\ \A f \in Envs : versions[f] \in [Numbers(f) -> Docs]
  BY <1>0 DEF TypeOK
<1>6. versions'[e] = [m \in Numbers(e) \cup {n} |-> IF m = n THEN req[p].doc ELSE versions[e][m]]
  BY <1>1, <1>4, <1>5
<1>7. \A f \in Envs \ {e} : versions'[f] = versions[f]
  BY <1>4, <1>5
<1>8. Numbers(e)' = 1..(MaxNumber(e) + 1)
  <2>1. Numbers(e)' = Numbers(e) \cup {n}
    BY <1>6 DEF Numbers
  <2>2. (1..MaxNumber(e)) \cup {MaxNumber(e) + 1} = 1..(MaxNumber(e) + 1)
    BY <1>2
  <2>. QED
    BY <2>1, <2>2, <1>2, <1>3, Zenon
<1>9. MaxNumber(e)' = MaxNumber(e) + 1
  <2> DEFINE k == MaxNumber(e) + 1
  <2>1. k \in Nat /\ k \in 1..k /\ 1..k # {}
    BY <1>2
  <2>2. \A m \in 1..k : m <= k
    BY <2>1
  <2>3. \A j \in 1..k : (\A m \in 1..k : m <= j) => j = k
    BY <2>1, <2>2
  <2> HIDE DEF k
  <2>4. Numbers(e)' = 1..k
    BY <1>8 DEF k
  <2>5. MaxNumber(e)' = k
    BY <2>1, <2>2, <2>3, <2>4 DEF MaxNumber, Max
  <2>. QED
    BY <2>5 DEF k
<1>10. \A f \in Envs \ {e} : Numbers(f)' = Numbers(f) /\ MaxNumber(f)' = MaxNumber(f)
  BY <1>7 DEF Numbers, MaxNumber
<1>11. DOMAIN versions' = Envs
  BY <1>4, <1>5
<1>12. \A f \in Envs : \A m \in Numbers(f) : versions'[f][m] = versions[f][m]
  BY <1>2, <1>3, <1>6, <1>7
<1>13. versions'[e][n] = req[p].doc
  BY <1>6
<1>14. \A f \in Envs : versions'[f] \in [Numbers(f)' -> Docs]
  BY <1>1, <1>5, <1>6, <1>7 DEF Numbers
<1>. QED
  BY <1>1, <1>2, <1>3, <1>8, <1>9, <1>10, <1>11, <1>12, <1>13, <1>14

\* What RequestsSound and ConflictMeansProgress ask of one request.
Good(r) ==
  r # Idle =>
    /\ r.doc \in valid
    /\ r.pc = "insert" =>
         /\ r.next >= 1
         /\ r.next <= MaxNumber(r.env) + 1
         /\ r.next > r.base + r.attempt - 1
    /\ MaxNumber(r.env) >= r.base + r.attempt - 1

LEMMA AllGood == ASSUME Inv, NEW q \in Publishers PROVE Good(req[q])
BY DEF Inv, Good, RequestsSound, ConflictMeansProgress

\* A step that changes no version keeps the invariant if every request it
\* changes is a good one.
LEMMA RequestStep ==
  ASSUME Inv, UNCHANGED <<versions, acked, valid>>,
         envs' \in SUBSET Envs, draft' \in [Envs -> Docs], req' \in [Publishers -> Requests],
         \A q \in Publishers : req'[q] = req[q] \/ Good(req'[q])
  PROVE  Inv'
<1>1. /\ \A e \in Envs : Numbers(e)' = Numbers(e) /\ MaxNumber(e)' = MaxNumber(e)
      /\ NumbersDense'
      /\ AckedVersionsStand'
  BY TablesUnchanged
<1>2. TypeOK'
  BY <1>1 DEF Inv, TypeOK
<1>3. \A q \in Publishers : Good(req'[q])
  BY AllGood
<1>4. \A q \in Publishers : req'[q] # Idle => req'[q].env \in Envs
  BY DEF Requests
<1>5. RequestsSound' /\ ConflictMeansProgress'
  <2>1. ASSUME NEW q \in Publishers, req'[q] # Idle, NEW e, e = req'[q].env
        PROVE  /\ req'[q].doc \in valid'
               /\ req'[q].pc = "insert" =>
                    /\ req'[q].next >= 1
                    /\ req'[q].next <= MaxNumber(e)' + 1
                    /\ req'[q].next > req'[q].base + req'[q].attempt - 1
               /\ MaxNumber(e)' >= req'[q].base + req'[q].attempt - 1
    <3>1. e \in Envs /\ MaxNumber(e)' = MaxNumber(req'[q].env)
      BY <2>1, <1>1, <1>4
    <3>. QED
      BY <2>1, <3>1, <1>3 DEF Good
  <2>. QED
    BY <2>1 DEF RequestsSound, ConflictMeansProgress, Idle
<1>. QED
  BY <1>1, <1>2, <1>5 DEF Inv

\* The request that publish and rollback begin is a good one.
LEMMA BeginGood ==
  ASSUME Inv, NEW e \in Envs, NEW d \in valid
  PROVE  /\ Request(e, d, "number", 0, 1, MaxNumber(e)) \in Requests
         /\ Good(Request(e, d, "number", 0, 1, MaxNumber(e)))
<1>1. MaxNumber(e) \in Nat /\ d \in Docs
  BY DEF Inv, NumbersDense, TypeOK
<1>. QED
  BY <1>1 DEF Request, Requests, Good, Attempts

LEMMA ReadNextInv == ASSUME Inv, NEW p \in Publishers, ReadNext(p) PROVE Inv'
<1>1. req[p] # Idle /\ TypeOK
  BY DEF ReadNext, Idle, Inv
<1>2. /\ req[p] \in [pc : {"number", "insert"}, env : Envs, doc : Docs, next : Nat,
                      attempt : 1..Attempts, base : Nat]
      /\ req[p].env \in Envs /\ req[p].attempt \in Nat /\ req[p].base \in Nat
  BY <1>1, RequestShape DEF Attempts
<1> DEFINE k == MaxNumber(req[p].env)
           r == [req[p] EXCEPT !.next = k + 1, !.pc = "insert"]
<1>3. k \in Nat
  BY <1>2 DEF Inv, NumbersDense
<1>4. r \in Requests
  <2>1. k + 1 \in Nat
    BY <1>3
  <2> HIDE DEF k
  <2>. QED
    BY <1>2, <2>1 DEF Requests
<1>5. req' = [req EXCEPT ![p] = r]
  BY <1>1 DEF ReadNext, TypeOK
<1>6. /\ r.doc = req[p].doc /\ r.env = req[p].env /\ r.next = k + 1
      /\ r.base = req[p].base /\ r.attempt = req[p].attempt
  BY <1>2
<1>7. req[p].doc \in valid /\ k >= req[p].base + req[p].attempt - 1
  BY <1>1 DEF Inv, RequestsSound, ConflictMeansProgress
<1> HIDE DEF r
<1>8. Good(r)
  BY <1>2, <1>3, <1>6, <1>7 DEF Good
<1>9. req' \in [Publishers -> Requests] /\ \A q \in Publishers : req'[q] = req[q] \/ Good(req'[q])
  BY <1>1, <1>4, <1>5, <1>8 DEF TypeOK
<1>10. UNCHANGED <<versions, acked, valid>> /\ envs' \in SUBSET Envs /\ draft' \in [Envs -> Docs]
  BY <1>1 DEF ReadNext, TypeOK
<1>. QED
  BY <1>9, <1>10, RequestStep

LEMMA ConflictInv == ASSUME Inv, NEW p \in Publishers, Conflict(p) PROVE Inv'
<1>1. req[p] # Idle /\ TypeOK
  BY DEF Conflict, Idle, Inv
<1>2. /\ req[p] \in [pc : {"number", "insert"}, env : Envs, doc : Docs, next : Nat,
                      attempt : 1..Attempts, base : Nat]
      /\ req[p].env \in Envs /\ req[p].attempt \in 1..3 /\ req[p].base \in Nat
      /\ req[p].next \in Nat
  BY <1>1, RequestShape DEF Attempts
<1> DEFINE k == MaxNumber(req[p].env)
           r == [req[p] EXCEPT !.pc = "number", !.attempt = @ + 1]
<1>3. k \in Nat /\ Numbers(req[p].env) = 1..k
  BY <1>2 DEF Inv, NumbersDense
<1>4. r \in Requests
  <2>1. req[p].attempt + 1 \in 1..Attempts
    BY <1>2 DEF Conflict, Attempts
  <2>. QED
    BY <1>2, <2>1 DEF Requests
<1>5. req' = [req EXCEPT ![p] = r]
  BY <1>1 DEF Conflict, TypeOK
<1>6. /\ r.doc = req[p].doc /\ r.env = req[p].env /\ r.pc = "number"
      /\ r.base = req[p].base /\ r.attempt = req[p].attempt + 1
  BY <1>2
<1>7. req[p].doc \in valid /\ req[p].next > req[p].base + req[p].attempt - 1
  BY <1>1 DEF Inv, RequestsSound, Conflict
<1>8. req[p].next <= k
  BY <1>3 DEF Conflict
<1> HIDE DEF r
<1>9. Good(r)
  BY <1>2, <1>3, <1>6, <1>7, <1>8 DEF Good
<1>10. req' \in [Publishers -> Requests] /\ \A q \in Publishers : req'[q] = req[q] \/ Good(req'[q])
  BY <1>1, <1>4, <1>5, <1>9 DEF TypeOK
<1>11. UNCHANGED <<versions, acked, valid>> /\ envs' \in SUBSET Envs /\ draft' \in [Envs -> Docs]
  BY <1>1 DEF Conflict, TypeOK
<1>. QED
  BY <1>10, <1>11, RequestStep

LEMMA InsertInv == ASSUME Inv, NEW p \in Publishers, Insert(p) PROVE Inv'
<1> DEFINE d == req[p].doc
<1>0. PICK e, n : e = req[p].env /\ n = req[p].next
  OBVIOUS
<1>1. /\ e \in Envs
      /\ n = MaxNumber(e) + 1
      /\ MaxNumber(e) \in Nat
      /\ MaxNumber(e)' = MaxNumber(e) + 1
      /\ Numbers(e)' = 1..(MaxNumber(e) + 1)
      /\ \A f \in Envs \ {e} : Numbers(f)' = Numbers(f) /\ MaxNumber(f)' = MaxNumber(f)
      /\ DOMAIN versions' = Envs
      /\ \A f \in Envs : \A m \in Numbers(f) : versions'[f][m] = versions[f][m]
      /\ versions'[e][n] = req[p].doc
      /\ \A f \in Envs : versions'[f] \in [Numbers(f)' -> Docs]
  BY <1>0, InsertExtends
<1>2. req[p] # Idle /\ TypeOK
  BY DEF Insert, Idle, Inv
<1>3. d \in Docs /\ n \in Nat
  BY <1>1, <1>2, RequestShape
<1>4. \A f \in Envs : MaxNumber(f) \in Nat /\ Numbers(f) = 1..MaxNumber(f)
  BY DEF Inv, NumbersDense
<1>5. NumbersDense'
  BY <1>1, <1>4 DEF NumbersDense
<1>6. \A f \in Envs : Numbers(f) \subseteq Numbers(f)' /\ MaxNumber(f)' >= MaxNumber(f)
  BY <1>1, <1>4
<1>7. /\ acked' = [acked EXCEPT ![e] = Append(@, Row(n, d))]
      /\ req' = [req EXCEPT ![p] = Idle]
      /\ UNCHANGED <<envs, draft, valid>>
  BY <1>0 DEF Insert, PutRow
<1>8. TypeOK'
  <2>1. Row(n, d) \in [number : Nat, doc : Docs]
    BY <1>3 DEF Row
  <2>2. acked' \in [Envs -> Seq([number : Nat, doc : Docs])]
    <3> DEFINE AckedRows == [number : Nat, doc : Docs]
    <3>1. acked \in [Envs -> Seq(AckedRows)] /\ Row(n, d) \in AckedRows
      BY <1>2, <2>1 DEF TypeOK
    <3> HIDE DEF AckedRows
    <3>2. Append(acked[e], Row(n, d)) \in Seq(AckedRows)
      BY <3>1, <1>1
    <3>3. acked' \in [Envs -> Seq(AckedRows)]
      BY <3>1, <3>2, <1>7
    <3>. QED
      BY <3>3 DEF AckedRows
  <2>3. req' \in [Publishers -> Requests]
    BY <1>2, <1>7 DEF TypeOK, Requests
  <2>4. \A f \in Envs : Numbers(f)' \subseteq Nat \ {0}
    BY <1>1, <1>4
  <2>. QED
    BY <2>2, <2>3, <2>4, <1>1, <1>2, <1>7 DEF TypeOK
<1>9. AckedVersionsStand'
  <2>1. ASSUME NEW f \in Envs, f # e
        PROVE  acked'[f] = acked[f]
    BY <2>1, <1>7, <1>2 DEF TypeOK
  <2>2. acked'[e] = Append(acked[e], Row(n, d)) /\ acked[e] \in Seq([number : Nat, doc : Docs])
    BY <1>1, <1>7, <1>2 DEF TypeOK
  <2>3. \A i \in DOMAIN acked[e] : acked[e][i].number \in Numbers(e) /\ acked[e][i].number # n
    BY <1>1, <1>4 DEF Inv, AckedVersionsStand
  <2>4. Row(n, d).number = n /\ Row(n, d).doc = d
    BY DEF Row
  <2>5. /\ DOMAIN acked'[e] = DOMAIN acked[e] \cup {Len(acked[e]) + 1}
        /\ Len(acked[e]) + 1 \notin DOMAIN acked[e]
        /\ acked'[e][Len(acked[e]) + 1] = Row(n, d)
        /\ \A i \in DOMAIN acked[e] : acked'[e][i] = acked[e][i]
    BY <2>2
  <2>6. ASSUME NEW f \in Envs, NEW i \in DOMAIN acked'[f]
        PROVE  /\ acked'[f][i].number \in Numbers(f)'
               /\ versions'[f][acked'[f][i].number] = acked'[f][i].doc
    <3>1. CASE f = e /\ i = Len(acked[e]) + 1
      BY <3>1, <2>4, <2>5, <1>1
    <3>2. CASE ~(f = e /\ i = Len(acked[e]) + 1)
      <4>1. i \in DOMAIN acked[f] /\ acked'[f][i] = acked[f][i]
        BY <3>2, <2>1, <2>5, <2>6
      <4>2. /\ acked[f][i].number \in Numbers(f)
            /\ versions[f][acked[f][i].number] = acked[f][i].doc
        BY <4>1 DEF Inv, AckedVersionsStand
      <4>. QED
        BY <4>1, <4>2, <1>1, <1>6
    <3>. QED
      BY <3>1, <3>2
  <2>7. ASSUME NEW f \in Envs, NEW i \in DOMAIN acked'[f], NEW j \in DOMAIN acked'[f],
               acked'[f][i].number = acked'[f][j].number
        PROVE  i = j
    <3>1. CASE f = e
      BY <3>1, <2>3, <2>4, <2>5, <2>7 DEF Inv, AckedVersionsStand
    <3>2. CASE f # e
      BY <3>2, <2>1, <2>7 DEF Inv, AckedVersionsStand
    <3>. QED
      BY <3>1, <3>2
  <2>. QED
    BY <2>6, <2>7 DEF AckedVersionsStand, Numbers
<1>10. ASSUME NEW q \in Publishers, (req[q] # Idle)'
       PROVE  /\ req'[q] = req[q] /\ req[q] # Idle
              /\ req[q].env \in Envs /\ req[q].next \in Nat
              /\ req[q].base \in Nat /\ req[q].attempt \in Nat
  <2>1. req'[q] = req[q]
    BY <1>10, <1>2, <1>7 DEF TypeOK
  <2>. QED
    BY <2>1, <1>10, <1>2, RequestShape DEF Attempts
<1>11. ASSUME NEW q \in Publishers, (req[q] # Idle)', NEW g, g = req[q].env
       PROVE  /\ req'[q].doc \in valid'
              /\ req'[q].pc = "insert" =>
                   /\ req'[q].next >= 1
                   /\ req'[q].next <= MaxNumber(g)' + 1
                   /\ req'[q].next > req'[q].base + req'[q].attempt - 1
              /\ MaxNumber(g)' >= req'[q].base + req'[q].attempt - 1
  <2>1. /\ req'[q] = req[q] /\ req[q] # Idle /\ g \in Envs /\ req[q].next \in Nat
        /\ req[q].base \in Nat /\ req[q].attempt \in Nat
    BY <1>10, <1>11
  <2>2. MaxNumber(g)' \in Nat /\ MaxNumber(g) \in Nat /\ MaxNumber(g)' >= MaxNumber(g)
    BY <2>1, <1>1, <1>4, <1>6
  <2>3. /\ req[q].doc \in valid
        /\ req[q].pc = "insert" =>
             /\ req[q].next >= 1
             /\ req[q].next <= MaxNumber(g) + 1
             /\ req[q].next > req[q].base + req[q].attempt - 1
        /\ MaxNumber(g) >= req[q].base + req[q].attempt - 1
    BY <2>1, <1>11 DEF Inv, RequestsSound, ConflictMeansProgress
  <2>. QED
    BY <2>1, <2>2, <2>3, <1>7
<1>12. RequestsSound' /\ ConflictMeansProgress'
  BY <1>10, <1>11 DEF RequestsSound, ConflictMeansProgress, Idle
<1>. QED
  BY <1>5, <1>8, <1>9, <1>12 DEF Inv

LEMMA RestartInv == ASSUME Inv, Restart PROVE Inv'
<1>1. /\ NumbersDense' /\ AckedVersionsStand'
      /\ \A e \in Envs : Numbers(e)' = Numbers(e)
  BY TablesUnchanged DEF Restart
<1>2. req' = [p \in Publishers |-> Idle] /\ valid' \in SUBSET Docs /\ UNCHANGED <<envs, draft, versions, acked>>
  BY DEF Restart
<1>3. TypeOK'
  BY <1>1, <1>2 DEF Inv, TypeOK, Requests
<1>4. RequestsSound' /\ ConflictMeansProgress'
  BY <1>2 DEF RequestsSound, ConflictMeansProgress
<1>. QED
  BY <1>1, <1>3, <1>4 DEF Inv

\* Every step preserves the invariant.
LEMMA NextInv == Inv /\ [Next]_vars => Inv'
<1> SUFFICES ASSUME Inv, [Next]_vars PROVE Inv'
  OBVIOUS
<1>0. TypeOK /\ envs \in SUBSET Envs /\ draft \in [Envs -> Docs] /\ req \in [Publishers -> Requests]
  BY DEF Inv, TypeOK
<1>1. ASSUME NEW e \in Envs, createEnvironment(e) PROVE Inv'
  BY <1>0, <1>1, RequestStep DEF createEnvironment
<1>2. ASSUME NEW e \in Envs, NEW d \in Docs, EditDraft(e, d) PROVE Inv'
  BY <1>0, <1>2, RequestStep DEF EditDraft
<1>3. ASSUME NEW e \in Envs, NEW f \in Envs, NEW n \in Numbers(f), promote(e, f, n) PROVE Inv'
  <2>1. versions[f][n] \in Docs
    BY <1>0 DEF TypeOK
  <2>. QED
    BY <1>0, <1>3, <2>1, RequestStep DEF promote
<1>4. ASSUME NEW p \in Publishers, NEW e \in Envs, publish(p, e) PROVE Inv'
  BY <1>0, <1>4, BeginGood, RequestStep DEF publish, validateArtifact
<1>5. ASSUME NEW p \in Publishers, NEW e \in Envs, NEW n \in Numbers(e), rollback(p, e, n) PROVE Inv'
  BY <1>0, <1>5, BeginGood, RequestStep DEF rollback, validateArtifact
<1>6. ASSUME NEW p \in Publishers, ReadNext(p) PROVE Inv'
  BY <1>6, ReadNextInv
<1>7. ASSUME NEW p \in Publishers, Insert(p) PROVE Inv'
  BY <1>7, InsertInv
<1>8. ASSUME NEW p \in Publishers, Conflict(p) PROVE Inv'
  BY <1>8, ConflictInv
<1>9. ASSUME NEW p \in Publishers, Refuse(p) \/ Abort(p) PROVE Inv'
  <2>1. Idle \in Requests /\ Good(Idle)
    BY DEF Requests, Good
  <2>. QED
    BY <1>0, <1>9, <2>1, RequestStep DEF Refuse, Abort
<1>10. CASE Restart
  BY <1>10, RestartInv
<1>11. CASE UNCHANGED vars
  BY <1>0, <1>11, RequestStep DEF vars
<1>. QED
  BY <1>1, <1>2, <1>3, <1>4, <1>5, <1>6, <1>7, <1>8, <1>9, <1>10, <1>11
  DEF Next, PublisherNext

LEMMA SpecInv == Spec => []Inv
BY InitInv, NextInv, PTL DEF Spec

\* Type correctness of the publishing tables and requests.
THEOREM VersionsTypeCorrect == Spec => []TypeOK
<1>1. Inv => TypeOK
  BY DEF Inv
<1>. QED
  BY <1>1, SpecInv, PTL

\* Version numbers of an environment have no gap, whatever the interleaving.
THEOREM VersionsNumbersDense == Spec => []NumbersDense
<1>1. Inv => NumbersDense
  BY DEF Inv
<1>. QED
  BY <1>1, SpecInv, PTL

\* No two publishers are told the same number, and what they published stays.
THEOREM VersionsAckedStand == Spec => []AckedVersionsStand
<1>1. Inv => AckedVersionsStand
  BY DEF Inv
<1>. QED
  BY <1>1, SpecInv, PTL

\* A request is refused only after others have published.
THEOREM VersionsConflictMeansProgress == Spec => []ConflictMeansProgress
<1>1. Inv => ConflictMeansProgress
  BY DEF Inv
<1>. QED
  BY <1>1, SpecInv, PTL

\* Only an insert touches the version table.
LEMMA OnlyInsertWrites ==
  ASSUME Inv, [Next]_vars
  PROVE  \/ \E p \in Publishers : Insert(p)
         \/ Restart
         \/ UNCHANGED <<versions, valid>>
BY DEF Next, PublisherNext, createEnvironment, EditDraft, promote, publish, rollback,
       ReadNext, Conflict, Refuse, Abort, vars

\* No step rewrites or removes a version, and a new one is the next number and
\* acceptable to the validator in force.
THEOREM VersionsHistoryAppendOnly == Spec => HistoryAppendOnly
<1> DEFINE A == \A e \in Envs :
                  /\ Numbers(e) \subseteq DOMAIN versions'[e]
                  /\ \A n \in Numbers(e) : versions'[e][n] = versions[e][n]
                  /\ \A n \in DOMAIN versions'[e] \ Numbers(e) :
                       n = MaxNumber(e) + 1 /\ versions'[e][n] \in valid
<1>1. Inv /\ [Next]_vars => [A]_versions
  <2> SUFFICES ASSUME Inv, [Next]_vars, versions' # versions PROVE A
    OBVIOUS
  <2>1. PICK p \in Publishers : Insert(p)
    BY OnlyInsertWrites DEF Restart
  <2>2. PICK e, n : e = req[p].env /\ n = req[p].next
    OBVIOUS
  <2>3. /\ e \in Envs
        /\ n = MaxNumber(e) + 1
        /\ MaxNumber(e) \in Nat
        /\ Numbers(e)' = 1..(MaxNumber(e) + 1)
        /\ \A f \in Envs \ {e} : Numbers(f)' = Numbers(f)
        /\ \A f \in Envs : \A m \in Numbers(f) : versions'[f][m] = versions[f][m]
        /\ versions'[e][n] = req[p].doc
    BY <2>1, <2>2, InsertExtends
  <2>4. Numbers(e) = 1..MaxNumber(e)
    BY <2>3 DEF Inv, NumbersDense
  <2>5. req[p].doc \in valid
    BY <2>1 DEF Insert, Idle, Inv, RequestsSound
  <2>6. \A f \in Envs : Numbers(f)' = DOMAIN versions'[f]
    BY DEF Numbers
  <2>7. ASSUME NEW f \in Envs
        PROVE  /\ Numbers(f) \subseteq DOMAIN versions'[f]
               /\ \A m \in DOMAIN versions'[f] \ Numbers(f) :
                    m = MaxNumber(f) + 1 /\ versions'[f][m] \in valid
    <3>1. CASE f = e
      BY <3>1, <2>3, <2>4, <2>5, <2>6
    <3>2. CASE f # e
      BY <3>2, <2>3, <2>6
    <3>. QED
      BY <3>1, <3>2
  <2>. QED
    BY <2>3, <2>7
<1>. QED
  BY <1>1, SpecInv, PTL DEF Spec, HistoryAppendOnly

LEMMA LogInitRefined == Init => Log!LogInit
<1> SUFFICES ASSUME Init PROVE Log!LogInit
  OBVIOUS
<1>1. \A e \in Envs : Numbers(e) = 1..0
  BY DEF Init, Numbers
<1>2. \A e \in Envs : MaxNumber(e) = 0
  BY <1>1, IntervalMax
<1>3. \A e \in Envs : [n \in 1..MaxNumber(e) |-> versions[e][n]] = <<>>
  BY <1>2
<1>4. PublishedLog = [e \in Envs |-> <<>>]
  BY <1>3 DEF PublishedLog
<1>. QED
  BY <1>4 DEF Init, Log!LogInit

LEMMA InsertRefined ==
  ASSUME Inv, NEW p \in Publishers, Insert(p)
  PROVE  \E e \in Envs, d \in Docs : Log!AppendVersion(e, d)
<1>1. PICK e, n : e = req[p].env /\ n = req[p].next
  OBVIOUS
<1>2. PICK d : d = req[p].doc
  OBVIOUS
<1>3. /\ e \in Envs
      /\ n = MaxNumber(e) + 1
      /\ MaxNumber(e) \in Nat
      /\ MaxNumber(e)' = MaxNumber(e) + 1
      /\ \A f \in Envs \ {e} : Numbers(f)' = Numbers(f) /\ MaxNumber(f)' = MaxNumber(f)
      /\ \A f \in Envs : \A m \in Numbers(f) : versions'[f][m] = versions[f][m]
      /\ versions'[e][n] = d
  BY <1>1, <1>2, InsertExtends
<1>4. d \in valid /\ d \in Docs /\ valid' = valid
  BY <1>2 DEF Insert, PutRow, Idle, Inv, RequestsSound, TypeOK
<1>5. \A f \in Envs : MaxNumber(f) \in Nat /\ Numbers(f) = 1..MaxNumber(f)
  BY DEF Inv, NumbersDense
<1> DEFINE L(f) == [m \in 1..MaxNumber(f) |-> versions[f][m]]
<1>6. L(e) \in Seq(Docs) /\ Len(L(e)) = MaxNumber(e)
  <2>1. \A m \in 1..MaxNumber(e) : versions[e][m] \in Docs
    BY <1>3, <1>5 DEF Inv, TypeOK
  <2>. QED
    BY <2>1, <1>3
<1>7. [m \in 1..MaxNumber(e)' |-> versions'[e][m]] = Append(L(e), d)
  <2>1. Append(L(e), d) = [m \in 1..(MaxNumber(e) + 1) |->
                              IF m = MaxNumber(e) + 1 THEN d ELSE L(e)[m]]
    BY <1>3, <1>4, <1>6
  <2>2. \A m \in 1..(MaxNumber(e) + 1) :
          versions'[e][m] = IF m = MaxNumber(e) + 1 THEN d ELSE L(e)[m]
    BY <1>3, <1>5
  <2>. QED
    BY <2>1, <2>2, <1>3
<1>8. \A f \in Envs \ {e} : [m \in 1..MaxNumber(f)' |-> versions'[f][m]] = L(f)
  BY <1>3, <1>5
<1>9. PublishedLog' = [f \in Envs |-> [m \in 1..MaxNumber(f)' |-> versions'[f][m]]]
  BY DEF PublishedLog
<1>10. PublishedLog = [f \in Envs |-> L(f)]
  BY DEF PublishedLog
<1> HIDE DEF L
<1>11. PublishedLog' = [PublishedLog EXCEPT ![e] = Append(@, d)]
  BY <1>3, <1>7, <1>8, <1>9, <1>10
<1>. QED
  BY <1>3, <1>4, <1>11 DEF Log!AppendVersion

LEMMA StepRefined == Inv /\ [Next]_vars => [Log!LogNext]_(Log!logVars)
<1> SUFFICES ASSUME Inv, [Next]_vars PROVE [Log!LogNext]_(Log!logVars)
  OBVIOUS
<1>1. CASE \E p \in Publishers : Insert(p)
  BY <1>1, InsertRefined DEF Log!LogNext
<1>2. ASSUME UNCHANGED versions PROVE PublishedLog' = PublishedLog
  <2>1. \A e \in Envs : MaxNumber(e)' = MaxNumber(e)
    BY <1>2 DEF Numbers, MaxNumber
  <2>. QED
    BY <1>2, <2>1 DEF PublishedLog
<1>3. CASE Restart
  BY <1>2, <1>3 DEF Restart, Log!LogNext, Log!ChangeValidator
<1>4. CASE UNCHANGED <<versions, valid>>
  BY <1>2, <1>4 DEF Log!logVars
<1>. QED
  BY <1>1, <1>3, <1>4, OnlyInsertWrites

\* Concurrent publishing implements the abstract append-only log.
THEOREM VersionsImplementLog == Spec => ImplementsLog
<1>1. Spec => Log!LogInit /\ [][Log!LogNext]_(Log!logVars)
  BY LogInitRefined, StepRefined, SpecInv, PTL DEF Spec
<1>. QED
  BY <1>1 DEF ImplementsLog, Log!LogSpec

-----------------------------------------------------------------------------
(* Drafts                                                                  *)

\* What one step may do to a row: leave it, remove it, create it with the number
\* of the write as its birth, or move it one revision on.
Moves(r, s) ==
  \/ s = r
  \/ s = NoRow
  \/ s = [rev |-> 1, body |-> writes + 1, born |-> writes + 1]
  \/ r # NoRow /\ s = [rev |-> r.rev + 1, body |-> writes + 1, born |-> r.born]

\* What one step may do to an editor: close it, keep its copy, or give it the
\* row as it is.
Keeps(t) ==
  \/ tab'[t] = Closed
  \/ tab[t] # Closed /\ tab'[t] # Closed /\ tab'[t].key = tab[t].key /\ tab'[t].copy = tab[t].copy
  \/ \E k \in Keys : tab'[t] = Tab(k, "open", row[k]) /\ row' = row

\* What one step may do to the transaction: end it, leave it, or begin it.
Transacts ==
  \/ import' = NoImport
  \/ import' = import
  \/ import'.at = writes /\ import'.snap = row /\ row' = row /\ writes' = writes

\* The effect of a step on the state the invariant speaks of.
Effect ==
  /\ DraftsTypeOK'
  /\ (row' = row /\ writes' = writes) \/ writes' = writes + 1
  /\ \A k \in Keys : Moves(row[k], row'[k])
  /\ \A t \in Tabs : Keeps(t)
  /\ Transacts

\* An editor that is not closed holds a copy of some resource.
LEMMA TabShape ==
  ASSUME DraftsTypeOK, NEW t \in Tabs, tab[t] # Closed
  PROVE  /\ tab[t] \in [pc : {"open", "saved", "error"}, key : Keys, copy : Rows]
         /\ tab[t].key \in Keys /\ tab[t].copy \in Rows
<1>1. tab[t] \in [pc : {"open", "saved", "error"}, key : Keys, copy : Rows]
  BY DEF DraftsTypeOK
<1>. QED
  BY <1>1

\* A request of an editor that keeps its copy is one of an editor that is open.
LEMMA TabKept ==
  ASSUME DraftsTypeOK, NEW t \in Tabs, NEW pc \in {"open", "saved", "error"},
         tab[t].pc # "closed", tab' = [tab EXCEPT ![t].pc = pc]
  PROVE  /\ tab' \in [Tabs -> {Closed} \cup
               [pc : {"open", "saved", "error"}, key : Keys, copy : Rows]]
         /\ \A u \in Tabs : Keeps(u)
<1>1. tab[t] # Closed
  BY DEF Closed
<1>2. tab[t] \in [pc : {"open", "saved", "error"}, key : Keys, copy : Rows]
  BY <1>1, TabShape
<1>3. /\ tab'[t] \in [pc : {"open", "saved", "error"}, key : Keys, copy : Rows]
      /\ tab'[t].key = tab[t].key /\ tab'[t].copy = tab[t].copy /\ tab'[t].pc = pc
  BY <1>2 DEF DraftsTypeOK
<1>4. tab'[t] # Closed
  BY <1>3 DEF Closed
<1>5. \A u \in Tabs \ {t} : tab'[u] = tab[u]
  BY DEF DraftsTypeOK
<1>6. tab' \in [Tabs -> {Closed} \cup
               [pc : {"open", "saved", "error"}, key : Keys, copy : Rows]]
  BY <1>3, <1>5 DEF DraftsTypeOK
<1>7. ASSUME NEW u \in Tabs PROVE Keeps(u)
  BY <1>1, <1>3, <1>4, <1>5 DEF Keeps
<1>. QED
  BY <1>6, <1>7

\* An editor that shows a row it has just read.
LEMMA TabShown ==
  ASSUME DraftsTypeOK, NEW t \in Tabs, NEW k \in Keys, row' = row,
         tab' = [tab EXCEPT ![t] = Tab(k, "open", row[k])]
  PROVE  /\ tab' \in [Tabs -> {Closed} \cup
               [pc : {"open", "saved", "error"}, key : Keys, copy : Rows]]
         /\ \A u \in Tabs : Keeps(u)
<1>1. Tab(k, "open", row[k]) \in [pc : {"open", "saved", "error"}, key : Keys, copy : Rows]
  BY DEF DraftsTypeOK, Tab
<1>2. tab'[t] = Tab(k, "open", row[k]) /\ \A u \in Tabs \ {t} : tab'[u] = tab[u]
  BY DEF DraftsTypeOK
<1>3. tab' \in [Tabs -> {Closed} \cup
               [pc : {"open", "saved", "error"}, key : Keys, copy : Rows]]
  BY <1>1, <1>2 DEF DraftsTypeOK
<1>4. ASSUME NEW u \in Tabs PROVE Keeps(u)
  <2>1. CASE u = t
    BY <2>1, <1>2 DEF Keeps
  <2>2. CASE u # t
    BY <2>2, <1>2, Zenon DEF Keeps
  <2>. QED
    BY <2>1, <2>2
<1>. QED
  BY <1>3, <1>4

\* A new or newer row is a row.
LEMMA MovesType ==
  ASSUME NEW r \in Rows, writes \in Nat, NEW s, Moves(r, s)
  PROVE  s \in Rows
BY DEF Moves, Rows, NoRow

\* A save stores one row and leaves the others.
LEMMA StoreEffect ==
  ASSUME DraftsTypeOK, NEW t \in Tabs, tab[t].pc # "closed", NEW k \in Keys, NEW r,
         Moves(row[k], r), Store(t, k, r, "saved")
  PROVE  Effect
<1>1. r \in Rows
  BY MovesType DEF DraftsTypeOK
<1>2. row'[k] = r /\ \A j \in Keys \ {k} : row'[j] = row[j]
  BY DEF Store, DraftsTypeOK
<1>3. row' \in [Keys -> Rows]
  BY <1>1 DEF Store, DraftsTypeOK
<1>4. \A j \in Keys : Moves(row[j], row'[j])
  BY <1>2 DEF Moves
<1>5. /\ tab' \in [Tabs -> {Closed} \cup
               [pc : {"open", "saved", "error"}, key : Keys, copy : Rows]]
      /\ \A u \in Tabs : Keeps(u)
  BY TabKept DEF Store
<1>6. writes' = writes + 1 /\ writes' \in Nat /\ import' = import
  BY DEF Store, DraftsTypeOK
<1>7. import' \in {NoImport} \cup
               [pc : {"read"}, set : SUBSET Keys, snap : [Keys -> Rows], at : Nat]
  BY <1>6 DEF DraftsTypeOK
<1>8. DraftsTypeOK'
  BY <1>3, <1>5, <1>6, <1>7 DEF DraftsTypeOK
<1>. QED
  BY <1>4, <1>5, <1>6, <1>8 DEF Effect, Transacts

\* A step that changes an editor only.
LEMMA TabEffect ==
  ASSUME DraftsTypeOK, UNCHANGED <<row, import, writes>>,
         tab' \in [Tabs -> {Closed} \cup
               [pc : {"open", "saved", "error"}, key : Keys, copy : Rows]],
         \A u \in Tabs : Keeps(u)
  PROVE  Effect
<1>1. DraftsTypeOK'
  BY DEF DraftsTypeOK
<1>2. \A k \in Keys : Moves(row[k], row'[k])
  BY DEF Moves
<1>. QED
  BY <1>1, <1>2 DEF Effect, Transacts

\* Every step of every actor has such an effect.  The transaction of replaceDraft
\* needs the database: what it has read is what it writes over.
LEMMA StepEffect ==
  ASSUME Dialect = "sqlite", DraftsInv, DraftsNext
  PROVE  Effect
<1>0. DraftsTypeOK
  BY DEF DraftsInv
<1>1. ASSUME NEW t \in Tabs, NEW k \in Keys, Load(t, k) PROVE Effect
  BY <1>0, <1>1, TabShown, TabEffect DEF Load
<1>2. ASSUME NEW t \in Tabs, SaveCreate(t) PROVE Effect
  <2>1. tab[t].pc # "closed" /\ tab[t] # Closed
    BY <1>2 DEF SaveCreate, CanSubmit, Closed
  <2>2. tab[t].key \in Keys
    BY <1>0, <2>1, TabShape
  <2> DEFINE r == [rev |-> 1, body |-> writes + 1, born |-> writes + 1]
  <2>3. Store(t, tab[t].key, r, "saved") /\ Moves(row[tab[t].key], r)
    BY <1>2 DEF SaveCreate, Moves
  <2>. QED
    BY <1>0, <2>1, <2>2, <2>3, StoreEffect
<1>3. ASSUME NEW t \in Tabs, SaveUpdate(t) PROVE Effect
  <2>1. tab[t].pc # "closed" /\ tab[t] # Closed
    BY <1>3 DEF SaveUpdate, CanSubmit, Closed
  <2>2. tab[t].key \in Keys
    BY <1>0, <2>1, TabShape
  <2> DEFINE q == row[tab[t].key]
             r == [rev |-> q.rev + 1, body |-> writes + 1, born |-> q.born]
  <2>3. Store(t, tab[t].key, r, "saved") /\ Moves(q, r)
    BY <1>3 DEF SaveUpdate, Exists, Moves
  <2>. QED
    BY <1>0, <2>1, <2>2, <2>3, StoreEffect
<1>4. ASSUME NEW t \in Tabs, RefuseSave(t) PROVE Effect
  <2>1. tab[t].pc # "closed" /\ tab' = [tab EXCEPT ![t].pc = "error"]
    BY <1>4 DEF RefuseSave
  <2>. QED
    BY <1>0, <1>4, <2>1, TabKept, TabEffect DEF RefuseSave
<1>5. ASSUME NEW t \in Tabs, SaveReply(t) PROVE Effect
  <2>1. tab[t] # Closed
    BY <1>5 DEF SaveReply, Closed
  <2>2. tab[t].key \in Keys
    BY <1>0, <2>1, TabShape
  <2>. QED
    BY <1>0, <1>5, <2>2, TabShown, TabEffect DEF SaveReply
<1>6. ASSUME NEW t \in Tabs, SaveReplyLost(t) PROVE Effect
  <2>1. tab[t].pc # "closed" /\ tab' = [tab EXCEPT ![t].pc = "error"]
    BY <1>6 DEF SaveReplyLost
  <2>. QED
    BY <1>0, <1>6, <2>1, TabKept, TabEffect DEF SaveReplyLost
<1>7. ASSUME NEW t \in Tabs, Delete(t) PROVE Effect
  <2>1. tab[t].key \in Keys
    BY <1>0, <1>7, TabShape DEF Delete, CanSubmit, Closed
  <2>2. row' \in [Keys -> Rows] /\ \A k \in Keys : Moves(row[k], row'[k])
    BY <1>0, <1>7, <2>1 DEF Delete, DraftsTypeOK, Moves, Rows, NoRow
  <2>3. tab'[t] = Closed /\ \A u \in Tabs \ {t} : tab'[u] = tab[u]
    BY <1>0, <1>7 DEF Delete, DraftsTypeOK
  <2>4. tab' \in [Tabs -> {Closed} \cup
               [pc : {"open", "saved", "error"}, key : Keys, copy : Rows]]
    BY <1>0, <1>7 DEF Delete, DraftsTypeOK
  <2>5. ASSUME NEW u \in Tabs PROVE Keeps(u)
    BY <2>3, Zenon DEF Keeps
  <2>6. writes' = writes + 1 /\ writes' \in Nat /\ import' = import
    BY <1>0, <1>7 DEF Delete, DraftsTypeOK
  <2>7. DraftsTypeOK'
    BY <1>0, <2>2, <2>4, <2>6 DEF DraftsTypeOK
  <2>. QED
    BY <2>2, <2>5, <2>6, <2>7 DEF Effect, Transacts
<1>8. ASSUME NEW set \in SUBSET Keys, ImportRead(set) PROVE Effect
  <2>1. import' = [pc |-> "read", set |-> set, snap |-> row, at |-> writes]
        /\ UNCHANGED <<row, tab, writes>>
    BY <1>8 DEF ImportRead
  <2>2. DraftsTypeOK'
    BY <1>0, <2>1 DEF DraftsTypeOK
  <2>3. \A k \in Keys : Moves(row[k], row'[k])
    BY <2>1 DEF Moves
  <2>4. ASSUME NEW u \in Tabs PROVE Keeps(u)
    BY <2>1, Zenon DEF Keeps
  <2>5. Transacts
    BY <2>1 DEF Transacts
  <2>. QED
    BY <2>1, <2>2, <2>3, <2>4, <2>5 DEF Effect
<1>9. CASE ImportCommit
  <2>1. import.snap = row
    BY <1>9 DEF DraftsInv, ImportCommit, WriteAllowed
  <2>2. \A k \in Keys : Moves(row[k], row'[k])
    BY <1>9, <2>1 DEF ImportCommit, Imported, Moves
  <2>3. row' \in [Keys -> Rows]
    <3>1. \A k \in Keys : row[k] \in Rows /\ writes \in Nat
      BY <1>0 DEF DraftsTypeOK
    <3>2. \A k \in Keys : row'[k] \in Rows
      BY <2>2, <3>1, MovesType
    <3>. QED
      BY <1>9, <3>2 DEF ImportCommit
  <2>4. writes' = writes + 1 /\ writes' \in Nat /\ import' = NoImport /\ tab' = tab
    BY <1>0, <1>9 DEF ImportCommit, DraftsTypeOK
  <2>5. DraftsTypeOK'
    BY <1>0, <2>3, <2>4 DEF DraftsTypeOK
  <2>6. ASSUME NEW u \in Tabs PROVE Keeps(u)
    BY <2>4, Zenon DEF Keeps
  <2>. QED
    BY <2>2, <2>4, <2>5, <2>6 DEF Effect, Transacts
<1>10. CASE ImportFail
  <2>1. import' = NoImport /\ UNCHANGED <<row, tab, writes>>
    BY <1>10 DEF ImportFail
  <2>2. DraftsTypeOK'
    BY <1>0, <2>1 DEF DraftsTypeOK
  <2>3. ASSUME NEW u \in Tabs PROVE Keeps(u)
    BY <2>1, Zenon DEF Keeps
  <2>. QED
    BY <2>1, <2>2, <2>3 DEF Effect, Transacts, Moves
<1>. QED
  BY <1>1, <1>2, <1>3, <1>4, <1>5, <1>6, <1>7, <1>8, <1>9, <1>10 DEF DraftsNext, TabNext

\* A copy stays sound under everything the n-th write may do to its row.
LEMMA CopyMoves ==
  ASSUME NEW n \in Nat, NEW m \in Nat, NEW c \in Rows, NEW r \in Rows, NEW s,
         Stored(c, n), Stored(r, n), CopyOf(c, r),
         (s = r /\ m = n) \/ m = n + 1,
         \/ s = r
         \/ s = NoRow
         \/ s = [rev |-> 1, body |-> n + 1, born |-> n + 1]
         \/ r # NoRow /\ s = [rev |-> r.rev + 1, body |-> n + 1, born |-> r.born]
  PROVE  Stored(c, m) /\ Stored(s, m) /\ CopyOf(c, s)
BY DEF Stored, CopyOf, Rows, NoRow

LEMMA InitDraftsInv == DraftsInit => DraftsInv
<1> SUFFICES ASSUME DraftsInit PROVE DraftsInv
  OBVIOUS
<1>1. DraftsTypeOK
  BY DEF DraftsInit, DraftsTypeOK, Rows, NoRow
<1>2. \A k \in Keys : Stored(row[k], writes)
  BY DEF DraftsInit, Stored, NoRow
<1>3. \A t \in Tabs : tab[t] = Closed
  BY DEF DraftsInit
<1>4. import = NoImport
  BY DEF DraftsInit
<1>. QED
  BY <1>1, <1>2, <1>3, <1>4 DEF DraftsInv

\* The invariant is inductive on SQLite.
LEMMA StepDraftsInv ==
  ASSUME Dialect = "sqlite", DraftsInv, [DraftsNext]_draftsVars
  PROVE  DraftsInv'
<1>1. CASE UNCHANGED draftsVars
  BY <1>1 DEF DraftsInv, DraftsTypeOK, Stored, draftsVars
<1>2. CASE DraftsNext
  <2>0. Effect
    BY <1>2, StepEffect
  <2>1. DraftsTypeOK /\ DraftsTypeOK' /\ writes \in Nat /\ writes' \in Nat
    BY <2>0 DEF DraftsInv, DraftsTypeOK, Effect
  <2>2. \A k \in Keys : /\ row[k] \in Rows
                        /\ row'[k] \in Rows
                        /\ Stored(row[k], writes)
                        /\ (row'[k] = row[k] /\ writes' = writes) \/ writes' = writes + 1
    BY <2>0, <2>1 DEF Effect, DraftsTypeOK, DraftsInv
  <2>3. ASSUME NEW k \in Keys, NEW c \in Rows, Stored(c, writes), CopyOf(c, row[k])
        PROVE  Stored(c, writes') /\ Stored(row'[k], writes') /\ CopyOf(c, row'[k])
    <3>1. Moves(row[k], row'[k])
      BY <2>0 DEF Effect
    <3>. QED
      BY <2>1, <2>2, <2>3, <3>1, CopyMoves DEF Moves
  <2>4. ASSUME NEW k \in Keys PROVE Stored(row'[k], writes') /\ CopyOf(row'[k], row'[k])
    <3>1. CopyOf(row[k], row[k]) /\ CopyOf(row'[k], row'[k])
      BY <2>2 DEF CopyOf, Rows
    <3>. QED
      BY <2>2, <2>3, <3>1
  <2>5. ASSUME NEW t \in Tabs, tab'[t] # Closed
        PROVE  Stored(tab'[t].copy, writes') /\ CopyOf(tab'[t].copy, row'[tab'[t].key])
    <3>1. CASE /\ tab[t] # Closed
               /\ tab'[t].key = tab[t].key
               /\ tab'[t].copy = tab[t].copy
      <4>1. tab[t].key \in Keys /\ tab[t].copy \in Rows
        BY <2>1, <3>1, TabShape
      <4>2. Stored(tab[t].copy, writes) /\ CopyOf(tab[t].copy, row[tab[t].key])
        BY <3>1 DEF DraftsInv
      <4>3. Stored(tab[t].copy, writes') /\ CopyOf(tab[t].copy, row'[tab[t].key])
        BY <2>3, <4>1, <4>2
      <4>. QED
        BY <3>1, <4>3, Zenon
    <3>2. CASE \E k \in Keys : tab'[t] = Tab(k, "open", row[k]) /\ row' = row
      <4>1. PICK k \in Keys : tab'[t] = Tab(k, "open", row[k]) /\ row' = row
        BY <3>2
      <4>2. tab'[t].copy = row'[k] /\ tab'[t].key = k
        BY <4>1 DEF Tab
      <4>. QED
        BY <2>4, <4>2, Zenon
    <3>. QED
      BY <2>0, <2>5, <3>1, <3>2 DEF Effect, Keeps
  <2>6. import' # NoImport => import'.at <= writes' /\ (import'.at = writes' => import'.snap = row')
    <3>1. CASE import' = NoImport
      BY <3>1
    <3>2. CASE import' = import /\ import # NoImport
      <4>1. import.at <= writes /\ (import.at = writes => import.snap = row)
        BY <3>2 DEF DraftsInv
      <4>2. import.at \in Nat
        BY <2>1, <3>2 DEF DraftsTypeOK
      <4>. QED
        BY <2>0, <2>1, <3>2, <4>1, <4>2 DEF Effect
    <3>3. CASE import'.at = writes /\ import'.snap = row /\ row' = row /\ writes' = writes
      BY <2>1, <3>3
    <3>. QED
      BY <2>0, <3>1, <3>2, <3>3 DEF Effect, Transacts
  <2>. QED
    BY <2>1, <2>4, <2>5, <2>6 DEF DraftsInv
<1>. QED
  BY <1>1, <1>2

\* On SQLite the invariant holds throughout.
LEMMA DraftsInvariant == ASSUME Dialect = "sqlite" PROVE DraftsSpec => []DraftsInv
<1>1. DraftsInit => DraftsInv
  BY InitDraftsInv
<1>2. DraftsInv /\ [DraftsNext]_draftsVars => DraftsInv'
  BY StepDraftsInv
<1>. QED
  BY <1>1, <1>2, PTL DEF DraftsSpec

\* saveResource, deleteResource and replaceDraft keep the types of the tables
\* and of the editors' copies.
THEOREM DraftsTypeCorrect == ASSUME Dialect = "sqlite" PROVE DraftsSpec => []DraftsTypeOK
<1>1. DraftsInv => DraftsTypeOK
  BY DEF DraftsInv
<1>. QED
  BY <1>1, DraftsInvariant, PTL

\* An editor whose save or delete would be accepted has seen the content it
\* replaces, whatever saves, lost replies and imports came before, as long as
\* the row was not created anew.
THEOREM DraftsNoLostUpdate == ASSUME Dialect = "sqlite" PROVE DraftsSpec => []NoLostUpdate
<1>1. DraftsInv => NoLostUpdate
  <2> SUFFICES ASSUME DraftsInv, NEW t \in Tabs, Accepted(t),
                      tab[t].copy.born = row[tab[t].key].born
               PROVE  tab[t].copy.body = row[tab[t].key].body
    BY DEF NoLostUpdate
  <2>1. tab[t] # Closed /\ tab[t].copy.rev # 0 /\ tab[t].copy.rev = row[tab[t].key].rev
    BY DEF Accepted
  <2>2. tab[t].copy # NoRow /\ row[tab[t].key] # NoRow
    BY <2>1 DEF NoRow
  <2>. QED
    BY <2>1, <2>2 DEF DraftsInv, CopyOf
<1>. QED
  BY <1>1, DraftsInvariant, PTL

\* While a row lives every change of it, an import's included, raises its revision.
THEOREM DraftsRevisionsCountUp == ASSUME Dialect = "sqlite" PROVE DraftsSpec => RevisionsCountUp
<1>1. DraftsInv /\ [DraftsNext]_draftsVars =>
        [\A k \in Keys :
           row'[k] # row[k] /\ row[k] # NoRow /\ row'[k] # NoRow /\ row'[k].born = row[k].born =>
             row'[k].rev > row[k].rev]_draftsVars
  <2> SUFFICES ASSUME DraftsInv, DraftsNext, NEW k \in Keys, row'[k] # row[k], row[k] # NoRow,
                      row'[k] # NoRow, row'[k].born = row[k].born
               PROVE  row'[k].rev > row[k].rev
    BY DEF draftsVars
  <2>1. Moves(row[k], row'[k])
    BY StepEffect DEF Effect
  <2>2. row[k] \in Rows /\ writes \in Nat /\ row[k].born <= writes
    BY DEF DraftsInv, DraftsTypeOK, Stored
  <2>3. row[k].rev \in Nat /\ row[k].born \in Nat
    BY <2>2 DEF Rows
  <2>. QED
    BY <2>1, <2>2, <2>3 DEF Moves
<1>. QED
  BY <1>1, DraftsInvariant, PTL DEF DraftsSpec, RevisionsCountUp

=============================================================================
