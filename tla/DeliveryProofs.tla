--------------------------- MODULE DeliveryProofs ---------------------------
(***************************************************************************)
(* Proofs about Delivery, for any number of gateways, environments,        *)
(* versions and restarts.                                                  *)
(*                                                                         *)
(* A pull, its reload and the record of it are separate steps, between     *)
(* which versions are published and heartbeats leave.  The invariant       *)
(* follows an answer through them: it is a version of the gateway's        *)
(* environment that is not older than the one served, and once swapped in  *)
(* it is the one served.  Nothing of this is lost when the log grows,      *)
(* because VersionLog only appends.                                        *)
(***************************************************************************)
EXTENDS Delivery, TLAPS

\* What process k serves is a version of the log l, and what it reports and has
\* sent is no newer.
Serves(k, l) ==
  /\ k.serving <= Len(l)
  /\ k.serving = 0 => k.pipeline = NoDoc
  /\ k.serving # 0 => k.pipeline = l[k.serving]
  /\ k.configured => k.serving # 0
  /\ k.status.version <= k.serving
  /\ k.beat.version <= k.status.version

\* An artifact k has pulled is a version of l, at least the one k serves.
Pulled(k, l) ==
  k.pc = "reply" /\ k.reply.kind = "ok" =>
    /\ k.reply.version \in 1..Len(l)
    /\ k.reply.doc = l[k.reply.version]
    /\ k.serving <= k.reply.version

\* After the swap k serves the version it has pulled.
Swapped(k) ==
  k.pc \in {"swapped", "record"} => k.serving # 0 /\ k.serving = k.reply.version

\* Between pulls, and until the reload of the next one, k is ready if it serves a
\* version, and asks with that version's tag.
Settled(k) ==
  /\ k.pc # "swapped" => (k.serving # 0 => k.configured)
  /\ k.pc \notin {"swapped", "record"} => k.etag = k.serving

Good(k, l) == Serves(k, l) /\ Pulled(k, l) /\ Swapped(k) /\ Settled(k)

\* Process k goes on from process j.
Onward(j, k) == k.serving >= j.serving /\ (j.configured => k.configured)

DeliveryInv ==
  /\ TypeOK
  /\ \A g \in Gateways : Good(gw[g], log[EnvOf[g]])
  /\ \A g \in Gateways : shown[g].version <= gw[g].status.version

-----------------------------------------------------------------------------
(* A process that starts, and one whose log grows                          *)

LEMMA StartedGood ==
  ASSUME NEW acc \in SUBSET Docs, NEW l \in Seq(Docs)
  PROVE  /\ Started(acc) \in Process
         /\ Good(Started(acc), l)
         /\ Started(acc).status.version = 0
<1>1. Started(acc) \in Process
  BY DEF Started, Process, Replies, NoReply, Reports, NoReport, Unsent
<1>2. Started(acc).status.version = 0
  BY DEF Started, NoReport
<1>3. Good(Started(acc), l)
  BY DEF Started, Good, Serves, Pulled, Swapped, Settled, NoReport, Unsent
<1> QED BY <1>1, <1>2, <1>3

LEMMA DeliveryInit == Init => DeliveryInv
<1> SUFFICES ASSUME Init PROVE DeliveryInv
  OBVIOUS
<1>1. LogTypeOK /\ \A g \in Gateways : log[EnvOf[g]] \in Seq(Docs)
  BY DeliveryAssumption DEF Init, LogInit, LogTypeOK
<1>2. PICK acc \in [Gateways -> SUBSET Docs] : gw = [g \in Gateways |-> Started(acc[g])]
  BY DEF Init
<1>3. \A g \in Gateways : /\ gw[g] \in Process
                          /\ Good(gw[g], log[EnvOf[g]])
                          /\ gw[g].status.version = 0
  BY <1>1, <1>2, StartedGood
<1>4. gw \in [Gateways -> Process]
  BY <1>2, <1>3
<1>5. \A g \in Gateways : shown[g] = Unsent
  BY DEF Init
<1>6. TypeOK
  BY <1>1, <1>4 DEF Init, TypeOK
<1>7. \A g \in Gateways : shown[g].version <= gw[g].status.version
  BY <1>3, <1>5 DEF Unsent
<1> QED BY <1>3, <1>6, <1>7 DEF DeliveryInv

\* A longer log does not disturb a process.
LEMMA GrowthKeepsGood ==
  ASSUME NEW k \in Process, NEW l \in Seq(Docs), NEW d \in Docs, Good(k, l)
  PROVE  Good(k, Append(l, d))
<1> DEFINE m == Append(l, d)
<1>1. Len(m) = Len(l) + 1 /\ \A n \in 1..Len(l) : m[n] = l[n]
  OBVIOUS
<1>2. k.serving \in Nat /\ Len(l) \in Nat
  BY DEF Process
<1> HIDE DEF m
<1>3. Serves(k, m)
  BY <1>1, <1>2 DEF Good, Serves
<1>4. Pulled(k, m)
  BY <1>1, <1>2 DEF Good, Pulled
<1> QED BY <1>3, <1>4 DEF Good, m

\* Publishing and releases of Studio leave every gateway as it is.
LEMMA PublishKeeps ==
  ASSUME DeliveryInv, Publish
  PROVE  DeliveryInv'
<1> USE DEF DeliveryInv
<1>1. UNCHANGED <<live, gw, shown, restarts>>
  BY DEF Publish
<1>2. CASE ChangeValidator
  BY <1>1, <1>2 DEF ChangeValidator, TypeOK, LogTypeOK
<1>3. ASSUME NEW e \in Envs, NEW d \in Docs, AppendVersion(e, d)
      PROVE  DeliveryInv'
  <2>1. log \in [Envs -> Seq(Docs)] /\ log' = [log EXCEPT ![e] = Append(log[e], d)]
    BY <1>3 DEF TypeOK, LogTypeOK, AppendVersion
  <2>2. \A f \in Envs : log[f] \in Seq(Docs) /\ log'[f] = IF f = e THEN Append(log[f], d) ELSE log[f]
    BY <2>1
  <2>3. LogTypeOK'
    BY <1>3, <2>1 DEF TypeOK, LogTypeOK, AppendVersion
  <2>4. \A g \in Gateways : EnvOf[g] \in Envs /\ gw[g] \in Process
    BY DeliveryAssumption DEF TypeOK
  <2>5. \A g \in Gateways : Good(gw[g], log'[EnvOf[g]])
    BY <2>2, <2>4, GrowthKeepsGood
  <2> QED BY <1>1, <2>3, <2>5 DEF TypeOK
<1> QED BY <1>2, <1>3 DEF Publish, LogNext

-----------------------------------------------------------------------------
(* Steps of one gateway, by what they do to its process                    *)

\* A step that takes gateway g's process to k.
Becomes(g, k) ==
  /\ gw' = [gw EXCEPT ![g] = k]
  /\ UNCHANGED <<log, valid, live>>
  /\ restarts' \in Nat
  /\ shown' \in [Gateways -> Reports \cup {Unsent}]
  /\ shown'[g].version <= k.status.version
  /\ \A h \in Gateways \ {g} : shown'[h] = shown[h]

LEMMA ProcessKeeps ==
  ASSUME DeliveryInv, NEW g \in Gateways, NEW k \in Process, Becomes(g, k),
         Good(k, log[EnvOf[g]])
  PROVE  DeliveryInv'
<1> USE DEF DeliveryInv
<1>1. /\ gw \in [Gateways -> Process] /\ gw' \in [Gateways -> Process]
      /\ gw'[g] = k /\ \A h \in Gateways \ {g} : gw'[h] = gw[h]
  BY DEF TypeOK, Becomes
<1>2. TypeOK'
  BY <1>1 DEF TypeOK, LogTypeOK, Becomes
<1>3. \A h \in Gateways : Good(gw'[h], log'[EnvOf[h]])
  BY <1>1 DEF Becomes
<1>4. \A h \in Gateways : shown'[h].version <= gw'[h].status.version
  BY <1>1 DEF Becomes
<1> QED BY <1>2, <1>3, <1>4

\* What the invariant says of one gateway.
LEMMA ProcessFacts ==
  ASSUME DeliveryInv, NEW g \in Gateways
  PROVE  /\ gw[g] \in Process /\ gw \in [Gateways -> Process]
         /\ EnvOf[g] \in Envs /\ log[EnvOf[g]] \in Seq(Docs)
         /\ Good(gw[g], log[EnvOf[g]])
         /\ shown[g].version <= gw[g].status.version
         /\ shown \in [Gateways -> Reports \cup {Unsent}] /\ restarts \in Nat
  BY DeliveryAssumption DEF DeliveryInv, TypeOK, LogTypeOK

\* A gateway's own step: the process it leads to is again a good one, and has
\* neither gone back nor stopped serving.
Steps(g) ==
  \E k \in Process : /\ Becomes(g, k)
                     /\ Good(k, log[EnvOf[g]])
                     /\ Onward(gw[g], k)

LEMMA PullSteps ==
  ASSUME DeliveryInv, NEW g \in Gateways, Pull(g)
  PROVE  Steps(g)
<1> DEFINE j == gw[g]
           l == log[EnvOf[g]]
           r == serveArtifact(g)
           k == [j EXCEPT !.pc = "reply", !.reply = r]
<1>1. j \in Process /\ l \in Seq(Docs) /\ Good(j, l)
  BY ProcessFacts
<1>2. r \in Replies /\ (r.kind = "ok" => /\ r.version = Len(l) /\ Len(l) # 0 /\ r.doc = l[Len(l)])
  BY <1>1 DEF serveArtifact, Latest, Replies, NoReply
<1> HIDE DEF r
<1>3. k \in Process
  BY <1>1, <1>2 DEF Process
<1>4. Good(k, l) /\ Onward(j, k)
  BY <1>1, <1>2 DEF Pull, Good, Serves, Pulled, Swapped, Settled, Onward, Process
<1>5. k.status = j.status /\ gw' = [gw EXCEPT ![g] = k] /\ UNCHANGED <<Studio, restarts>>
  BY <1>1 DEF Pull, Process, r
<1> HIDE DEF k
<1>6. Becomes(g, k)
  BY <1>5, ProcessFacts DEF Becomes, Studio
<1> QED BY <1>3, <1>4, <1>6 DEF Steps

\* A step that ends a pull without a new version.
LEMMA EndsPull ==
  ASSUME DeliveryInv, NEW g \in Gateways, gw[g].pc \in {"fetch", "reply"},
         NEW e \in {"none", "fetch", "no_version", "token", "reload"},
         gw' = [gw EXCEPT ![g].pc = "sleep", ![g].reply = NoReply, ![g].status.error = e],
         UNCHANGED <<Studio, restarts>>
  PROVE  Steps(g)
<1> DEFINE j == gw[g]
           l == log[EnvOf[g]]
           k == [j EXCEPT !.pc = "sleep", !.reply = NoReply, !.status.error = e]
<1>1. j \in Process /\ l \in Seq(Docs) /\ Good(j, l)
  BY ProcessFacts
<1>2. k \in Process
  BY <1>1 DEF Process, Replies, NoReply, Reports
<1>3. k.status.version = j.status.version
  BY <1>1 DEF Process, Reports
<1>4. Good(k, l) /\ Onward(j, k)
  BY <1>1, <1>3 DEF Good, Serves, Pulled, Swapped, Settled, Onward, Process
<1>5. Becomes(g, k)
  BY <1>3, ProcessFacts DEF Becomes, Studio
<1> QED BY <1>2, <1>4, <1>5 DEF Steps

LEMMA ReloadSteps ==
  ASSUME DeliveryInv, NEW g \in Gateways, Reload(g)
  PROVE  Steps(g)
<1> DEFINE j == gw[g]
           l == log[EnvOf[g]]
           k == [j EXCEPT !.pc = "swapped", !.pipeline = j.reply.doc, !.serving = j.reply.version]
<1>1. j \in Process /\ l \in Seq(Docs) /\ Good(j, l)
  BY ProcessFacts
<1>2. /\ j.reply.version \in 1..Len(l) /\ j.reply.doc = l[j.reply.version]
      /\ j.serving <= j.reply.version
  BY <1>1 DEF Reload, Good, Pulled
<1>3. k \in Process
  BY <1>1 DEF Process, Replies
<1>4. j.serving \in Nat /\ j.status.version \in Nat /\ j.reply.version \in Nat /\ Len(l) \in Nat
  BY <1>1 DEF Process, Reports, Replies
<1>5. /\ k.pc = "swapped" /\ k.reply = j.reply /\ k.serving = j.reply.version /\ k.pipeline = j.reply.doc
      /\ k.status = j.status /\ k.beat = j.beat /\ k.configured = j.configured
  BY <1>1 DEF Process
<1>6. Becomes(g, k)
  BY ProcessFacts, <1>5 DEF Reload, Becomes, Studio
<1> HIDE DEF k
<1>7. Serves(k, l)
  BY <1>1, <1>2, <1>4, <1>5 DEF Good, Serves
<1>8. Pulled(k, l) /\ Swapped(k) /\ Settled(k) /\ Onward(j, k)
  BY <1>2, <1>4, <1>5 DEF Pulled, Swapped, Settled, Onward
<1> QED BY <1>3, <1>6, <1>7, <1>8 DEF Steps, Good

LEMMA OnAppliedSteps ==
  ASSUME DeliveryInv, NEW g \in Gateways, OnApplied(g)
  PROVE  Steps(g)
<1> DEFINE j == gw[g]
           l == log[EnvOf[g]]
           k == [j EXCEPT !.pc = "record", !.configured = TRUE, !.applied = TRUE]
<1>1. j \in Process /\ l \in Seq(Docs) /\ Good(j, l)
  BY ProcessFacts
<1>2. k \in Process
  BY <1>1 DEF Process
<1>3. Good(k, l) /\ Onward(j, k)
  BY <1>1 DEF OnApplied, Good, Serves, Pulled, Swapped, Settled, Onward, Process
<1>4. Becomes(g, k)
  BY ProcessFacts DEF OnApplied, Becomes, Studio, Process
<1> QED BY <1>2, <1>3, <1>4 DEF Steps

LEMMA RecordVersionSteps ==
  ASSUME DeliveryInv, NEW g \in Gateways, RecordVersion(g)
  PROVE  Steps(g)
<1> DEFINE j == gw[g]
           l == log[EnvOf[g]]
           v == j.reply.version
           k == [j EXCEPT !.pc = "sleep", !.reply = NoReply, !.etag = v,
                          !.status = [version |-> v, error |-> "none"]]
<1>1. j \in Process /\ l \in Seq(Docs) /\ Good(j, l) /\ shown[g].version <= j.status.version
  BY ProcessFacts
<1>2. v \in Nat /\ j.serving = v
  BY <1>1 DEF RecordVersion, Good, Swapped, Process, Replies
<1>3. k \in Process
  BY <1>1, <1>2 DEF Process, Replies, Reports, NoReply
<1>4. /\ k.pc = "sleep" /\ k.serving = j.serving /\ k.pipeline = j.pipeline
      /\ k.configured = j.configured /\ k.status.version = v /\ k.beat = j.beat /\ k.etag = v
  BY <1>1 DEF Process
<1>5. /\ j.status.version \in Nat /\ j.beat.version \in Nat /\ shown[g].version \in Nat
      /\ j.status.version <= j.serving /\ j.beat.version <= j.status.version
  BY <1>1, ProcessFacts DEF Process, Reports, Unsent, Good, Serves
<1>6. shown[g].version <= k.status.version
  BY <1>1, <1>2, <1>4, <1>5
<1>7. Becomes(g, k)
  BY ProcessFacts, <1>6 DEF RecordVersion, Becomes, Studio
<1> HIDE DEF k, v
<1>8. Serves(k, l)
  BY <1>1, <1>2, <1>4, <1>5 DEF Good, Serves
<1>9. Pulled(k, l) /\ Swapped(k) /\ Settled(k)
  BY <1>1, <1>2, <1>4 DEF RecordVersion, Good, Pulled, Swapped, Settled
<1>10. Onward(j, k)
  BY <1>2, <1>4 DEF Onward
<1> QED BY <1>3, <1>7, <1>8, <1>9, <1>10 DEF Steps, Good

\* A step of the timers and channels: it leaves what the process serves alone.
LEMMA SignalSteps ==
  ASSUME DeliveryInv, NEW g \in Gateways, NEW k \in Process,
         k.pc = gw[g].pc \/ (gw[g].pc = "sleep" /\ k.pc = "fetch"), k.etag = gw[g].etag,
         k.reply = gw[g].reply, k.status = gw[g].status, k.pipeline = gw[g].pipeline,
         k.serving = gw[g].serving, k.configured = gw[g].configured,
         k.beat.version <= k.status.version, Becomes(g, k)
  PROVE  Steps(g)
<1>1. gw[g] \in Process /\ Good(gw[g], log[EnvOf[g]])
  BY ProcessFacts
<1>2. Good(k, log[EnvOf[g]])
  BY <1>1 DEF Good, Serves, Pulled, Swapped, Settled
<1>3. Onward(gw[g], k)
  BY <1>1 DEF Onward, Process
<1> QED BY <1>2, <1>3 DEF Steps

LEMMA WakeSteps ==
  ASSUME DeliveryInv, NEW g \in Gateways, Wake(g)
  PROVE  Steps(g)
<1>1. PICK left \in {FALSE, gw[g].trigger} :
        gw' = [gw EXCEPT ![g].pc = "fetch", ![g].trigger = left]
  BY DEF Wake
<1> DEFINE k == [gw[g] EXCEPT !.pc = "fetch", !.trigger = left]
<1>2. gw[g] \in Process /\ gw[g].beat.version <= gw[g].status.version
  BY ProcessFacts DEF Good, Serves
<1>3. left \in BOOLEAN
  BY <1>2, Zenon DEF Process
<1>4. k \in Process
  BY <1>2, <1>3 DEF Process
<1>5. /\ gw[g].pc = "sleep" /\ k.pc = "fetch" /\ k.reply = gw[g].reply /\ k.status = gw[g].status
      /\ k.pipeline = gw[g].pipeline /\ k.serving = gw[g].serving
      /\ k.configured = gw[g].configured /\ k.etag = gw[g].etag /\ k.beat = gw[g].beat
  BY <1>2 DEF Wake, Process
<1>6. Becomes(g, k)
  BY <1>1, <1>5, ProcessFacts DEF Wake, Becomes, Studio
<1> HIDE DEF k
<1> QED BY <1>2, <1>4, <1>5, <1>6, SignalSteps

LEMMA SighupSteps ==
  ASSUME DeliveryInv, NEW g \in Gateways, Sighup(g)
  PROVE  Steps(g)
<1> DEFINE k == [gw[g] EXCEPT !.trigger = TRUE]
<1>1. gw[g] \in Process /\ gw[g].beat.version <= gw[g].status.version
  BY ProcessFacts DEF Good, Serves
<1>2. k \in Process
  BY <1>1 DEF Process
<1>3. /\ k.pc = gw[g].pc /\ k.reply = gw[g].reply /\ k.status = gw[g].status
      /\ k.pipeline = gw[g].pipeline /\ k.serving = gw[g].serving
      /\ k.configured = gw[g].configured /\ k.etag = gw[g].etag /\ k.beat = gw[g].beat
  BY <1>1 DEF Process
<1>4. Becomes(g, k)
  BY <1>3, ProcessFacts DEF Sighup, Becomes, Studio
<1> HIDE DEF k
<1> QED BY <1>1, <1>2, <1>3, <1>4, SignalSteps

LEMMA BeatSteps ==
  ASSUME DeliveryInv, NEW g \in Gateways, Beat(g)
  PROVE  Steps(g)
<1>1. PICK left \in {FALSE, gw[g].applied} :
        gw' = [gw EXCEPT ![g].beat = gw[g].status, ![g].applied = left]
  BY DEF Beat
<1> DEFINE k == [gw[g] EXCEPT !.beat = gw[g].status, !.applied = left]
<1>2. gw[g] \in Process
  BY ProcessFacts
<1>3. left \in BOOLEAN
  BY <1>2, Zenon DEF Process
<1>4. k \in Process
  BY <1>2, <1>3 DEF Process
<1>5. /\ k.pc = gw[g].pc /\ k.reply = gw[g].reply /\ k.status = gw[g].status
      /\ k.pipeline = gw[g].pipeline /\ k.serving = gw[g].serving
      /\ k.configured = gw[g].configured /\ k.etag = gw[g].etag /\ k.beat = gw[g].status
  BY <1>2 DEF Process
<1>6. k.beat.version <= k.status.version
  BY <1>2, <1>5 DEF Process, Reports
<1>7. Becomes(g, k)
  BY <1>1, <1>5, ProcessFacts DEF Beat, Becomes, Studio
<1> HIDE DEF k
<1> QED BY <1>4, <1>5, <1>6, <1>7, SignalSteps

\* The heartbeat under way is stored, refused or lost.
LEMMA BeatEndsSteps ==
  ASSUME DeliveryInv, NEW g \in Gateways, BeatArrives(g) \/ BeatLost(g)
  PROVE  Steps(g)
<1> DEFINE k == [gw[g] EXCEPT !.beat = Unsent]
<1>1. /\ gw[g] \in Process /\ gw[g].beat.version <= gw[g].status.version
      /\ shown[g].version <= gw[g].status.version /\ restarts \in Nat
      /\ shown \in [Gateways -> Reports \cup {Unsent}]
  BY ProcessFacts DEF Good, Serves
<1>2. k \in Process
  BY <1>1 DEF Process
<1>3. /\ k.pc = gw[g].pc /\ k.reply = gw[g].reply /\ k.status = gw[g].status
      /\ k.pipeline = gw[g].pipeline /\ k.serving = gw[g].serving
      /\ k.configured = gw[g].configured /\ k.etag = gw[g].etag /\ k.beat = Unsent
  BY <1>1 DEF Process
<1>4. k.beat.version <= k.status.version
  BY <1>1, <1>3 DEF Process, Reports, Unsent
<1>5. /\ gw' = [gw EXCEPT ![g] = k] /\ UNCHANGED <<log, valid, live, restarts>>
      /\ shown' = shown \/ shown' = [shown EXCEPT ![g] = gw[g].beat]
  BY DEF BeatArrives, BeatLost, Studio
<1>6. /\ shown' \in [Gateways -> Reports \cup {Unsent}]
      /\ shown'[g] = shown[g] \/ shown'[g] = gw[g].beat
      /\ \A h \in Gateways \ {g} : shown'[h] = shown[h]
  BY <1>1, <1>5 DEF Process
<1> HIDE DEF k
<1>7. Becomes(g, k)
  BY <1>1, <1>3, <1>5, <1>6 DEF Becomes
<1> QED BY <1>2, <1>3, <1>4, <1>7, SignalSteps

-----------------------------------------------------------------------------
(* The next-state relation                                                 *)

LEMMA GatewaySteps ==
  ASSUME DeliveryInv, NEW g \in Gateways,
         PollerNext(g) \/ HeartbeatNext(g) \/ Sighup(g)
  PROVE  Steps(g)
<1>1. CASE PullLost(g)
  BY <1>1, EndsPull DEF PullLost, Failed
<1>2. CASE PullRefused(g)
  BY <1>2, EndsPull DEF PullRefused, Failed
<1>3. CASE NotModified(g)
  BY <1>3, EndsPull DEF NotModified
<1>4. CASE ReloadFails(g)
  BY <1>4, EndsPull DEF ReloadFails, Failed
<1> QED
  BY <1>1, <1>2, <1>3, <1>4, PullSteps, ReloadSteps, OnAppliedSteps, RecordVersionSteps,
     WakeSteps, SighupSteps, BeatSteps, BeatEndsSteps DEF PollerNext, HeartbeatNext

LEMMA RestartKeeps ==
  ASSUME DeliveryInv, NEW g \in Gateways, Restart(g)
  PROVE  DeliveryInv'
<1>1. PICK acc \in SUBSET Docs : gw' = [gw EXCEPT ![g] = Started(acc)]
  BY DEF Restart
<1>2. /\ Started(acc) \in Process /\ Good(Started(acc), log[EnvOf[g]])
      /\ Started(acc).status.version = 0
  BY ProcessFacts, StartedGood
<1>3. /\ shown' \in [Gateways -> Reports \cup {Unsent}] /\ shown'[g].version = 0
      /\ \A h \in Gateways \ {g} : shown'[h] = shown[h]
  BY ProcessFacts DEF Restart, Unsent
<1>4. restarts' \in Nat /\ UNCHANGED <<log, valid, live>>
  BY ProcessFacts DEF Restart
<1>5. Becomes(g, Started(acc))
  BY <1>1, <1>2, <1>3, <1>4 DEF Becomes
<1> QED BY <1>2, <1>5, ProcessKeeps

LEMMA DeliveryStep == DeliveryInv /\ [Next]_vars => DeliveryInv'
<1> SUFFICES ASSUME DeliveryInv, [Next]_vars PROVE DeliveryInv'
  OBVIOUS
<1>1. CASE UNCHANGED vars
  BY <1>1 DEF vars, DeliveryInv, TypeOK, LogTypeOK
<1>2. CASE Publish
  BY <1>2, PublishKeeps
<1>3. ASSUME NEW g \in Gateways, revokeGatewayToken(g) PROVE DeliveryInv'
  BY <1>3 DEF revokeGatewayToken, DeliveryInv, TypeOK, LogTypeOK
<1>4. ASSUME NEW g \in Gateways, PollerNext(g) \/ HeartbeatNext(g) \/ Sighup(g)
      PROVE  DeliveryInv'
  BY <1>4, GatewaySteps, ProcessKeeps DEF Steps
<1> QED BY <1>1, <1>2, <1>3, <1>4, RestartKeeps DEF Next

LEMMA DeliveryCorrect == Spec => []DeliveryInv
  BY DeliveryInit, DeliveryStep, PTL DEF Spec

\* A gateway answers /ready only when it serves a version published for its own
\* environment, and serves exactly that version's artifact.
THEOREM DeliveryReadyServesPublished == Spec => []ReadyServesPublished
<1>1. DeliveryInv => ReadyServesPublished
  <2> SUFFICES ASSUME DeliveryInv, NEW g \in Gateways
               PROVE  /\ gw[g].configured => gw[g].serving # 0
                      /\ gw[g].serving = 0 <=> gw[g].pipeline = NoDoc
                      /\ gw[g].serving # 0 =>
                           /\ gw[g].serving <= Latest(g)
                           /\ gw[g].pipeline = log[EnvOf[g]][gw[g].serving]
    BY DEF ReadyServesPublished
  <2>1. /\ log[EnvOf[g]] \in Seq(Docs) /\ gw[g].serving \in Nat
        /\ Serves(gw[g], log[EnvOf[g]])
    BY ProcessFacts DEF Good, Process
  <2>2. gw[g].serving # 0 => gw[g].pipeline \in Docs
    BY <2>1 DEF Serves
  <2> QED BY <2>1, <2>2, DeliveryAssumption DEF Serves, Latest
<1> QED BY <1>1, DeliveryCorrect, PTL

\* However late heartbeats arrive, Studio shows an instance on a version that the
\* instance has applied.
THEOREM DeliveryShownWasApplied == Spec => []ShownWasApplied
<1>1. DeliveryInv => ShownWasApplied
  BY DEF DeliveryInv, ShownWasApplied, Good, Serves
<1> QED BY <1>1, DeliveryCorrect, PTL

\* No step of a gateway, of Studio or of the network between them takes a running
\* gateway back to an older version or out of service.
THEOREM DeliveryNeverBackwards == Spec => NeverBackwards
<1> DEFINE Forward == \A g \in Gateways :
                        restarts' = restarts =>
                          /\ gw'[g].serving >= gw[g].serving
                          /\ gw[g].configured => gw'[g].configured
<1>1. ASSUME DeliveryInv, [Next]_vars PROVE Forward \/ UNCHANGED vars
  <2> SUFFICES ASSUME Next, NEW g \in Gateways, restarts' = restarts
               PROVE  /\ gw'[g].serving >= gw[g].serving
                      /\ gw[g].configured => gw'[g].configured
    BY <1>1
  <2>1. gw[g].serving \in Nat /\ gw \in [Gateways -> Process]
    BY <1>1, ProcessFacts DEF Process
  <2>2. CASE gw' = gw
    BY <2>1, <2>2
  <2>3. ASSUME NEW h \in Gateways, PollerNext(h) \/ HeartbeatNext(h) \/ Sighup(h)
        PROVE  /\ gw'[g].serving >= gw[g].serving
               /\ gw[g].configured => gw'[g].configured
    <3>1. PICK k \in Process : gw' = [gw EXCEPT ![h] = k] /\ Onward(gw[h], k)
      BY <1>1, <2>3, GatewaySteps DEF Steps, Becomes
    <3>2. gw'[g] = IF g = h THEN k ELSE gw[g]
      BY <2>1, <3>1
    <3> QED BY <2>1, <3>1, <3>2 DEF Onward
  <2>4. \A h \in Gateways : ~Restart(h)
    BY <1>1, ProcessFacts DEF Restart
  <2> QED BY <2>2, <2>3, <2>4 DEF Next, Publish, revokeGatewayToken
<1>2. DeliveryInv /\ [Next]_vars => [Forward]_vars
  BY <1>1
<1> QED BY <1>2, DeliveryCorrect, PTL DEF Spec, NeverBackwards

\* Studio answers 304 only to a gateway that serves the current version of its
\* environment and is ready: the tag of a version that failed to load is never kept.
NotModifiedMeansCurrent ==
  [][\A g \in Gateways :
       Pull(g) /\ gw'[g].reply.kind = "not_modified" =>
         /\ gw[g].serving = Latest(g) /\ gw[g].configured
         /\ gw[g].pipeline = log[EnvOf[g]][Latest(g)]]_vars

\* The tag a gateway asks with is the version it serves, so that the 304 which the
\* poller trusts never leaves a gateway on an older version.
THEOREM DeliveryNotModifiedMeansCurrent == Spec => NotModifiedMeansCurrent
<1> DEFINE Current == \A g \in Gateways :
                        Pull(g) /\ gw'[g].reply.kind = "not_modified" =>
                          /\ gw[g].serving = Latest(g) /\ gw[g].configured
                          /\ gw[g].pipeline = log[EnvOf[g]][Latest(g)]
<1>1. ASSUME DeliveryInv PROVE Current
  <2> SUFFICES ASSUME NEW g \in Gateways, Pull(g), gw'[g].reply.kind = "not_modified"
               PROVE  /\ gw[g].serving = Latest(g) /\ gw[g].configured
                      /\ gw[g].pipeline = log[EnvOf[g]][Latest(g)]
    OBVIOUS
  <2>1. /\ gw \in [Gateways -> Process] /\ gw[g] \in Process
        /\ Serves(gw[g], log[EnvOf[g]]) /\ Settled(gw[g])
    BY <1>1, ProcessFacts DEF Good
  <2>2. gw[g].pc = "fetch" /\ gw'[g].reply = serveArtifact(g)
    BY <2>1 DEF Pull, Process
  <2>3. Latest(g) # 0 /\ gw[g].etag = Latest(g)
    BY <2>2 DEF serveArtifact, NoReply
  <2>4. gw[g].serving = Latest(g)
    BY <2>1, <2>2, <2>3 DEF Settled
  <2> QED BY <2>1, <2>2, <2>3, <2>4 DEF Settled, Serves
<1>2. DeliveryInv /\ [Next]_vars => [Current]_vars
  BY <1>1
<1> QED BY <1>2, DeliveryCorrect, PTL DEF Spec, NotModifiedMeansCurrent

=============================================================================
