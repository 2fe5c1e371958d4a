------------------------------ MODULE Delivery ------------------------------
(***************************************************************************)
(* How published versions reach managed gateways: the artifact poller, the *)
(* reload it drives and the heartbeat of each gateway process              *)
(* (internal/hotreload, cmd/restitch/run.go), and the Studio routes they   *)
(* call (serveArtifact and serveHeartbeat of internal/studio).  Studio's   *)
(* versions are the log of VersionLog, which Versions implements.          *)
(*                                                                         *)
(* A gateway process is two goroutines: the poller's loop and the          *)
(* heartbeat's.  They share the poller's status and the channel applied;   *)
(* probes and requests read the pipeline and the configured flag at any    *)
(* moment.  Calls to Studio may be lost on the way there or back, and      *)
(* a gateway keeps what it pulled in memory only.                          *)
(***************************************************************************)
EXTENDS VersionLog

CONSTANTS
  Gateways,     \* gateway hosts
  EnvOf,        \* the environment of each one's token
  NoDoc,        \* the pipeline that serves the probes only
  MaxVersions,  \* bound: versions per environment
  MaxRestarts   \* bound: restarts of gateway processes

ASSUME DeliveryAssumption ==
  /\ EnvOf \in [Gateways -> Envs]
  /\ NoDoc \notin Docs
  /\ MaxVersions \in Nat
  /\ MaxRestarts \in Nat

VARIABLES
  live,      \* the gateways whose token is not revoked
  gw,        \* the process of each gateway
  shown,     \* the last heartbeat stored for the process: what Studio shows
  restarts   \* the number of restarts so far

vars == <<log, valid, live, gw, shown, restarts>>

\* client.go: FetchResult, or the error of Fetch.
NoReply == [kind |-> "none", version |-> 0, doc |-> NoDoc]
Replies ==
  [kind : {"none", "ok", "not_modified", "no_version", "token"}, version : Nat,
   doc : Docs \cup {NoDoc}]

\* poller.go: PollStatus; ErrorType of the last pull.  Also the body of a heartbeat.
Reports ==
  [version : Nat, error : {"none", "fetch", "no_version", "token", "reload"}]
NoReport == [version |-> 0, error |-> "none"]
Unsent == [version |-> 0, error |-> "unsent"]

Process ==
  [accepts    : SUBSET Docs,             \* artifacts that compile here, with this environment
   pc         : {"fetch", "reply", "swapped", "record", "sleep"},
   reply      : Replies,
   etag       : Nat,                     \* lastETag, by version number; 0 is ""
   status     : Reports,
   pipeline   : Docs \cup {NoDoc},       \* swapper.Current
   serving    : Nat,                     \* history: the version the pipeline was pulled as
   configured : BOOLEAN,                 \* the second half of Server.Ready
   applied    : BOOLEAN,                 \* the channel applied holds a value
   trigger    : BOOLEAN,                 \* the channel triggerCh holds a value
   beat       : Reports \cup {Unsent}]   \* the heartbeat on its way

\* Mutated form of Started: SetConfigured(false) is missing.
StartedConfigured(acc) ==
  [accepts |-> acc, pc |-> "fetch", reply |-> NoReply, etag |-> 0, status |-> NoReport,
   pipeline |-> NoDoc, serving |-> 0, configured |-> TRUE, applied |-> FALSE,
   trigger |-> FALSE, beat |-> Unsent]

\* runGateway in managed mode, up to the first poll.
Started(acc) ==
  [accepts |-> acc, pc |-> "fetch", reply |-> NoReply, etag |-> 0, status |-> NoReport,
   pipeline |-> NoDoc, serving |-> 0, configured |-> FALSE, applied |-> FALSE,
   trigger |-> FALSE, beat |-> Unsent]

TypeOK ==
  /\ LogTypeOK
  /\ live \in SUBSET Gateways
  /\ gw \in [Gateways -> Process]
  /\ shown \in [Gateways -> Reports \cup {Unsent}]
  /\ restarts \in Nat

Init ==
  /\ LogInit
  /\ live = Gateways
  /\ \E acc \in [Gateways -> SUBSET Docs] : gw = [g \in Gateways |-> Started(acc[g])]
  /\ shown = [g \in Gateways |-> Unsent]
  /\ restarts = 0

Studio == <<log, valid, live, shown>>

-----------------------------------------------------------------------------
(* Studio                                                                  *)

\* Publishing and releases, as VersionLog promises them.
Publish ==
  /\ LogNext
  /\ \A e \in Envs : Len(log'[e]) <= MaxVersions
  /\ UNCHANGED <<live, gw, shown, restarts>>

revokeGatewayToken(g) ==
  /\ g \in live
  /\ live' = live \ {g}
  /\ UNCHANGED <<log, valid, gw, shown, restarts>>

Latest(g) == Len(log[EnvOf[g]])

\* Mutated form of serveArtifact: If-None-Match is compared with "some version".
ServeArtifactAnyTag(g) ==
  IF g \notin live THEN [NoReply EXCEPT !.kind = "token"]
  ELSE IF Latest(g) = 0 THEN [NoReply EXCEPT !.kind = "no_version"]
  ELSE IF gw[g].etag # 0 THEN [NoReply EXCEPT !.kind = "not_modified"]
  ELSE [kind |-> "ok", version |-> Latest(g), doc |-> log[EnvOf[g]][Latest(g)]]

\* serveArtifact, of the current version.
serveArtifact(g) ==
  IF g \notin live THEN [NoReply EXCEPT !.kind = "token"]
  ELSE IF Latest(g) = 0 THEN [NoReply EXCEPT !.kind = "no_version"]
  ELSE IF gw[g].etag = Latest(g) THEN [NoReply EXCEPT !.kind = "not_modified"]
  ELSE [kind |-> "ok", version |-> Latest(g), doc |-> log[EnvOf[g]][Latest(g)]]

-----------------------------------------------------------------------------
(* The poller                                                              *)

\* Fetch reaches Studio, which answers.
Pull(g) ==
  /\ gw[g].pc = "fetch"
  /\ gw' = [gw EXCEPT ![g].pc = "reply", ![g].reply = serveArtifact(g)]
  /\ UNCHANGED <<Studio, restarts>>

\* Mutated form of Failed: the status takes the version that was fetched.
FailedWithVersion(g, e) ==
  /\ gw' = [gw EXCEPT ![g].pc = "sleep", ![g].reply = NoReply,
                      ![g].status = [version |-> gw[g].reply.version, error |-> e]]
  /\ UNCHANGED <<Studio, restarts>>

\* Mutated form of Failed: a failed pull turns /ready off.
FailedUnready(g, e) ==
  /\ gw' = [gw EXCEPT ![g].pc = "sleep", ![g].reply = NoReply, ![g].status.error = e,
                      ![g].configured = FALSE]
  /\ UNCHANGED <<Studio, restarts>>

\* Run, when poll returned an error: the status keeps the version, the loop waits.
Failed(g, e) ==
  /\ gw' = [gw EXCEPT ![g].pc = "sleep", ![g].reply = NoReply, ![g].status.error = e]
  /\ UNCHANGED <<Studio, restarts>>

\* The request or the answer is lost, or Studio is down.
PullLost(g) ==
  /\ gw[g].pc \in {"fetch", "reply"}
  /\ Failed(g, "fetch")

\* 404, 401 or 403.
PullRefused(g) ==
  /\ gw[g].pc = "reply"
  /\ gw[g].reply.kind \in {"no_version", "token"}
  /\ Failed(g, gw[g].reply.kind)

\* 304: the last pull is no longer in error.
NotModified(g) ==
  /\ gw[g].pc = "reply"
  /\ gw[g].reply.kind = "not_modified"
  /\ gw' = [gw EXCEPT ![g].pc = "sleep", ![g].reply = NoReply, ![g].status.error = "none"]
  /\ UNCHANGED <<Studio, restarts>>

\* reloadFromBytes returns an error: the artifact does not compile here, or the
\* first token of an upstream's OAuth2 client cannot be had now.
ReloadFails(g) ==
  /\ gw[g].pc = "reply"
  /\ gw[g].reply.kind = "ok"
  /\ gw[g].reply.doc # gw[g].pipeline
  /\ Failed(g, "reload")

\* reloadFromBytes swaps the pipeline in, or finds the artifact's hash current.
Reload(g) ==
  /\ gw[g].pc = "reply"
  /\ gw[g].reply.kind = "ok"
  /\ gw[g].reply.doc \in gw[g].accepts
  /\ gw' = [gw EXCEPT ![g].pc = "swapped", ![g].pipeline = gw[g].reply.doc,
                      ![g].serving = gw[g].reply.version]
  /\ UNCHANGED <<Studio, restarts>>

\* The callback of poller.OnApplied; the send does not block.
OnApplied(g) ==
  /\ gw[g].pc = "swapped"
  /\ gw' = [gw EXCEPT ![g].pc = "record", ![g].configured = TRUE, ![g].applied = TRUE]
  /\ UNCHANGED <<Studio, restarts>>

\* Run, after poll applied a version: lastETag and the status follow.
RecordVersion(g) ==
  /\ gw[g].pc = "record"
  /\ gw' = [gw EXCEPT ![g].pc = "sleep", ![g].reply = NoReply,
                      ![g].etag = gw[g].reply.version,
                      ![g].status = [version |-> gw[g].reply.version, error |-> "none"]]
  /\ UNCHANGED <<Studio, restarts>>

\* sleepOrTrigger returns on the timer, or takes the trigger.
Wake(g) ==
  /\ gw[g].pc = "sleep"
  /\ \E left \in {FALSE, gw[g].trigger} :
       gw' = [gw EXCEPT ![g].pc = "fetch", ![g].trigger = left]
  /\ UNCHANGED <<Studio, restarts>>

\* SIGHUP: Trigger, which drops a second one.
Sighup(g) ==
  /\ ~gw[g].trigger
  /\ gw' = [gw EXCEPT ![g].trigger = TRUE]
  /\ UNCHANGED <<Studio, restarts>>

-----------------------------------------------------------------------------
(* The heartbeat                                                           *)

\* RunHeartbeat takes the report, on a tick or because applied has a value.
Beat(g) ==
  /\ gw[g].beat = Unsent
  /\ \E left \in {FALSE, gw[g].applied} :
       gw' = [gw EXCEPT ![g].beat = gw[g].status, ![g].applied = left]
  /\ UNCHANGED <<Studio, restarts>>

\* serveHeartbeat stores it, if the token is live.
BeatArrives(g) ==
  /\ gw[g].beat # Unsent
  /\ shown' = IF g \in live THEN [shown EXCEPT ![g] = gw[g].beat] ELSE shown
  /\ gw' = [gw EXCEPT ![g].beat = Unsent]
  /\ UNCHANGED <<log, valid, live, restarts>>

\* It is lost; the next tick sends another.
BeatLost(g) ==
  /\ gw[g].beat # Unsent
  /\ gw' = [gw EXCEPT ![g].beat = Unsent]
  /\ UNCHANGED <<Studio, restarts>>

\* The process ends and another one starts, with another instance ID, perhaps
\* another release and other environment variables.
Restart(g) ==
  /\ restarts < MaxRestarts
  /\ restarts' = restarts + 1
  /\ \E acc \in SUBSET Docs : gw' = [gw EXCEPT ![g] = Started(acc)]
  /\ shown' = [shown EXCEPT ![g] = Unsent]
  /\ UNCHANGED <<log, valid, live>>

-----------------------------------------------------------------------------

PollerNext(g) ==
  \/ Pull(g)
  \/ PullLost(g)
  \/ PullRefused(g)
  \/ NotModified(g)
  \/ ReloadFails(g)
  \/ Reload(g)
  \/ OnApplied(g)
  \/ RecordVersion(g)
  \/ Wake(g)

HeartbeatNext(g) == Beat(g) \/ BeatArrives(g) \/ BeatLost(g)

Next ==
  \/ Publish
  \/ \E g \in Gateways :
       \/ revokeGatewayToken(g)
       \/ PollerNext(g)
       \/ HeartbeatNext(g)
       \/ Sighup(g)
       \/ Restart(g)

\* The goroutines run and the timers fire.  The network and the token servers
\* may fail any number of calls, but not every call for ever.
Fairness ==
  \A g \in Gateways :
    /\ WF_vars(PollerNext(g))
    /\ WF_vars(HeartbeatNext(g))
    /\ SF_vars(Pull(g))
    /\ SF_vars(Reload(g))
    /\ SF_vars(BeatArrives(g))

Spec == Init /\ [][Next]_vars /\ Fairness

-----------------------------------------------------------------------------
(* Properties                                                              *)

\* /ready answers 200 only on a gateway that serves a version published for
\* its own environment; and what the gateway serves is that version.
ReadyServesPublished ==
  \A g \in Gateways :
    /\ gw[g].configured => gw[g].serving # 0
    /\ gw[g].serving = 0 <=> gw[g].pipeline = NoDoc
    /\ gw[g].serving # 0 =>
         /\ gw[g].serving <= Latest(g)
         /\ gw[g].pipeline = log[EnvOf[g]][gw[g].serving]

\* Studio never shows an instance on a version the instance has not applied,
\* however late its heartbeats arrive.
ShownWasApplied ==
  \A g \in Gateways :
    /\ shown[g].version <= gw[g].status.version
    /\ gw[g].beat.version <= gw[g].status.version
    /\ gw[g].status.version <= gw[g].serving

\* A running gateway never goes back to an older version and never stops
\* serving: failed pulls, failed reloads, revoked tokens and lost answers leave
\* the pipeline and /ready as they are.
NeverBackwards ==
  [][\A g \in Gateways :
       restarts' = restarts =>
         /\ gw'[g].serving >= gw[g].serving
         /\ gw[g].configured => gw'[g].configured]_vars

\* Once publishing ends, every gateway whose token is valid serves the last version
\* of its environment, and Studio shows it there; or, when that version does not
\* compile on the gateway, Studio shows the error of the gateway's last pull.
Converges ==
  \A g \in Gateways :
    <>[](Latest(g) # 0 /\ g \in live =>
           IF log[EnvOf[g]][Latest(g)] \in gw[g].accepts
           THEN gw[g].serving = Latest(g) /\ shown[g].version = Latest(g)
           ELSE shown[g].error \notin {"none", "unsent"})

=============================================================================
