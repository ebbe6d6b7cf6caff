------------------------------ MODULE Session -------------------------------
(***************************************************************************)
(* One klens process: App.Run in cli/cli.go, ResolveScope in               *)
(* kube/scope.go and the redraw loop of cli/watch.go, with SIGINT/SIGTERM  *)
(* arriving at any point.                                                  *)
(*                                                                         *)
(* What a command reads is one request here: ListFetch says how a command  *)
(* that lists many collections comes back with one answer, and that it     *)
(* always does once the context is cancelled.                              *)
(***************************************************************************)
EXTENDS Integers, FiniteSets

CONSTANTS
  NS,             \* namespace names that may exist
  Invocations,    \* command lines, see Invocation
  FetchErrors,    \* what a read can fail with besides its own ending
  RawGlob,        \* a -n pattern taken for a namespace name
  None,           \* nil
  MaxTicks,       \* bound: ticks of the --watch ticker
  MaxChanges      \* bound: namespaces created or deleted meanwhile

(* The -n value: a literal name, a glob and the names it matches, or a      *)
(* pattern path.Match rejects.                                              *)
NSFlag == [kind : {"none", "literal", "glob", "bad"}, match : SUBSET NS]

(* What dispatch looks at. *)
Invocation ==
  [known : BOOLEAN, parses : BOOLEAN, watchable : BOOLEAN, watch : BOOLEAN,
   tty : BOOLEAN, interval : Nat, ignoresNS : BOOLEAN, all : BOOLEAN,
   currentNS : BOOLEAN, deadline : BOOLEAN,
   ns : NSFlag]

MinWatchInterval == 1

(* The runtime ended the process: no exit code of its own. *)
Killed == -1

ASSUME SessionAssumption ==
  /\ Invocations \subseteq Invocation
  /\ \A inv \in Invocations :
       /\ inv.ns.kind = "literal" => \E n \in NS : inv.ns.match = {n}
       /\ inv.ns.kind = "none" => inv.ns.match = {}
  /\ None \notin FetchErrors \cup {"timeout", "canceled"}
  /\ None \notin {Killed, 0, 1, 130}
  /\ FetchErrors \cap {"timeout", "canceled"} = {}
  /\ RawGlob \notin NS
  /\ MaxTicks \in Nat /\ MaxChanges \in Nat

VARIABLES
  inv,       \* the command line
  pc,        \* where Run stands
  cluster,   \* namespaces that exist
  changes,   \* how often the cluster changed (bound)
  flagNS,    \* f.Namespace
  scope,     \* f.Scope().Names(); {} is the whole cluster
  found,     \* the namespaces the resolving request came back with
  handled,   \* signal.NotifyContext is in
  ctxDone,   \* ctx.Err() # nil
  live,      \* the outstanding request was sent before ctxDone
  err,       \* the error the last read ended in
  pending,   \* a tick waits in tick.C, which holds one
  ticks,     \* ticks so far
  frames,    \* frames on the terminal
  late,      \* frames drawn since ctxDone
  drawn,     \* errors drawn in a frame, None among them for a good one
  said,      \* the class of the message on stderr
  began,     \* the command itself started: its scope is resolved
  code       \* the exit code, None while running

netVars == <<flagNS, scope, found>>
watchVars == <<pending, ticks, frames, late, drawn>>
vars == <<inv, pc, cluster, changes, netVars, handled, ctxDone, live, err,
          watchVars, said, began, code>>

Init ==
  /\ inv \in Invocations
  /\ pc = "dispatch"
  /\ cluster \in SUBSET NS
  /\ changes = 0
  /\ flagNS = inv.ns
  /\ scope = {}
  /\ found = {}
  /\ handled = FALSE
  /\ ctxDone = FALSE
  /\ live = FALSE
  /\ err = None
  /\ pending = FALSE
  /\ ticks = 0
  /\ frames = 0
  /\ late = 0
  /\ drawn = {}
  /\ said = None
  /\ began = FALSE
  /\ code = None

(* A slip for the mutants: os.Exit is never reached. *)
ExitForgotten(c, m) ==
  /\ code' = c
  /\ said' = m
  /\ UNCHANGED pc

(* The process ends with an exit code, and a message of class m or None. *)
Exit(c, m) ==
  /\ code' = c
  /\ pc' = "exit"
  /\ said' = m

Start == pc' = "start" /\ began' = TRUE

-----------------------------------------------------------------------------
(* Dispatch: everything Run checks before it talks to a cluster. *)

Accepts(i) ==
  /\ i.known
  /\ i.watch => i.watchable
  /\ i.parses
  /\ i.watch => i.interval >= MinWatchInterval /\ i.tty

Refuse ==
  /\ pc = "dispatch"
  /\ ~Accepts(inv)
  /\ Exit(1, "usage")
  /\ UNCHANGED <<inv, cluster, changes, netVars, handled, ctxDone, live, err, watchVars, began>>

Accept ==
  /\ pc = "dispatch"
  /\ Accepts(inv)
  /\ pc' = "clients"
  /\ UNCHANGED <<inv, cluster, changes, netVars, handled, ctxDone, live, err,
                 watchVars, said, began, code>>

(* NewClient, then the kubeconfig's namespace for a command that defaults   *)
(* to it; either can fail on a broken kubeconfig.                           *)
Connect ==
  /\ pc = "clients"
  /\ \/ Exit(1, "config") /\ UNCHANGED flagNS
     \/ /\ pc' = "handler"
        /\ IF inv.currentNS /\ ~inv.all /\ flagNS.kind = "none"
             THEN \E n \in NS : flagNS' = [kind |-> "literal", match |-> {n}]
             ELSE UNCHANGED flagNS
        /\ UNCHANGED <<said, code>>
  /\ UNCHANGED <<inv, cluster, changes, scope, found, handled, ctxDone, live, err, watchVars, began>>

(* f.Scope(): -A wins, then the resolved names, then -n as it was typed. *)
ScopeOf(names) ==
  IF inv.all THEN {}
  ELSE IF names # {} THEN names
  ELSE IF flagNS.kind = "literal" THEN flagNS.match
  ELSE IF flagNS.kind = "none" THEN {}
  ELSE {RawGlob}

(* signal.NotifyContext.  From here on a signal cancels ctx instead of      *)
(* killing the process.  Commands that ignore -n go on unresolved.          *)
InstallHandler ==
  /\ pc = "handler"
  /\ handled' = TRUE
  /\ IF inv.ignoresNS \/ inv.all \/ flagNS.kind = "none"
       THEN Start /\ scope' = ScopeOf({})
       ELSE pc' = "resolve" /\ UNCHANGED <<scope, began>>
  /\ UNCHANGED <<inv, cluster, changes, flagNS, found, ctxDone, live, err,
                 watchVars, said, code>>

-----------------------------------------------------------------------------
(* One read: sent, then ended by an answer, the client's timeout, or ctx.   *)
(* A request made under a cancelled context never goes out.                 *)

Reads == {"resolving", "running", "rendering"}

After == [resolving |-> "resolved", running |-> "ran", rendering |-> "rendered"]

Send(at, read) ==
  /\ pc = at
  /\ pc' = read
  /\ live' = ~ctxDone
  /\ UNCHANGED <<inv, cluster, changes, netVars, handled, ctxDone, err,
                 watchVars, said, began, code>>

Ended(read, e) ==
  /\ pc = read
  /\ pc' = After[read]
  /\ err' = e
  /\ UNCHANGED <<inv, cluster, changes, flagNS, scope, handled, ctxDone, live,
                 watchVars, said, began, code>>

(* External: the apiserver answers. *)
Answered(read) ==
  /\ live
  /\ \E e \in FetchErrors \cup {None} : Ended(read, e)
  /\ found' = IF read = "resolving" THEN cluster ELSE found

TimedOut(read) ==
  /\ inv.deadline /\ live
  /\ Ended(read, "timeout")
  /\ UNCHANGED found

(* A slip for the mutants: the command does not hand ctx to its requests. *)
AbortedUnsent(read) ==
  /\ ctxDone /\ ~live
  /\ Ended(read, "canceled")
  /\ UNCHANGED found

(* The cancelled context ends the request, also one that never went out.  *)
Aborted(read) ==
  /\ ctxDone
  /\ Ended(read, "canceled")
  /\ UNCHANGED found

-----------------------------------------------------------------------------
(* ResolveScope: a Get for a literal name, a List for a glob. *)

(* path.Match rejects the pattern before any request. *)
BadPattern ==
  /\ pc = "resolve"
  /\ flagNS.kind = "bad"
  /\ Exit(1, "pattern")
  /\ UNCHANGED <<inv, cluster, changes, netVars, handled, ctxDone, live, err, watchVars, began>>

SendResolve == flagNS.kind # "bad" /\ Send("resolve", "resolving")

(* Run reports every error of ResolveScope through a.fail. *)
ResolveFailed ==
  /\ pc = "resolved"
  /\ err # None
  /\ Exit(1, err)
  /\ UNCHANGED <<inv, cluster, changes, netVars, handled, ctxDone, live, err, watchVars, began>>

ResolveEmpty ==
  /\ pc = "resolved"
  /\ err = None
  /\ flagNS.match \cap found = {}
  /\ Exit(1, "notfound")
  /\ UNCHANGED <<inv, cluster, changes, netVars, handled, ctxDone, live, err, watchVars, began>>

(* A slip for the mutants: every namespace listed, the pattern forgotten. *)
ResolvedUnfiltered ==
  /\ pc = "resolved"
  /\ err = None
  /\ flagNS.match \cap found # {}
  /\ Start
  /\ scope' = ScopeOf(found)
  /\ UNCHANGED <<inv, cluster, changes, flagNS, found, handled, ctxDone, live,
                 err, watchVars, said, code>>

(* The matches are fixed here: --watch does not resolve them again. *)
ResolvedTo ==
  /\ pc = "resolved"
  /\ err = None
  /\ flagNS.match \cap found # {}
  /\ Start
  /\ scope' = ScopeOf(flagNS.match \cap found)
  /\ UNCHANGED <<inv, cluster, changes, flagNS, found, handled, ctxDone, live,
                 err, watchVars, said, code>>

-----------------------------------------------------------------------------
(* A command run once, and the switch that turns its error into a code. *)

SendRun == ~inv.watch /\ Send("start", "running")

(* A slip for the mutants: the cancellation taken for a failure. *)
FinishUncanceled ==
  /\ pc = "ran"
  /\ IF err = None THEN Exit(0, None) ELSE Exit(1, err)
  /\ UNCHANGED <<inv, cluster, changes, netVars, handled, ctxDone, live, err, watchVars, began>>

(* The cases in the switch's order; ctx.Err() is read after the error. *)
Finish ==
  /\ pc = "ran"
  /\ \/ err = None /\ Exit(0, None)
     \/ err # None /\ (ctxDone \/ err = "canceled") /\ Exit(130, None)
     \/ err = "timeout" /\ ~ctxDone /\ Exit(1, "timeout, see --request-timeout")
     \/ err \notin {None, "canceled", "timeout"} /\ ~ctxDone /\ Exit(1, err)
  /\ UNCHANGED <<inv, cluster, changes, netVars, handled, ctxDone, live, err, watchVars, began>>

-----------------------------------------------------------------------------
(* watch(): render, draw, wait for a tick or for ctx. *)

Watching == {"top", "render", "rendering", "rendered", "draw", "wait"}

StartWatch ==
  /\ pc = "start"
  /\ inv.watch
  /\ pc' = "top"
  /\ UNCHANGED <<inv, cluster, changes, netVars, handled, ctxDone, live, err,
                 watchVars, said, began, code>>

(* if ctx.Err() != nil at the top of the loop *)
Top ==
  /\ pc = "top"
  /\ IF ctxDone THEN Exit(0, None) ELSE pc' = "render" /\ UNCHANGED <<said, code>>
  /\ UNCHANGED <<inv, cluster, changes, netVars, handled, ctxDone, live, err, watchVars, began>>

SendRender == Send("render", "rendering")

(* Slips for the mutants: any error leaves the loop, every error is drawn. *)
RenderedOnce ==
  /\ pc = "rendered"
  /\ IF err # None THEN Exit(0, None) ELSE pc' = "draw" /\ UNCHANGED <<said, code>>
  /\ UNCHANGED <<inv, cluster, changes, netVars, handled, ctxDone, live, err, watchVars, began>>

RenderedAlways ==
  /\ pc = "rendered"
  /\ pc' = "draw"
  /\ UNCHANGED <<inv, cluster, changes, netVars, handled, ctxDone, live, err,
                 watchVars, said, began, code>>

(* An error seen after our own interrupt is dropped, and the loop left. *)
Rendered ==
  /\ pc = "rendered"
  /\ IF err # None /\ ctxDone THEN Exit(0, None)
                              ELSE pc' = "draw" /\ UNCHANGED <<said, code>>
  /\ UNCHANGED <<inv, cluster, changes, netVars, handled, ctxDone, live, err, watchVars, began>>

(* The whole frame, table or error, in one write. *)
Draw ==
  /\ pc = "draw"
  /\ pc' = "wait"
  /\ frames' = frames + 1
  /\ late' = IF ctxDone THEN late + 1 ELSE late
  /\ drawn' = drawn \cup {err}
  /\ UNCHANGED <<inv, cluster, changes, netVars, handled, ctxDone, live, err,
                 pending, ticks, said, began, code>>

(* select picks either ready case. *)
WaitDone ==
  /\ pc = "wait"
  /\ ctxDone
  /\ Exit(0, None)
  /\ UNCHANGED <<inv, cluster, changes, netVars, handled, ctxDone, live, err, watchVars, began>>

(* A slip for the mutants: the tick is left in the channel. *)
WaitNoTick ==
  /\ pc = "wait"
  /\ pending
  /\ pc' = "top"
  /\ UNCHANGED <<inv, cluster, changes, netVars, handled, ctxDone, live, err,
                 watchVars, said, began, code>>

(* The tick is taken out of the channel. *)
WaitTick ==
  /\ pc = "wait"
  /\ pending
  /\ pending' = FALSE
  /\ pc' = "top"
  /\ UNCHANGED <<inv, cluster, changes, netVars, handled, ctxDone, live, err,
                 ticks, frames, late, drawn, said, began, code>>

-----------------------------------------------------------------------------
(* The environment. *)

(* The ticker runs on whatever the loop does; a tick nobody took is lost. *)
Tick ==
  /\ pc \in Watching
  /\ ticks < MaxTicks
  /\ ticks' = ticks + 1
  /\ pending' = TRUE
  /\ UNCHANGED <<inv, pc, cluster, changes, netVars, handled, ctxDone, live, err,
                 frames, late, drawn, said, began, code>>

(* SIGINT or SIGTERM: before NotifyContext the runtime ends the process. *)
Signal ==
  /\ code = None
  /\ ~ctxDone
  /\ IF handled THEN ctxDone' = TRUE /\ UNCHANGED <<pc, said, code>>
                ELSE Exit(Killed, None) /\ UNCHANGED ctxDone
  /\ UNCHANGED <<inv, cluster, changes, netVars, handled, live, err, watchVars, began>>

NamespaceChange ==
  /\ code = None
  /\ changes < MaxChanges
  /\ changes' = changes + 1
  /\ \E n \in NS : cluster' = IF n \in cluster THEN cluster \ {n} ELSE cluster \cup {n}
  /\ UNCHANGED <<inv, pc, netVars, handled, ctxDone, live, err, watchVars, said, began, code>>

Exited == code # None /\ UNCHANGED vars

-----------------------------------------------------------------------------
(* What the process does by itself, the apiserver's answers aside. *)
Own ==
  \/ Refuse \/ Accept \/ Connect \/ InstallHandler
  \/ BadPattern \/ SendResolve \/ ResolveFailed \/ ResolveEmpty \/ ResolvedTo
  \/ SendRun \/ Finish
  \/ StartWatch \/ Top \/ SendRender \/ Rendered \/ Draw \/ WaitDone \/ WaitTick

Next ==
  \/ Own
  \/ \E read \in Reads : Answered(read) \/ TimedOut(read) \/ Aborted(read)
  \/ Tick \/ Signal \/ NamespaceChange \/ Exited

Spec == Init /\ [][Next]_vars

(* The main goroutine runs, its timer and its context fire; the apiserver,  *)
(* the user and the ticker are not obliged to do anything.                  *)
Fairness ==
  /\ WF_vars(Own)
  /\ \A read \in Reads : WF_vars(TimedOut(read)) /\ WF_vars(Aborted(read))

FairSpec == Spec /\ Fairness

-----------------------------------------------------------------------------
(* Properties. *)

Running == {"start", "running", "ran"} \cup Watching

TypeOK ==
  /\ inv \in Invocations
  /\ pc \in Running \cup {"dispatch", "clients", "handler", "resolve",
                          "resolving", "resolved", "exit"}
  /\ cluster \subseteq NS /\ found \subseteq NS /\ flagNS \in NSFlag
  /\ scope \subseteq NS \cup {RawGlob}
  /\ err \in FetchErrors \cup {None, "timeout", "canceled"}
  /\ {handled, ctxDone, live, pending, began} \subseteq BOOLEAN
  /\ ticks \in 0..MaxTicks /\ frames \in 0..MaxTicks + 1 /\ late \in Nat
  /\ code \in {None, Killed, 0, 1, 130}
  /\ (code # None) <=> (pc = "exit")

(* A -n never widens: a command that reads namespaces lists the whole       *)
(* cluster only when no namespace was asked for, although an empty match    *)
(* list IS the cluster-wide scope, and never the glob as a name.  Every     *)
(* namespace it lists matched, and existed when ResolveScope looked.        *)
ScopeHonoursFlag ==
  pc \in Running /\ ~inv.ignoresNS =>
    IF inv.all \/ flagNS.kind = "none" THEN scope = {}
    ELSE scope # {} /\ scope \subseteq flagNS.match \cap found

(* Once the command runs, the exit code tells how it ended: 0 for a single  *)
(* run means the read was complete, 130 that the user interrupted, and an   *)
(* interrupted read is never reported as a failure (Run's last switch).     *)
ExitCodeTrue ==
  began /\ ~inv.watch /\ code # None =>
    /\ code = 0 <=> err = None
    /\ code = 130 => ctxDone
    /\ err = "canceled" => code = 130

(* A watch outlives every failing render: once it starts, only the user's    *)
(* interrupt ends it, and it ends with 0.                                   *)
WatchOutlivesErrors ==
  began /\ inv.watch /\ code # None => ctxDone /\ code = 0

(* The user's own interrupt is never drawn as an error frame, and at most   *)
(* the frame being built is still drawn after it.                           *)
QuietInterrupt ==
  late <= 1 /\ "canceled" \notin drawn

(* However slow the renders and however the ticks bunch up, frames never    *)
(* come faster than the ticker: the apiserver sees at most one poll per     *)
(* interval, the first aside.                                               *)
FramesPaced == frames + (IF pending THEN 1 ELSE 0) <= ticks + 1

(* The interrupt ends the process wherever it lands, with no request        *)
(* timeout and an apiserver that never answers.                             *)
InterruptEnds == ctxDone ~> code # None

(* What README.md says of Ctrl-C: it cancels the requests in flight and     *)
(* exits 130, or 0 under --watch.                                           *)
InterruptedExit ==
  code # None /\ err = "canceled" => code = IF inv.watch THEN 0 ELSE 130
=============================================================================
