-------------------------------- MODULE Doctor ---------------------------------
(***************************************************************************)
(* The preflight (doctor.py diagnose, __main__.py _run_doctor): a plain    *)
(* connection that asks for facts, a probe that creates a temporary slot,  *)
(* a second one with the built-in plugin when the first is not installed,  *)
(* and a probe of the physical protocol, each on a connection of its own,  *)
(* against a server on which any of them may fail at any moment, and which *)
(* the user may interrupt.                                                 *)
(*                                                                         *)
(* A connection is opened, runs its queries and is left by `async with`;   *)
(* what happens inside connect() is Walsender's.  The advice printed with  *)
(* a failed check (platform, fixes) is wording and left out.               *)
(***************************************************************************)
EXTENDS Integers

CONSTANTS
  Plugin,    \* output plugins
  Fallback   \* test_decoding

ASSUME DoctorAssumption == Fallback \in Plugin

VARIABLES
  can,       \* the server: which plugins it has, whether the settings and the role allow
             \* logical decoding, whether it lets a physical walsender in
  plugin,    \* diagnose(plugin=...)
  step,      \* "basic", "logical", "fallback", "physical", or how it ended: "done",
             \* "raised" to the caller, "interrupted"
  queries,   \* queries left to run on the open connection, 0 while connecting
  walfeed,   \* the check of that name: "none" yet, "ok", "fallback", "failed"
  physical,  \* the check of that name: "none" yet, "ok", "failed"
  sock,      \* the client's end of the connection is open
  session,   \* the server's sessions, by the step whose connection they serve
  slot       \* the server's slots, by the step that asked for them

doctorVars == <<can, plugin, step, queries, walfeed, physical, sock, session, slot>>

Probes == {"logical", "fallback"}
Steps == {"basic", "physical"} \cup Probes
Ended == {"done", "raised", "interrupted"}

DoctorInit ==
  /\ can \in [plugins : {P \in SUBSET Plugin : Fallback \in P}, logical : BOOLEAN,
              physical : BOOLEAN]
  /\ plugin \in Plugin
  /\ step = "basic"
  /\ queries = 0
  /\ walfeed = "none"
  /\ physical = "none"
  /\ sock = FALSE
  /\ session = {}
  /\ slot = {}

------------------------------------------------------------------------------
\* Seeded faults.

\* Whatever fails the first probe, the built-in plugin is tried.
RetriesAlways(why) == plugin # Fallback

\* A probe that failed on its way is taken for one that found nothing wrong.
PassesUnlessMissing(why) == why # "missing"

\* The slot is not a temporary one.
SlotStays(s) == {}

\* A plain try/except leaves the connection open when it is interrupted.
StaysOpenInterrupted(why) == why = "interrupted" /\ sock

------------------------------------------------------------------------------
\* The client.

\* A connection is left: __aexit__ aborts it, whatever ends it.
StaysOpen(why) == FALSE

\* version, wal_level, role and platform; a slot; IDENTIFY_SYSTEM.  What the first four
\* report has no part in the recommendation.
QueriesOf(s) == IF s = "basic" THEN 4 ELSE 1

\* The plugin a probe names.
Named(s) == IF s = "fallback" THEN Fallback ELSE plugin

\* Whether _probe_logical returns None.
ReturnsNone(why) == why = "ok"

\* 58P01, with another plugin to try.
Retries(why) == why = "missing" /\ plugin # Fallback

\* What follows a step that ended as `why` says: "ok", "missing" (no such plugin), "failed".
Concludes(why) ==
  \/ /\ step = "basic"
     /\ step' = IF why = "ok" THEN "logical" ELSE IF sock THEN "raised" ELSE "done"
     /\ UNCHANGED <<walfeed, physical>>
  \/ /\ step \in Probes
     /\ step' = IF step = "logical" /\ ~ReturnsNone(why) /\ Retries(why) THEN "fallback" ELSE "physical"
     /\ walfeed' = IF step' = "fallback" THEN "none"
                   ELSE IF ~ReturnsNone(why) THEN "failed"
                   ELSE IF step = "fallback" THEN "fallback" ELSE "ok"
     /\ UNCHANGED physical
  \/ /\ step = "physical"
     /\ step' = "done"
     /\ physical' = IF why = "ok" THEN "ok" ELSE "failed"
     /\ UNCHANGED walfeed

Leaves(why) ==
  /\ queries' = 0
  /\ sock' = StaysOpen(why)
  /\ Concludes(why)

\* connect() returns; the server has a session for it.
Connects ==
  /\ step \in Steps
  /\ queries = 0
  /\ step = "physical" => can.physical
  /\ queries' = QueriesOf(step)
  /\ sock' = TRUE
  /\ session' = session \cup {step}
  /\ UNCHANGED <<can, plugin, step, walfeed, physical, slot>>

\* connect() raises: refused, unreachable, timed out.
ConnectRaises ==
  /\ step \in Steps
  /\ queries = 0
  /\ Leaves("failed")
  /\ UNCHANGED <<can, plugin, session, slot>>

\* A query is answered.
QueryReturns ==
  /\ queries > 0
  /\ step \in session
  /\ step \in Probes => step \in slot
  /\ IF queries > 1
       THEN queries' = queries - 1 /\ UNCHANGED <<step, walfeed, physical, sock>>
       ELSE Leaves("ok")
  /\ UNCHANGED <<can, plugin, session, slot>>

\* A query raises (or IDENTIFY_SYSTEM returns no row), or the connection is lost.
QueryRaises ==
  /\ queries > 0
  /\ Leaves("failed")
  /\ UNCHANGED <<can, plugin, session, slot>>

\* CREATE_REPLICATION_SLOT raises 58P01.
PluginIsMissing ==
  /\ queries > 0
  /\ step \in Probes /\ step \in session
  /\ can.logical /\ Named(step) \notin can.plugins
  /\ Leaves("missing")
  /\ UNCHANGED <<can, plugin, session, slot>>

\* Ctrl-C: asyncio.run cancels the task.
Interrupt ==
  /\ step \in Steps
  /\ step' = "interrupted"
  /\ queries' = 0
  /\ sock' = StaysOpen("interrupted")
  /\ UNCHANGED <<can, plugin, walfeed, physical, session, slot>>

\* The recommendation, "none" if there is none; the command exits with 1 then.
Recommended ==
  IF walfeed \in {"ok", "fallback"} THEN "WalFeed"
  ELSE IF physical = "ok" THEN "RawFeed" ELSE "none"

------------------------------------------------------------------------------
\* The server (external).

\* A session takes its time to create the slot it was asked for, even if nobody is
\* waiting for it any more.
SlotCreated(s) ==
  /\ s \in session \ slot
  /\ can.logical /\ Named(s) \in can.plugins
  /\ slot' = slot \cup {s}
  /\ UNCHANGED <<can, plugin, step, queries, walfeed, physical, sock, session>>

\* The slots a session takes with it: temporary ones.
DropsSlot(s) == {s}

\* A session finds its connection gone, or is terminated.
BackendExits(s) ==
  /\ s \in session
  /\ session' = session \ {s}
  /\ slot' = slot \ DropsSlot(s)
  /\ UNCHANGED <<can, plugin, step, queries, walfeed, physical, sock>>

\* The session's client has closed its end.
Abandoned(s) == s # step \/ ~sock

DoctorNext ==
  \/ Connects \/ ConnectRaises
  \/ QueryReturns \/ QueryRaises \/ PluginIsMissing
  \/ Interrupt
  \/ \E s \in Probes : SlotCreated(s)
  \/ \E s \in Steps : BackendExits(s)

DoctorSpec == DoctorInit /\ [][DoctorNext]_doctorVars

\* connect() ends (Walsender), a query is answered or raises, and the server notices that
\* a client has gone.
DoctorFairSpec ==
  /\ DoctorSpec
  /\ WF_doctorVars(Connects \/ ConnectRaises)
  /\ WF_doctorVars(QueryReturns \/ QueryRaises \/ PluginIsMissing)
  /\ \A s \in Steps : WF_doctorVars(Abandoned(s) /\ BackendExits(s))

------------------------------------------------------------------------------
\* The types of the variables; a slot belongs to a session.
DoctorTypeOK ==
  /\ can \in [plugins : SUBSET Plugin, logical : BOOLEAN, physical : BOOLEAN]
  /\ plugin \in Plugin
  /\ step \in Steps \cup Ended
  /\ queries \in 0..4
  /\ walfeed \in {"none", "ok", "fallback", "failed"}
  /\ physical \in {"none", "ok", "failed"}
  /\ sock \in BOOLEAN
  /\ session \subseteq Steps
  /\ slot \subseteq session \cap Probes

\* The transport recommended works on this server, and WalFeed with the plugin reported
\* (diagnose: "runs the real handshakes rather than guessing").
RecommendsWhatWorks ==
  step = "done" =>
    /\ Recommended = "WalFeed" =>
         can.logical /\ (IF walfeed = "ok" THEN plugin ELSE Fallback) \in can.plugins
    /\ Recommended = "RawFeed" => can.physical

\* "not installed" is only said of a plugin that is not: a slot refused for any other
\* reason is not blamed on the plugin.
BlamesThePluginRightly == walfeed = "fallback" => plugin \notin can.plugins

\* The inductive invariant.  What a probe found is so.
FoundIsSo ==
  /\ walfeed = "ok" => can.logical /\ plugin \in can.plugins
  /\ walfeed = "fallback" => can.logical /\ Fallback \in can.plugins
  /\ physical = "ok" => can.physical

\* The built-in plugin is tried for want of the other, and for nothing else.
FallbackIsForWant == step = "fallback" \/ walfeed = "fallback" => plugin \notin can.plugins

\* A slot is the server's word that it can decode with the plugin.
SlotsAreGranted == \A s \in slot : can.logical /\ Named(s) \in can.plugins

\* A physical walsender was let in.
LetIn == step = "physical" /\ queries > 0 => can.physical

DoctorIInv == DoctorTypeOK /\ FoundIsSo /\ FallbackIsForWant /\ SlotsAreGranted /\ LetIn

\* It ends, and however it does, interrupted in the middle of a probe included, the server
\* is left without a session and without a slot ("doctor leaves nothing behind").
LeavesNothingBehind == <>[](step \in Ended /\ session = {} /\ slot = {} /\ ~sock)

\* "Each probe failure becomes a diagnostic line; nothing here raises to the caller": the
\* four queries of the plain connection are not covered.
NeverRaises == step # "raised"
==============================================================================
