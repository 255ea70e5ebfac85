----------------------------- MODULE Installer -----------------------------
(***************************************************************************)
(* deploy/macos/install.py and deploy/debian/install.py: apply makes an    *)
(* installation step by step beside a journal of it, rollback takes it     *)
(* away. Either may raise or be killed between any two steps. Others may   *)
(* put things of theirs in place of what is missing or was replaced.       *)
(***************************************************************************)
EXTENDS Naturals, Sequences, FiniteSets

VARIABLES
    host,      \* "mac" or "debian"
    script,    \* "none", "apply" or "rollback"
    pc,        \* the script's next step
    owner,     \* whose each thing is: "none", "ours", "foreign", or "unmarked": foreign,
               \* but nothing that Debian's rollback looks at tells it from ours
    enabled,   \* the service is started at boot
    loaded,    \* the service is started
    stuck,     \* systemctl disable failed, and rollback went on without it
    journal,   \* installation.json, which is in the base directory
    value      \* the tracked things the script has in memory

ivars == <<host, script, pc, owner, enabled, loaded, stuck, journal, value>>

Dirs == {"config", "state", "agent"}

Files == {"unit", "wrapper"}

Things == {"base", "group", "user", "plist"} \cup Dirs \cup Files

NoJournal == [present |-> FALSE, status |-> "none", tracked |-> {}]

Do(act, thing) == [act |-> act, thing |-> thing]

\* What is made outside of the base directory, in order. `track' enters it in the journal.
MacSteps ==
    << Do("make", "base"), Do("journal", "installing"), Do("make", "group"), Do("make", "user"),
       Do("make", "plist"), Do("track", "plist"), Do("start", "service"), Do("verify", "service"),
       Do("journal", "installed") >>

\* Mutant: the hashes are written down after the files.
DebianStepsLate ==
    << Do("make", "base"), Do("journal", "installing"), Do("make", "group"), Do("make", "user"),
       Do("make", "config"), Do("track", "config"), Do("make", "state"), Do("track", "state"),
       Do("make", "agent"), Do("track", "agent"), Do("make", "unit"), Do("track", "unit"),
       Do("make", "wrapper"), Do("track", "wrapper"), Do("start", "service"), Do("verify", "service"),
       Do("journal", "installed") >>

DebianSteps ==
    << Do("make", "base"), Do("journal", "installing"), Do("make", "group"), Do("make", "user"),
       Do("make", "config"), Do("track", "config"), Do("make", "state"), Do("track", "state"),
       Do("make", "agent"), Do("track", "agent"), Do("track", "unit"), Do("make", "unit"),
       Do("track", "wrapper"), Do("make", "wrapper"), Do("start", "service"), Do("verify", "service"),
       Do("journal", "installed") >>

ApplySteps == IF host = "mac" THEN MacSteps ELSE DebianSteps

MacRemovals ==
    << Do("stop", "service"), Do("remove", "plist"), Do("remove", "user"), Do("remove", "group"),
       Do("empty", "base"), Do("remove", "base") >>

\* Of directories and files what is tracked. The journal goes with the base.
DebianRemovals ==
    << Do("stop", "service"), Do("remove", "user"), Do("remove", "group"), Do("unlink", "service"),
       Do("remove", "config"), Do("remove", "state"), Do("remove", "agent"), Do("remove", "unit"),
       Do("remove", "wrapper"), Do("empty", "base"), Do("remove", "base") >>

RollbackSteps == IF host = "mac" THEN MacRemovals ELSE DebianRemovals

InstallerInit ==
    /\ host \in {"mac", "debian"}
    /\ script = "none" /\ pc = 1
    /\ owner = [t \in Things |-> "none"]
    /\ enabled = FALSE /\ loaded = FALSE /\ stuck = FALSE
    /\ journal = NoJournal /\ value = {}

End == script' = "none" /\ pc' = 1 /\ value' = {}

-----------------------------------------------------------------------------
(* apply *)

\* preflight: nothing of it is there.
MacFree == (\A t \in {"base", "plist", "user", "group"} : owner[t] = "none") /\ ~loaded

DebianFree == (\A t \in {"base", "user", "group"} \cup Dirs \cup Files : owner[t] = "none") /\ ~loaded

Apply ==
    /\ script = "none"
    /\ IF host = "mac" THEN MacFree ELSE DebianFree
    /\ script' = "apply"
    /\ UNCHANGED <<host, pc, owner, enabled, loaded, stuck, journal, value>>

Write(status, tracked) == journal' = [present |-> TRUE, status |-> status, tracked |-> tracked]

Make(t) ==
    /\ owner[t] = "none"
    /\ owner' = [owner EXCEPT ![t] = "ours"]
    /\ enabled' = (enabled \/ t = "plist")
    /\ UNCHANGED <<loaded, journal, value>>

Track(t) ==
    /\ value' = value \cup {t}
    /\ Write(IF host = "mac" THEN "starting" ELSE "installing", value')
    /\ UNCHANGED <<owner, enabled, loaded>>

Start ==
    /\ enabled' = TRUE /\ loaded' = TRUE
    /\ UNCHANGED <<owner, journal, value>>

\* The account and the service are what they should be.
MacVerified == owner["user"] = "ours" /\ owner["group"] = "ours" /\ loaded

DebianVerified == owner["user"] = "ours" /\ enabled /\ loaded

Verify ==
    /\ IF host = "mac" THEN MacVerified ELSE DebianVerified
    /\ UNCHANGED <<owner, enabled, loaded, journal, value>>

Advance(steps) == IF pc < Len(steps) THEN pc' = pc + 1 /\ UNCHANGED script
                                     ELSE pc' = 1 /\ script' = "none"

ApplyStep ==
    LET step == ApplySteps[pc] IN
    /\ script = "apply"
    /\ \/ step.act = "make" /\ Make(step.thing)
       \/ step.act = "track" /\ Track(step.thing)
       \/ step.act = "start" /\ Start
       \/ step.act = "verify" /\ Verify
       \/ step.act = "journal" /\ Write(step.thing, value) /\ UNCHANGED <<owner, enabled, loaded, value>>
    /\ Advance(ApplySteps)
    /\ UNCHANGED <<host, stuck>>

\* Before the try there is nobody to catch it. Then the Mac rolls back, and Debian notes it.
ApplyRaises ==
    /\ script = "apply"
    /\ \/ pc <= 2 /\ End /\ UNCHANGED journal
       \/ pc > 2 /\ host = "mac" /\ script' = "rollback" /\ pc' = 1 /\ UNCHANGED <<value, journal>>
       \/ pc > 2 /\ host = "debian" /\ End /\ Write("incomplete", value)
    /\ UNCHANGED <<host, owner, enabled, loaded, stuck>>

-----------------------------------------------------------------------------
(* rollback; recover is a rollback followed by an apply *)

\* By their GeneratedUID, and the hash of the plist once it is noted.
MacOurs(tracked) ==
    \A t \in {"user", "group"} \cup (tracked \cap {"plist"}) : owner[t] # "foreign"

\* Mutant: only the files are compared, not the account.
DebianOursFiles(tracked) ==
    /\ \A t \in tracked \cap (Files \cup {"agent"}) : owner[t] # "foreign"
    /\ owner["unit"] # "none" => "unit" \in tracked

\* By their identity, hash or marker, a directory without a marker being taken for
\* ours, and a group by its number. A unit nobody tracked is refused.
DebianOurs(tracked) ==
    /\ \A t \in {"user", "group"} \cup (tracked \cap (Files \cup {"agent"})) : owner[t] # "foreign"
    /\ owner["unit"] # "none" => "unit" \in tracked

Rollback ==
    /\ script = "none"
    /\ owner["base"] = "ours" /\ journal.present
    /\ IF host = "mac" THEN MacOurs(journal.tracked) ELSE DebianOurs(journal.tracked)
    /\ script' = "rollback"
    /\ value' = journal.tracked
    /\ UNCHANGED <<host, pc, owner, enabled, loaded, stuck, journal>>

\* Mutant: the service is stopped but still starts at boot.
StopOnly == loaded' = FALSE /\ UNCHANGED <<owner, enabled, stuck, journal>>

\* bootout; disable --now, which may fail, but then the service must not be active.
Stop ==
    /\ loaded' = FALSE
    /\ \/ enabled' = (enabled /\ host = "mac") /\ stuck' = FALSE
       \/ host = "debian" /\ ~loaded /\ enabled' = enabled /\ stuck' = enabled
    /\ UNCHANGED <<owner, journal>>

\* The link that starts the unit at boot is removed in any case, after the account.
Unlink ==
    /\ enabled' = FALSE /\ stuck' = FALSE
    /\ UNCHANGED <<owner, loaded, journal>>

Removes(t) == t \in {"base", "user", "group", "plist"} \/ t \in value

Remove(t) ==
    /\ owner' = IF Removes(t) THEN [owner EXCEPT ![t] = "none"] ELSE owner
    /\ enabled' = (enabled /\ t # "plist")
    /\ journal' = IF t = "base" THEN NoJournal ELSE journal
    /\ UNCHANGED <<loaded, stuck>>

\* rmtree may come to the journal at any time before it is through.
Empty ==
    /\ \/ journal' = NoJournal
       \/ UNCHANGED journal
    /\ UNCHANGED <<owner, enabled, loaded, stuck>>

RollbackStep ==
    LET step == RollbackSteps[pc] IN
    /\ script = "rollback"
    /\ \/ step.act = "stop" /\ Stop
       \/ step.act = "remove" /\ Remove(step.thing)
       \/ step.act = "unlink" /\ Unlink
       \/ step.act = "empty" /\ Empty
    /\ Advance(RollbackSteps)
    /\ value' = IF pc = Len(RollbackSteps) THEN {} ELSE value
    /\ UNCHANGED host

RollbackRaises ==
    /\ script = "rollback"
    /\ End
    /\ UNCHANGED <<host, owner, enabled, loaded, stuck, journal>>

-----------------------------------------------------------------------------
(* The machine and others *)

Kill ==
    /\ script # "none"
    /\ End
    /\ UNCHANGED <<host, owner, enabled, loaded, stuck, journal>>

\* launchd and systemd start what is enabled.
Boot ==
    /\ script = "none"
    /\ loaded' = enabled
    /\ UNCHANGED <<host, script, pc, owner, enabled, stuck, journal, value>>

\* systemctl stop, or it ends and is not started again.
Halt ==
    /\ host = "debian" /\ loaded
    /\ loaded' = FALSE
    /\ UNCHANGED <<host, script, pc, owner, enabled, stuck, journal, value>>

\* Somebody's own account where there is none, or wrapper or client directory, in place of
\* ours too. A group with the number of ours, and a directory without a marker, are unmarked.
Intrude ==
    /\ script = "none"
    /\ \E t \in {"user", "group", "wrapper", "agent"}, whose \in {"foreign", "unmarked"} :
         /\ t \in {"user", "group"} => owner[t] = "none"
         /\ t \in {"wrapper", "agent"} => host = "debian"
         /\ whose = "unmarked" => host = "debian" /\ t \in {"group", "agent"}
         /\ owner' = [owner EXCEPT ![t] = whose]
    /\ UNCHANGED <<host, script, pc, enabled, loaded, stuck, journal, value>>

InstallerNext ==
    \/ Apply \/ ApplyStep \/ ApplyRaises
    \/ Rollback \/ RollbackStep \/ RollbackRaises
    \/ Kill \/ Boot \/ Halt \/ Intrude

-----------------------------------------------------------------------------
(* Properties *)

Left == {t \in Things \ {"base"} : owner[t] = "ours"}

(* The base directory, and the journal in it, goes last: then nothing else  *)
(* of the installation is left, but for a directory whose making and whose *)
(* entry in the journal a failure came between (debian/install.py:181-184).*)
BaseLast ==
    [][owner["base"] = "ours" /\ owner'["base"] = "none" =>
         Left \subseteq Dirs /\ Cardinality(Left) <= 1]_ivars

(* Neither script takes away what is not of the installation               *)
(* (debian/install.py:315), with two exceptions: Debian's rollback deletes *)
(* somebody's client directory in place of the one it made if there is no  *)
(* installation-id in it (283), and a group with the number of ours (264). *)
(* docs/debian-setup.md:138-139 says that it refuses replaced identities.  *)
TakenForOurs(t) ==
    /\ host = "debian" /\ script = "rollback" /\ owner[t] = "unmarked"
    /\ t = "group" \/ (t = "agent" /\ t \in value)

ForeignKept ==
    [][\A t \in Things :
         owner[t] \in {"foreign", "unmarked"} => owner'[t] \in {"foreign", "unmarked"} \/ TakenForOurs(t)]_ivars

(* The service is never started without its account or its base directory, *)
(* also when the machine is booted in the middle of a rollback; unless     *)
(* systemctl could not disable it there, which rollback does not look at   *)
(* (debian/install.py:285).                                                *)
ServiceWhole == loaded /\ ~stuck => \A t \in {"base", "user", "group"} : owner[t] = "ours"
=============================================================================
