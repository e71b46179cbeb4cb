----------------------------- MODULE CliSession -----------------------------
(***************************************************************************)
(* The saved sign-in of the `waveform` command line client: the session    *)
(* file of one profile, the lock around it (cli/src/session.rs), and the   *)
(* commands that use, rotate, replace and remove it (cli/src/auth.rs), run *)
(* by any number of processes at once, over the sign-in client             *)
(* (client/src/signin.rs).                                                 *)
(*                                                                         *)
(* Silicon Accounts is external: a sign-in is a family of refresh tokens;  *)
(* presenting the newest rotates it, presenting an older one ends the      *)
(* whole family.  Any answer may be lost, and a process may die at any     *)
(* moment, which frees its lock.                                           *)
(***************************************************************************)
EXTENDS Naturals, FiniteSets

CONSTANTS
    Processes,  \* places where a `waveform` command can run
    People,     \* accounts of Silicon Accounts
    Families,   \* sign-ins that may be made
    MaxGen,     \* bound on the rotations of a sign-in
    None,       \* Rust's None
    Missing,    \* Loaded::Missing
    Unreadable  \* Loaded::Unreadable

ASSUME CliAssumption ==
    /\ IsFiniteSet(Families)
    /\ MaxGen \in Nat \ {0}
    /\ None \notin People \cup Families \cup Processes
    /\ Missing # Unreadable
    /\ {None, Missing, Unreadable} \cap [fam : Families, gen : 1 .. MaxGen] = {}

VARIABLES
    file,       \* the session file: a session, Missing or Unreadable
    lock,       \* the process that holds the sign-in lock, or None
    grants,     \* what Silicon Accounts knows of each sign-in
    due,        \* the newest token of each sign-in that needs a refresh
    over,       \* sign-ins whose refresh_expires_at has passed
    cmds,       \* the command each process runs
    lost,       \* live sign-ins with a rotation whose tokens were never saved
    astray      \* live sign-ins the client gave up without ending them

sessionVars == <<file, lock, grants, due, over, cmds, lost, astray>>

Kinds == {"call", "status", "refresh", "login", "logout"}

\* One generation of a sign-in's tokens, as StoredSession or Tokens.
Sessions == [fam : Families, gen : 1 .. MaxGen]

\* look      the command's own first load      load     ensure_fresh begins
\* lock      waiting for the lock              present  the refresh is sent
\* answer    rotated, the tokens on their way  op       Waveform is asked
\* poll      the device flow                   exchange the SLT is exchanged
\* retire    the old sign-in is ended          revoke   logout revokes
\* remember  remember_account
Pcs == {"idle", "look", "load", "lock", "present", "answer", "op", "poll", "exchange",
        "retire", "remember", "revoke"}

\* cur: the session in hand; refused: the one whose access token Waveform
\* refused as stale; again: the call is being repeated.
Idle == [pc |-> "idle", kind |-> "call", cur |-> None, refused |-> None, again |-> FALSE]

Commands == [pc : Pcs, kind : Kinds, cur : Sessions \cup {None},
             refused : Sessions \cup {None}, again : BOOLEAN]

\* The file, the grants and the commands keep their shape.
SessionTypeOK ==
    /\ file \in Sessions \cup {Missing, Unreadable}
    /\ lock \in Processes \cup {None}
    /\ grants \in [Families -> [owner : People \cup {None}, gen : 0 .. MaxGen,
                                state : {"unused", "live", "ended"}]]
    /\ due \in [Families -> 0 .. MaxGen]
    /\ over \subseteq Families
    /\ cmds \in [Processes -> Commands]
    /\ lost \subseteq Families
    /\ astray \subseteq Families

SessionInit ==
    /\ file = Missing
    /\ lock = None
    /\ grants = [f \in Families |-> [owner |-> None, gen |-> 0, state |-> "unused"]]
    /\ due = [f \in Families |-> 0]
    /\ over = {}
    /\ cmds = [p \in Processes |-> Idle]
    /\ lost = {}
    /\ astray = {}

Owner(s) == grants[s.fam].owner
At(p, pc) == cmds[p].pc = pc
Saved == file \notin {Missing, Unreadable}

\* StoredSession::needs_refresh and StoredSession::ended.
NeedsRefresh(s) == s.gen <= due[s.fam]
Ended(s) == s.fam \in over

\* The sign-in of a session, as long as it is live.
LiveOf(s) == {f \in {s.fam} : grants[f].state = "live"}

Finish(p) == cmds' = [cmds EXCEPT ![p] = Idle]
Move(p, pc) == cmds' = [cmds EXCEPT ![p].pc = pc]
Hold(p, pc, s) ==
    cmds' = [cmds EXCEPT ![p].pc = pc, ![p].cur = s,
                         ![p].refused = IF pc = "lock" THEN @ ELSE None]

accountsVars == <<grants, due, over>>

\* A sign-in ends at Silicon Accounts; what was lost of it no longer matters.
EndGrant(f) ==
    /\ grants' = [grants EXCEPT ![f].state = "ended"]
    /\ lost' = lost \ {f}
    /\ astray' = astray \ {f}
-----------------------------------------------------------------------------
(***************************************************************************)
(* Commands begin                                                          *)
(***************************************************************************)

\* A login is given a short-lived token (read_slt), or polls as a device.
FirstSteps(kind) ==
    CASE kind = "call" -> {"load"} [] kind = "login" -> {"poll", "exchange"} [] OTHER -> {"look"}

Start(p, kind) ==
    /\ At(p, "idle")
    /\ \E pc \in FirstSteps(kind) :
         cmds' = [cmds EXCEPT ![p] = [Idle EXCEPT !.kind = kind, !.pc = pc]]
    /\ UNCHANGED <<file, lock, accountsVars, lost, astray>>

\* status, refresh and logout load the file before anything else.
Look(p) ==
    /\ At(p, "look")
    /\ CASE file = Missing -> Finish(p)
         [] file = Unreadable -> IF cmds[p].kind = "logout" THEN Move(p, "lock") ELSE Finish(p)
         [] OTHER ->
              CASE cmds[p].kind = "status" ->
                     \/ Finish(p)
                     \/ ~Ended(file) /\ Move(p, "load")
                [] cmds[p].kind = "refresh" ->
                     cmds' = [cmds EXCEPT ![p].pc = "load", ![p].refused = file]
                [] cmds[p].kind = "logout" -> Move(p, "lock")
    /\ UNCHANGED <<file, lock, accountsVars, lost, astray>>
-----------------------------------------------------------------------------
(***************************************************************************)
(* ensure_fresh                                                            *)
(***************************************************************************)

\* What follows ensure_fresh: the call, or the end of `waveform refresh`.
Use(p, s) == IF cmds[p].kind = "refresh" THEN Finish(p) ELSE Hold(p, "op", s)

\* The first load, without the lock.
Load(p) ==
    /\ At(p, "load")
    /\ IF ~Saved \/ Ended(file) THEN Finish(p)
       ELSE IF cmds[p].refused = None /\ ~NeedsRefresh(file) THEN Use(p, file)
       ELSE Hold(p, "lock", file)
    /\ UNCHANGED <<file, lock, accountsVars, lost, astray>>

\* Whether another process has refreshed in the meantime.
SomeoneElseRefreshed(p, latest) ==
    /\ cmds[p].refused # None => latest # cmds[p].refused
    /\ ~NeedsRefresh(latest)

\* Faulty variant: under the lock the session read before is refreshed.
RecheckStale(p) ==
    /\ Hold(p, "present", cmds[p].cur)
    /\ lock' = p

\* Under the lock the file is loaded again.  On return the lock is dropped;
\* it is kept only for the refresh.
Recheck(p) ==
    \/ /\ ~Saved \/ (Saved /\ Owner(file) # Owner(cmds[p].cur))
       /\ Finish(p)
       /\ UNCHANGED lock
    \/ /\ Saved /\ Owner(file) = Owner(cmds[p].cur)
       /\ SomeoneElseRefreshed(p, file)
       /\ Use(p, file)
       /\ UNCHANGED lock
    \/ /\ Saved /\ Owner(file) = Owner(cmds[p].cur)
       /\ ~SomeoneElseRefreshed(p, file)
       /\ Hold(p, "present", file)
       /\ lock' = p

LockToRefresh(p) ==
    /\ At(p, "lock") /\ cmds[p].kind \in {"call", "status", "refresh"}
    /\ lock = None
    /\ Recheck(p)
    /\ UNCHANGED <<file, accountsVars, lost, astray>>

\* SessionStore::lock gives up after 30 seconds; a login then drops the tokens
\* it has just been given, remember_account only returns.
LockTimesOut(p) ==
    /\ cmds[p].pc \in {"lock", "remember"}
    /\ lock \notin {None, p}
    /\ astray' = astray \cup (IF cmds[p].kind = "login" THEN LiveOf(cmds[p].cur) ELSE {})
    /\ Finish(p)
    /\ UNCHANGED <<file, lock, accountsVars, lost>>
-----------------------------------------------------------------------------
(***************************************************************************)
(* Silicon Accounts                                                        *)
(***************************************************************************)

\* The newest refresh token is rotated.
Rotate(p) ==
    LET s == cmds[p].cur IN
    /\ At(p, "present")
    /\ grants[s.fam].state = "live" /\ s.gen = grants[s.fam].gen /\ s.gen < MaxGen
    /\ grants' = [grants EXCEPT ![s.fam].gen = @ + 1]
    /\ Hold(p, "answer", [s EXCEPT !.gen = @ + 1])
    /\ UNCHANGED <<file, lock, due, over, lost, astray>>

\* Refused with invalid_grant: the sign-in is over, or is ended because this
\* token had been used before.  The file is removed when it still holds it.
RefreshRefused(p) ==
    LET s == cmds[p].cur IN
    /\ At(p, "present")
    /\ grants[s.fam].state = "ended" \/ s.gen < grants[s.fam].gen
    /\ EndGrant(s.fam)
    /\ file' = IF file = s THEN Missing ELSE file
    /\ lock' = None
    /\ Finish(p)
    /\ UNCHANGED <<due, over>>

\* Unreachable, 5xx or 429 before the token was used.
RefreshFails(p) ==
    /\ At(p, "present")
    /\ lock' = None
    /\ Finish(p)
    /\ UNCHANGED <<file, accountsVars, lost, astray>>

\* An access token gets within 60 seconds of its end.
TokenAges(f) ==
    /\ due[f] < grants[f].gen
    /\ due' = [due EXCEPT ![f] = @ + 1]
    /\ UNCHANGED <<file, lock, grants, over, cmds, lost, astray>>

\* A sign-in reaches the end of its refresh lifetime, or is ended elsewhere.
GrantEnds(f) ==
    /\ grants[f].state = "live"
    /\ EndGrant(f)
    /\ over' \in {over, over \cup {f}}
    /\ UNCHANGED <<file, lock, due, cmds>>
-----------------------------------------------------------------------------
(***************************************************************************)
(* The rotated tokens and the call                                         *)
(***************************************************************************)

\* SessionStore::save (write_private renames a complete file into place).
RotatedSaved(p) ==
    /\ At(p, "answer")
    /\ file' = cmds[p].cur
    /\ lock' = None
    /\ Use(p, cmds[p].cur)
    /\ UNCHANGED <<accountsVars, lost, astray>>

\* The answer never arrives or cannot be read, or the save fails.
RotatedLost(p) ==
    /\ At(p, "answer")
    /\ lost' = lost \cup LiveOf(cmds[p].cur)
    /\ lock' = None
    /\ Finish(p)
    /\ UNCHANGED <<file, accountsVars, astray>>

\* call_with_session: Waveform answers.
Answered(p) ==
    /\ At(p, "op")
    /\ \/ Finish(p)
       \/ cmds[p].kind = "status" /\ Move(p, "remember")
    /\ UNCHANGED <<file, lock, accountsVars, lost, astray>>

\* A stale credential: refreshed once, repeated once.
Stale(p) ==
    /\ At(p, "op") /\ ~cmds[p].again
    /\ cmds' = [cmds EXCEPT ![p].pc = "load", ![p].again = TRUE,
                            ![p].refused = cmds[p].cur, ![p].cur = None]
    /\ UNCHANGED <<file, lock, accountsVars, lost, astray>>

\* Faulty variant: the session of the call is saved.
RememberOld(p) == file' = cmds[p].cur

\* remember_account: the latest tokens with the account's new id and name,
\* when the file still holds a sign-in of that account.
RememberLatest(p) == file' = file

Remember(p) ==
    /\ At(p, "remember")
    /\ lock = None
    /\ RememberLatest(p)
    /\ Finish(p)
    /\ UNCHANGED <<lock, accountsVars, lost, astray>>
-----------------------------------------------------------------------------
(***************************************************************************)
(* login and logout                                                        *)
(***************************************************************************)

\* A new sign-in of somebody, in the hands of p.
SignedIn(p, f, who) ==
    /\ grants[f].state = "unused"
    /\ grants' = [grants EXCEPT ![f] = [owner |-> who, gen |-> 1, state |-> "live"]]
    /\ Hold(p, "lock", [fam |-> f, gen |-> 1])
    /\ UNCHANGED <<file, lock, due, over, lost, astray>>

\* wait_for_device: a poll is answered with the tokens.  Pending, slow_down and
\* passing failures leave the command polling.
DeviceApproved(p, f, who) == At(p, "poll") /\ SignedIn(p, f, who)

SltExchanged(p, f, who) == At(p, "exchange") /\ SignedIn(p, f, who)

\* The sign-in is made, and its answer lost: the code or token is used up.
SignInLost(p, f, who) ==
    /\ cmds[p].pc \in {"poll", "exchange"}
    /\ grants[f].state = "unused"
    /\ grants' = [grants EXCEPT ![f] = [owner |-> who, gen |-> 1, state |-> "live"]]
    /\ astray' = astray \cup {f}
    /\ Finish(p)
    /\ UNCHANGED <<file, lock, due, over, lost>>

\* Denied or expired, refused, or never started.
DeviceFails(p) ==
    /\ At(p, "poll")
    /\ Finish(p)
    /\ UNCHANGED <<file, lock, accountsVars, lost, astray>>

SltRefused(p) ==
    /\ At(p, "exchange")
    /\ Finish(p)
    /\ UNCHANGED <<file, lock, accountsVars, lost, astray>>

\* Faulty variant: only a sign-in of the same account is replaced.
PreviousOfSameAccount(p) ==
    IF Saved /\ Owner(file) = Owner(cmds[p].cur) THEN file ELSE None

\* The sign-in that a login finds in the file.
Previous(p) == IF Saved THEN file ELSE None

\* Under the lock the previous sign-in is read and the new one saved.  An
\* unreadable file is replaced as it is.
Replace(p) ==
    /\ At(p, "lock") /\ cmds[p].kind = "login"
    /\ lock = None
    /\ file' = cmds[p].cur
    /\ IF Previous(p) = None THEN Finish(p) ELSE Hold(p, "retire", Previous(p))
    /\ UNCHANGED <<lock, accountsVars, lost, astray>>

ReplaceFails(p) ==
    /\ At(p, "lock") /\ cmds[p].kind = "login"
    /\ lock = None
    /\ astray' = astray \cup LiveOf(cmds[p].cur)
    /\ Finish(p)
    /\ UNCHANGED <<file, lock, accountsVars, lost>>

LockToLogout(p) ==
    /\ At(p, "lock") /\ cmds[p].kind = "logout"
    /\ lock = None
    /\ IF Saved
       THEN Hold(p, "revoke", file) /\ lock' = p /\ UNCHANGED file
       ELSE file' = Missing /\ Finish(p) /\ UNCHANGED lock
    /\ UNCHANGED <<accountsVars, lost, astray>>

\* The revocation arrives; logout also removes the file.
Revoked(p) ==
    /\ cmds[p].pc \in {"retire", "revoke"}
    /\ EndGrant(cmds[p].cur.fam)
    /\ IF At(p, "revoke") THEN file' = Missing /\ lock' = None ELSE UNCHANGED <<file, lock>>
    /\ Finish(p)
    /\ UNCHANGED <<due, over>>

\* It fails: both commands warn and go on.
RevokeFails(p) ==
    /\ cmds[p].pc \in {"retire", "revoke"}
    /\ astray' = astray \cup LiveOf(cmds[p].cur)
    /\ IF At(p, "revoke") THEN file' = Missing /\ lock' = None ELSE UNCHANGED <<file, lock>>
    /\ Finish(p)
    /\ UNCHANGED <<accountsVars, lost>>

\* The process is killed; the operating system frees its lock.
Die(p) ==
    /\ ~At(p, "idle")
    /\ lost' = lost \cup (IF At(p, "answer") THEN LiveOf(cmds[p].cur) ELSE {})
    /\ astray' = astray \cup
         (IF cmds[p].kind = "login" /\ cmds[p].pc \in {"lock", "retire"} THEN LiveOf(cmds[p].cur) ELSE {})
    /\ lock' = IF lock = p THEN None ELSE lock
    /\ Finish(p)
    /\ UNCHANGED <<file, accountsVars>>

\* The file is damaged from outside; what it held is out of reach.
Damage ==
    /\ Saved
    /\ file' = Unreadable
    /\ astray' = astray \cup LiveOf(file)
    /\ UNCHANGED <<lock, accountsVars, cmds, lost>>
-----------------------------------------------------------------------------
Step(p) ==
    \/ \E kind \in Kinds : Start(p, kind)
    \/ Look(p) \/ Load(p) \/ LockToRefresh(p) \/ LockTimesOut(p)
    \/ Rotate(p) \/ RefreshRefused(p) \/ RefreshFails(p)
    \/ RotatedSaved(p) \/ RotatedLost(p)
    \/ Answered(p) \/ Stale(p) \/ Remember(p)
    \/ \E f \in Families, who \in People :
          DeviceApproved(p, f, who) \/ SltExchanged(p, f, who) \/ SignInLost(p, f, who)
    \/ DeviceFails(p) \/ SltRefused(p)
    \/ Replace(p) \/ ReplaceFails(p)
    \/ LockToLogout(p) \/ Revoked(p) \/ RevokeFails(p)
    \/ Die(p)

SessionNext ==
    \/ \E p \in Processes : Step(p)
    \/ \E f \in Families : TokenAges(f) \/ GrantEnds(f)
    \/ Damage

SessionSpec == SessionInit /\ [][SessionNext]_sessionVars
-----------------------------------------------------------------------------
(***************************************************************************)
(* Properties                                                              *)
(***************************************************************************)

\* "Another process may have refreshed while this one waited for the lock: its
\* result is used, never refreshed twice" (ensure_fresh): a command presents the
\* newest refresh token of a live sign-in, since an older one ends the whole
\* sign-in, unless the tokens of a rotation never reached the file.
NeverRefreshedTwice ==
    \A p \in Processes : At(p, "present") =>
        LET s == cmds[p].cur IN
        grants[s.fam].state = "live" /\ s.gen < grants[s.fam].gen => s.fam \in lost

\* A sign-in that is live at Silicon Accounts is the saved one or in the hand
\* of a command that will save or end it; anything else was lost with an
\* answer, a process or the file, or could not be revoked (login, logout).
NoStraySignIn ==
    \A f \in Families \ astray : grants[f].state = "live" =>
        \/ Saved /\ file.fam = f
        \/ \E p \in Processes :
              /\ cmds[p].pc \in {"answer", "retire"} \/ (At(p, "lock") /\ cmds[p].kind = "login")
              /\ cmds[p].cur.fam = f

\* After `logout`, or once a sign-in has ended, only a login writes the file:
\* no refresh or status that began before brings the sign-in back.
SignedOutStaysOut ==
    [][file = Missing /\ file' # Missing =>
         \E p \in Processes : cmds[p].kind = "login" /\ cmds[p].pc = "lock"]_sessionVars
=============================================================================
