----------------------------- MODULE CliTheorems -----------------------------
(***************************************************************************)
(* What the session file and its lock promise to the commands of the       *)
(* `waveform` client, for any number of processes, people and sign-ins:    *)
(* no refresh token is presented twice, no sign-in goes astray unnoticed,  *)
(* and a signed-out client stays signed out.                               *)
(***************************************************************************)
EXTENDS CliSession, TLAPS

\* The places of the process that holds the lock.
Holding == {"present", "answer", "revoke"}

\* A login with a new sign-in in hand that is not in the file yet.
BringsNew(p) == cmds[p].pc = "lock" /\ cmds[p].kind = "login"

\* The commands whose sign-in the invariant speaks of.
InHand(p) == cmds[p].pc \in Holding \/ BringsNew(p)

\* The lock is with exactly the process that is past it.
LockFits == \A p \in Processes : lock = p <=> cmds[p].pc \in Holding

\* Which commands are where, and where they have a session in hand.
CommandFits(cmd) ==
    /\ cmd.pc \in {"poll", "exchange", "retire"} => cmd.kind = "login"
    /\ cmd.pc \in {"idle", "load", "op", "remember"} \cup Holding => cmd.kind # "login"
    /\ cmd.pc = "look" => cmd.kind \in {"status", "refresh", "logout"}
    /\ cmd.pc \in Holding \cup {"retire"} => cmd.cur # None
    /\ cmd.pc = "lock" /\ cmd.kind # "logout" => cmd.cur # None

CommandsFit == \A p \in Processes : CommandFits(cmds[p])

\* The file holds a sign-in that was made; unless its rotated tokens are lost
\* or on their way to the file, they are the newest.
FileFits ==
    Saved =>
      /\ grants[file.fam].state # "unused"
      /\ \/ file.gen = grants[file.fam].gen
         \/ grants[file.fam].state # "live"
         \/ file.fam \in lost
         \/ \E p \in Processes : cmds[p].pc = "answer" /\ cmds[p].cur.fam = file.fam

\* Under the lock the file still holds the sign-in in hand, or was damaged,
\* which left that sign-in astray; a rotated session is the newest.
HolderFits ==
    \A p \in Processes : cmds[p].pc \in Holding =>
      LET s == cmds[p].cur IN
      /\ grants[s.fam].state # "unused"
      /\ \/ Saved /\ file.fam = s.fam
         \/ file = Unreadable /\ (grants[s.fam].state = "live" => s.fam \in astray)
      /\ cmds[p].pc = "answer" => s.gen = grants[s.fam].gen

\* A new sign-in is in one hand, at its first generation, and not in the file.
NewFits ==
    \A p \in Processes : BringsNew(p) =>
      LET s == cmds[p].cur IN
      /\ grants[s.fam].state # "unused"
      /\ s.gen = grants[s.fam].gen
      /\ Saved => file.fam # s.fam
      /\ \A q \in Processes \ {p} : InHand(q) => cmds[q].cur.fam # s.fam

\* The inductive invariant.
CliInv ==
    /\ SessionTypeOK
    /\ LockFits
    /\ CommandsFit
    /\ FileFits
    /\ HolderFits
    /\ NewFits
    /\ NeverRefreshedTwice
    /\ NoStraySignIn
-----------------------------------------------------------------------------
(***************************************************************************)
(* What a step makes of one command                                        *)
(***************************************************************************)

\* After the step the command of p is at pc, and no other command has changed.
Now(p, pc, kind, cur) ==
    /\ cmds' \in [Processes -> Commands]
    /\ cmds'[p].pc = pc /\ cmds'[p].kind = kind /\ cmds'[p].cur = cur
    /\ \A q \in Processes \ {p} : cmds'[q] = cmds[q]

\* The fields of a command.
LEMMA CommandFields ==
    ASSUME cmds \in [Processes -> Commands], NEW p \in Processes
    PROVE  /\ cmds[p] \in Commands
           /\ cmds[p].pc \in Pcs /\ cmds[p].kind \in Kinds
           /\ cmds[p].cur \in Sessions \cup {None} /\ cmds[p].refused \in Sessions \cup {None}
           /\ cmds[p].again \in BOOLEAN
  <1>1. cmds[p] \in Commands
    OBVIOUS
  <1> QED BY <1>1 DEF Commands

\* The fields of a session.
LEMMA SessionFields ==
    ASSUME NEW s \in Sessions
    PROVE  /\ s.fam \in Families /\ s.gen \in 1 .. MaxGen /\ s.gen \in Nat
           /\ s # None /\ s # Missing /\ s # Unreadable
  BY CliAssumption DEF Sessions

\* Nothing runs.
LEMMA IdleFields ==
    /\ Idle \in Commands
    /\ Idle.pc = "idle" /\ Idle.kind = "call" /\ Idle.cur = None
  <1>1. Idle \in Commands
    BY DEF Idle, Commands, Pcs, Kinds
  <1> QED BY <1>1 DEF Idle

\* A command ends.
LEMMA FinishIs ==
    ASSUME cmds \in [Processes -> Commands], NEW p \in Processes, Finish(p)
    PROVE  Now(p, "idle", "call", None)
  BY IdleFields DEF Finish, Now

\* A command moves on with what it has.
LEMMA MoveIs ==
    ASSUME cmds \in [Processes -> Commands], NEW p \in Processes, NEW pc \in Pcs, Move(p, pc)
    PROVE  Now(p, pc, cmds[p].kind, cmds[p].cur)
  <1> DEFINE new == [cmds[p] EXCEPT !.pc = pc]
  <1>1. cmds' = [cmds EXCEPT ![p] = new]
    BY DEF Move
  <1>2. new \in Commands /\ new.pc = pc /\ new.kind = cmds[p].kind /\ new.cur = cmds[p].cur
    BY CommandFields DEF Commands
  <1> HIDE DEF new
  <1> QED BY <1>1, <1>2 DEF Now

\* A command moves on with a session in hand.
LEMMA HoldIs ==
    ASSUME cmds \in [Processes -> Commands], NEW p \in Processes, NEW pc \in Pcs,
           NEW s \in Sessions, Hold(p, pc, s)
    PROVE  Now(p, pc, cmds[p].kind, s)
  <1> DEFINE r == IF pc = "lock" THEN cmds[p].refused ELSE None
             new == [cmds[p] EXCEPT !.pc = pc, !.cur = s, !.refused = r]
  <1>1. cmds' = [cmds EXCEPT ![p] = new]
    BY DEF Hold
  <1>2. r \in Sessions \cup {None}
    BY CommandFields
  <1> HIDE DEF r
  <1>3. new \in Commands /\ new.pc = pc /\ new.kind = cmds[p].kind /\ new.cur = s
    BY <1>2, CommandFields DEF Commands
  <1> HIDE DEF new
  <1> QED BY <1>1, <1>3 DEF Now

\* What the type invariant says, part by part.
LEMMA TypeParts ==
    ASSUME CliInv
    PROVE  /\ file \in Sessions \cup {Missing, Unreadable}
           /\ Saved => file \in Sessions
           /\ lock \in Processes \cup {None}
           /\ \A f \in Families : /\ grants[f].owner \in People \cup {None}
                                  /\ grants[f].gen \in 0 .. MaxGen /\ grants[f].gen \in Nat
                                  /\ grants[f].state \in {"unused", "live", "ended"}
           /\ cmds \in [Processes -> Commands]
           /\ lost \subseteq Families /\ astray \subseteq Families
  <1>1. \A f \in Families : /\ grants[f].owner \in People \cup {None}
                            /\ grants[f].gen \in 0 .. MaxGen
                            /\ grants[f].state \in {"unused", "live", "ended"}
    BY DEF CliInv, SessionTypeOK
  <1>2. \A f \in Families : grants[f].gen \in Nat
    BY <1>1, CliAssumption
  <1> QED BY <1>1, <1>2 DEF CliInv, SessionTypeOK, Saved

\* Whoever is past the lock, or brings a new sign-in, has a session in hand.
LEMMA HandFields ==
    ASSUME CliInv, NEW p \in Processes, InHand(p) \/ cmds[p].pc = "retire"
    PROVE  /\ cmds[p].cur \in Sessions
           /\ cmds[p].cur.fam \in Families /\ cmds[p].cur.gen \in Nat
           /\ cmds[p].cur.gen \in 1 .. MaxGen
  <1>1. cmds[p].cur # None
    BY DEF CliInv, CommandsFit, CommandFits, InHand, BringsNew
  <1>2. cmds[p].cur \in Sessions
    BY <1>1, CommandFields, TypeParts
  <1> QED BY <1>2, SessionFields

\* There is one holder at most.
LEMMA OneHolder ==
    ASSUME CliInv, NEW p \in Processes, NEW q \in Processes,
           cmds[p].pc \in Holding, cmds[q].pc \in Holding
    PROVE  p = q
  BY DEF CliInv, LockFits

\* ... and none while the lock is free.
LEMMA NoHolder ==
    ASSUME CliInv, lock = None, NEW p \in Processes
    PROVE  cmds[p].pc \notin Holding
  BY CliAssumption DEF CliInv, LockFits
-----------------------------------------------------------------------------
(***************************************************************************)
(* The steps                                                               *)
(***************************************************************************)

\* A command goes on away from the lock: what it leaves behind of a sign-in
\* in hand counts as astray.
LEMMA QuietInv ==
    ASSUME CliInv, NEW p \in Processes, NEW pc, NEW kind, NEW cur, Now(p, pc, kind, cur),
           CommandFits(cmds'[p]), cmds[p].pc \notin Holding, pc \notin Holding,
           ~(pc = "lock" /\ kind = "login"),
           UNCHANGED <<file, lock, accountsVars, lost>>,
           astray \subseteq astray', astray' \subseteq Families,
           cmds[p].pc = "retire" \/ BringsNew(p) => LiveOf(cmds[p].cur) \subseteq astray'
    PROVE  CliInv'
  <1>1. /\ UNCHANGED <<file, lock, grants, due, over, lost>>
        /\ cmds'[p].pc = pc /\ cmds'[p].kind = kind
        /\ \A q \in Processes \ {p} : cmds'[q] = cmds[q]
    BY DEF Now, accountsVars
  <1>2. SessionTypeOK'
    BY <1>1 DEF CliInv, SessionTypeOK, Now
  <1>3. LockFits'
    BY <1>1 DEF CliInv, LockFits
  <1>4. CommandsFit'
    BY <1>1 DEF CliInv, CommandsFit, CommandFits
  <1>5. FileFits'
    BY <1>1 DEF CliInv, FileFits, Saved, Holding
  <1>6. HolderFits'
    BY <1>1 DEF CliInv, HolderFits, Saved
  <1>7. NewFits'
    BY <1>1 DEF CliInv, NewFits, Saved, BringsNew, InHand
  <1>8. NeverRefreshedTwice'
    BY <1>1 DEF CliInv, NeverRefreshedTwice, At, Holding
  <1>9. NoStraySignIn'
    <2> SUFFICES ASSUME NEW f \in Families \ astray', grants[f].state = "live",
                        ~(Saved /\ file.fam = f)
                 PROVE  \E q \in Processes :
                          /\ \/ cmds'[q].pc \in {"answer", "retire"}
                             \/ cmds'[q].pc = "lock" /\ cmds'[q].kind = "login"
                          /\ cmds'[q].cur.fam = f
      BY <1>1 DEF NoStraySignIn, Saved, At
    <2>1. PICK q \in Processes :
              /\ cmds[q].pc \in {"answer", "retire"} \/ (cmds[q].pc = "lock" /\ cmds[q].kind = "login")
              /\ cmds[q].cur.fam = f
      BY DEF CliInv, NoStraySignIn, At
    <2>2. q # p
      BY <2>1 DEF Holding, BringsNew, LiveOf
    <2> QED BY <1>1, <2>1, <2>2
  <1> QED BY <1>2, <1>3, <1>4, <1>5, <1>6, <1>7, <1>8, <1>9 DEF CliInv

\* The holder of the lock gives up, dies or loses what it was sent.
LEMMA LetGoInv ==
    ASSUME CliInv, NEW p \in Processes, cmds[p].pc \in Holding,
           Now(p, "idle", "call", None), lock' = None,
           UNCHANGED <<file, accountsVars, astray>>,
           lost \subseteq lost', lost' \subseteq Families,
           cmds[p].pc = "answer" => LiveOf(cmds[p].cur) \subseteq lost'
    PROVE  CliInv'
  <1>1. /\ UNCHANGED <<file, grants, due, over, astray>>
        /\ cmds'[p].pc = "idle" /\ cmds'[p].kind = "call"
        /\ \A q \in Processes \ {p} : cmds'[q] = cmds[q] /\ cmds[q].pc \notin Holding
    BY OneHolder DEF Now, accountsVars
  <1>2. SessionTypeOK'
    BY <1>1 DEF CliInv, SessionTypeOK, Now
  <1>3. LockFits'
    BY <1>1, CliAssumption DEF LockFits, Holding
  <1>4. CommandsFit'
    BY <1>1 DEF CliInv, CommandsFit, CommandFits, Holding
  <1>5. FileFits'
    BY <1>1 DEF CliInv, FileFits, Saved, LiveOf
  <1>6. HolderFits'
    BY <1>1 DEF HolderFits, Holding
  <1>7. NewFits'
    BY <1>1 DEF CliInv, NewFits, Saved, BringsNew, InHand, Holding
  <1>8. NeverRefreshedTwice'
    BY <1>1 DEF NeverRefreshedTwice, At, Holding
  <1>9. NoStraySignIn'
    <2> SUFFICES ASSUME NEW f \in Families \ astray, grants[f].state = "live",
                        ~(Saved /\ file.fam = f)
                 PROVE  \E q \in Processes :
                          /\ \/ cmds'[q].pc \in {"answer", "retire"}
                             \/ cmds'[q].pc = "lock" /\ cmds'[q].kind = "login"
                          /\ cmds'[q].cur.fam = f
      BY <1>1 DEF NoStraySignIn, Saved, At
    <2>1. PICK q \in Processes :
              /\ cmds[q].pc \in {"answer", "retire"} \/ (cmds[q].pc = "lock" /\ cmds[q].kind = "login")
              /\ cmds[q].cur.fam = f
      BY DEF CliInv, NoStraySignIn, At
    <2>2. q # p
      BY <2>1 DEF CliInv, HolderFits, Holding
    <2> QED BY <1>1, <2>1, <2>2
  <1> QED BY <1>2, <1>3, <1>4, <1>5, <1>6, <1>7, <1>8, <1>9 DEF CliInv

\* What Silicon Accounts knows of each sign-in.
GrantTypes == [owner : People \cup {None}, gen : 0 .. MaxGen, state : {"unused", "live", "ended"}]

\* A sign-in ends: only its state changes.
LEMMA EndGrantIs ==
    ASSUME CliInv, NEW f \in Families, EndGrant(f)
    PROVE  /\ grants' \in [Families -> GrantTypes]
           /\ \A g \in Families : grants'[g].gen = grants[g].gen
           /\ grants'[f].state = "ended"
           /\ \A g \in Families \ {f} : grants'[g] = grants[g]
           /\ lost' = lost \ {f} /\ astray' = astray \ {f}
           /\ lost' \subseteq Families /\ astray' \subseteq Families
  <1> DEFINE new == [grants[f] EXCEPT !.state = "ended"]
  <1>1. grants \in [Families -> GrantTypes] /\ lost \subseteq Families /\ astray \subseteq Families
    BY DEF CliInv, SessionTypeOK, GrantTypes
  <1>2. grants' = [grants EXCEPT ![f] = new] /\ lost' = lost \ {f} /\ astray' = astray \ {f}
    BY <1>1 DEF EndGrant
  <1>3. new \in GrantTypes /\ new.state = "ended" /\ new.gen = grants[f].gen
    BY <1>1 DEF GrantTypes
  <1> HIDE DEF new
  <1> QED BY <1>1, <1>2, <1>3

\* The families of the sessions that the invariant follows.
LEMMA KnownFamilies ==
    ASSUME CliInv
    PROVE  /\ Saved => file.fam \in Families
           /\ \A q \in Processes : InHand(q) \/ cmds[q].pc = "retire" => cmds[q].cur.fam \in Families
  BY TypeParts, SessionFields, HandFields

\* A sign-in ends while no process is past the lock with it, or whoever is
\* stays there; a login that retires it may end.
LEMMA EndedInv ==
    ASSUME CliInv, NEW f \in Families, EndGrant(f), UNCHANGED <<file, lock, due>>,
           over' \subseteq Families, cmds' \in [Processes -> Commands],
           \A q \in Processes : \/ cmds'[q] = cmds[q]
                                \/ /\ cmds[q].pc = "retire" /\ cmds[q].cur.fam = f
                                   /\ cmds'[q].pc = "idle" /\ cmds'[q].kind = "call"
    PROVE  CliInv'
  <1>1. /\ grants' \in [Families -> GrantTypes]
        /\ \A g \in Families : grants'[g].gen = grants[g].gen
        /\ grants'[f].state = "ended"
        /\ \A g \in Families \ {f} : grants'[g] = grants[g]
        /\ lost' = lost \ {f} /\ astray' = astray \ {f}
        /\ lost' \subseteq Families /\ astray' \subseteq Families
    BY EndGrantIs
  <1>2. SessionTypeOK'
    BY <1>1 DEF CliInv, SessionTypeOK, GrantTypes
  <1>3. LockFits'
    BY DEF CliInv, LockFits, Holding
  <1>4. CommandsFit'
    BY DEF CliInv, CommandsFit, CommandFits, Holding
  <1>5. FileFits'
    BY <1>1, KnownFamilies DEF CliInv, FileFits, Saved
  <1>6. HolderFits'
    BY <1>1, KnownFamilies DEF CliInv, HolderFits, Saved, InHand, Holding
  <1>7. NewFits'
    BY <1>1, KnownFamilies DEF CliInv, NewFits, Saved, BringsNew, InHand, Holding
  <1>8. NeverRefreshedTwice'
    BY <1>1, KnownFamilies DEF CliInv, NeverRefreshedTwice, At, InHand, Holding
  <1>9. NoStraySignIn'
    <2> SUFFICES ASSUME NEW g \in Families \ astray', grants'[g].state = "live",
                        ~(Saved /\ file.fam = g)
                 PROVE  \E q \in Processes :
                          /\ \/ cmds'[q].pc \in {"answer", "retire"}
                             \/ cmds'[q].pc = "lock" /\ cmds'[q].kind = "login"
                          /\ cmds'[q].cur.fam = g
      BY DEF NoStraySignIn, Saved, At
    <2>1. g # f /\ grants[g].state = "live" /\ g \notin astray
      BY <1>1
    <2>2. PICK q \in Processes :
              /\ cmds[q].pc \in {"answer", "retire"} \/ (cmds[q].pc = "lock" /\ cmds[q].kind = "login")
              /\ cmds[q].cur.fam = g
      BY <2>1 DEF CliInv, NoStraySignIn, At
    <2>3. cmds'[q] = cmds[q]
      BY <2>1, <2>2
    <2> QED BY <2>2, <2>3
  <1> QED BY <1>2, <1>3, <1>4, <1>5, <1>6, <1>7, <1>8, <1>9 DEF CliInv

\* The holder of the lock ends with its sign-in, which the file may lose.
LEMMA HolderEndsInv ==
    ASSUME CliInv, NEW p \in Processes, cmds[p].pc \in Holding,
           Now(p, "idle", "call", None), lock' = None, EndGrant(cmds[p].cur.fam),
           UNCHANGED <<due, over>>, file' \in {file, Missing}
    PROVE  CliInv'
  <1> DEFINE f == cmds[p].cur.fam
  <1>0. f \in Families
    BY HandFields DEF InHand
  <1>1. /\ grants' \in [Families -> GrantTypes]
        /\ \A g \in Families : grants'[g].gen = grants[g].gen
        /\ grants'[f].state = "ended"
        /\ \A g \in Families \ {f} : grants'[g] = grants[g]
        /\ lost' = lost \ {f} /\ astray' = astray \ {f}
        /\ lost' \subseteq Families /\ astray' \subseteq Families
    BY <1>0, EndGrantIs
  <1>2. /\ cmds'[p].pc = "idle" /\ cmds'[p].kind = "call"
        /\ \A q \in Processes \ {p} : cmds'[q] = cmds[q] /\ cmds[q].pc \notin Holding
        /\ Missing # Unreadable /\ Missing \notin Sessions
    BY OneHolder, CliAssumption, SessionFields DEF Now
  <1>3. Saved => file.fam = f
    BY DEF CliInv, HolderFits, Saved
  <1>4. SessionTypeOK'
    BY <1>1, <1>2 DEF CliInv, SessionTypeOK, GrantTypes, Now
  <1>5. LockFits'
    BY <1>2, CliAssumption DEF LockFits, Holding
  <1>6. CommandsFit'
    BY <1>2 DEF CliInv, CommandsFit, CommandFits, Holding
  <1>7. FileFits'
    BY <1>1, <1>2, <1>3 DEF FileFits, Saved
  <1>8. HolderFits'
    BY <1>2 DEF HolderFits, Holding
  <1>9. NewFits'
    BY <1>1, <1>2, KnownFamilies DEF CliInv, NewFits, Saved, BringsNew, InHand, Holding
  <1>10. NeverRefreshedTwice'
    BY <1>2 DEF NeverRefreshedTwice, At, Holding
  <1>11. NoStraySignIn'
    <2> SUFFICES ASSUME NEW g \in Families \ astray', grants'[g].state = "live"
                 PROVE  \E q \in Processes :
                          /\ \/ cmds'[q].pc \in {"answer", "retire"}
                             \/ cmds'[q].pc = "lock" /\ cmds'[q].kind = "login"
                          /\ cmds'[q].cur.fam = g
      BY DEF NoStraySignIn, Saved, At
    <2>1. g # f /\ grants[g].state = "live" /\ g \notin astray
      BY <1>1
    <2>2. PICK q \in Processes :
              /\ cmds[q].pc \in {"answer", "retire"} \/ (cmds[q].pc = "lock" /\ cmds[q].kind = "login")
              /\ cmds[q].cur.fam = g
      BY <1>3, <2>1 DEF CliInv, NoStraySignIn, At
    <2>3. q # p
      BY <2>1, <2>2
    <2> QED BY <1>2, <2>2, <2>3
  <1> QED BY <1>4, <1>5, <1>6, <1>7, <1>8, <1>9, <1>10, <1>11 DEF CliInv

\* logout whose revocation fails: the sign-in is astray, and the file is gone.
LEMMA AbandonInv ==
    ASSUME CliInv, NEW p \in Processes, cmds[p].pc \in Holding, cmds[p].pc # "answer",
           Now(p, "idle", "call", None), lock' = None, file' = Missing,
           UNCHANGED <<accountsVars, lost>>, astray' = astray \cup LiveOf(cmds[p].cur)
    PROVE  CliInv'
  <1> DEFINE f == cmds[p].cur.fam
  <1>0. f \in Families
    BY HandFields DEF InHand
  <1>1. UNCHANGED <<grants, due, over, lost>> /\ astray' \subseteq Families /\ astray \subseteq astray'
        /\ (grants[f].state = "live" => f \in astray')
    BY <1>0, TypeParts DEF accountsVars, LiveOf
  <1>2. /\ cmds'[p].pc = "idle" /\ cmds'[p].kind = "call"
        /\ \A q \in Processes \ {p} : cmds'[q] = cmds[q] /\ cmds[q].pc \notin Holding
    BY OneHolder DEF Now
  <1>3. Saved => file.fam = f
    BY DEF CliInv, HolderFits, Saved
  <1>4. SessionTypeOK'
    BY <1>1, <1>2 DEF CliInv, SessionTypeOK, Now
  <1>5. LockFits'
    BY <1>2, CliAssumption DEF LockFits, Holding
  <1>6. CommandsFit'
    BY <1>2 DEF CliInv, CommandsFit, CommandFits, Holding
  <1>7. FileFits'
    BY DEF FileFits, Saved
  <1>8. HolderFits'
    BY <1>2 DEF HolderFits, Holding
  <1>9. NewFits'
    BY <1>1, <1>2 DEF CliInv, NewFits, Saved, BringsNew, InHand, Holding
  <1>10. NeverRefreshedTwice'
    BY <1>2 DEF NeverRefreshedTwice, At, Holding
  <1>11. NoStraySignIn'
    <2> SUFFICES ASSUME NEW g \in Families \ astray', grants[g].state = "live"
                 PROVE  \E q \in Processes :
                          /\ \/ cmds'[q].pc \in {"answer", "retire"}
                             \/ cmds'[q].pc = "lock" /\ cmds'[q].kind = "login"
                          /\ cmds'[q].cur.fam = g
      BY <1>1 DEF NoStraySignIn, Saved, At
    <2>1. g # f /\ g \notin astray
      BY <1>1
    <2>2. PICK q \in Processes :
              /\ cmds[q].pc \in {"answer", "retire"} \/ (cmds[q].pc = "lock" /\ cmds[q].kind = "login")
              /\ cmds[q].cur.fam = g
      BY <1>3, <2>1 DEF CliInv, NoStraySignIn, At
    <2>3. q # p
      BY <2>1, <2>2
    <2> QED BY <1>2, <2>2, <2>3
  <1> QED BY <1>4, <1>5, <1>6, <1>7, <1>8, <1>9, <1>10, <1>11 DEF CliInv

\* A process takes the lock with the session it finds in the file: under a
\* free lock that is the newest, unless its rotated tokens are lost.
LEMMA TakenInv ==
    ASSUME CliInv, NEW p \in Processes, lock = None, Saved, NEW pc \in {"present", "revoke"},
           cmds[p].pc = "lock", cmds[p].kind # "login",
           Now(p, pc, cmds[p].kind, file), lock' = p,
           UNCHANGED <<file, accountsVars, lost, astray>>
    PROVE  CliInv'
  <1>1. /\ UNCHANGED <<file, grants, due, over, lost, astray>> /\ pc \in Holding
        /\ cmds'[p].pc = pc /\ cmds'[p].kind = cmds[p].kind /\ cmds'[p].cur = file
        /\ \A q \in Processes \ {p} : cmds'[q] = cmds[q]
    BY DEF Now, accountsVars, Holding
  <1>2. \A q \in Processes : cmds[q].pc \notin Holding
    BY NoHolder
  <1>3. file \in Sessions /\ file # None /\ file.fam \in Families /\ file.gen \in Nat
    BY TypeParts, SessionFields
  <1>4. SessionTypeOK'
    BY <1>1 DEF CliInv, SessionTypeOK, Now
  <1>5. LockFits'
    BY <1>1, <1>2 DEF LockFits
  <1>6. CommandsFit'
    BY <1>1, <1>3 DEF CliInv, CommandsFit, CommandFits, Holding
  <1>7. FileFits'
    BY <1>1, <1>2 DEF CliInv, FileFits, Saved, Holding
  <1>8. HolderFits'
    BY <1>1, <1>2 DEF CliInv, HolderFits, FileFits, Saved
  <1>9. NewFits'
    BY <1>1, <1>2 DEF CliInv, NewFits, Saved, BringsNew, InHand, Holding
  <1>10. NeverRefreshedTwice'
    <2>1. \/ file.gen = grants[file.fam].gen
          \/ grants[file.fam].state # "live"
          \/ file.fam \in lost
      BY <1>2 DEF CliInv, FileFits, Holding
    <2>2. ~(file.gen = grants[file.fam].gen /\ file.gen < grants[file.fam].gen)
      BY <1>3
    <2> QED BY <1>1, <1>2, <2>1, <2>2 DEF NeverRefreshedTwice, At, Holding
  <1>11. NoStraySignIn'
    BY <1>1, <1>2 DEF CliInv, NoStraySignIn, Saved, At, Holding
  <1> QED BY <1>4, <1>5, <1>6, <1>7, <1>8, <1>9, <1>10, <1>11 DEF CliInv

\* The holder's token is the newest: it is rotated.
LEMMA RotateInv ==
    ASSUME CliInv, NEW p \in Processes, Rotate(p)
    PROVE  CliInv'
  <1> DEFINE s == cmds[p].cur
             f == s.fam
             n == [s EXCEPT !.gen = s.gen + 1]
             g == [grants[f] EXCEPT !.gen = grants[f].gen + 1]
  <1>1. /\ cmds[p].pc = "present" /\ cmds[p].pc \in Holding
        /\ grants[f].state = "live" /\ s.gen = grants[f].gen /\ s.gen < MaxGen
        /\ UNCHANGED <<file, lock, due, over, lost, astray>>
    BY DEF Rotate, At, Holding
  <1>2. s \in Sessions /\ f \in Families /\ s.gen \in Nat /\ s.gen \in 1 .. MaxGen
    BY <1>1, HandFields DEF InHand
  <1>3. n \in Sessions /\ n.fam = f /\ n.gen = s.gen + 1 /\ n # None
    <2>1. s.gen + 1 \in 1 .. MaxGen
      BY <1>1, <1>2, CliAssumption
    <2>2. n \in Sessions /\ n.fam = f /\ n.gen = s.gen + 1
      BY <1>2, <2>1 DEF Sessions
    <2> QED BY <2>2, SessionFields
  <1>4. Hold(p, "answer", n) /\ "answer" \in Pcs
    BY <1>2 DEF Rotate, Sessions, Pcs
  <1>5. grants \in [Families -> GrantTypes]
    BY DEF CliInv, SessionTypeOK, GrantTypes
  <1>6. grants' = [grants EXCEPT ![f] = g]
    BY <1>2, <1>5 DEF Rotate
  <1>7. g \in GrantTypes /\ g.gen = s.gen + 1 /\ g.state = "live"
    <2>1. grants[f].gen + 1 \in 0 .. MaxGen
      BY <1>1, <1>2, CliAssumption
    <2> QED BY <1>1, <1>2, <1>5, <2>1 DEF GrantTypes
  <1> HIDE DEF n, g
  <1>8. Now(p, "answer", cmds[p].kind, n)
    BY <1>3, <1>4, TypeParts, HoldIs
  <1>9. /\ grants' \in [Families -> GrantTypes] /\ grants'[f].gen = s.gen + 1 /\ grants'[f].state = "live"
        /\ \A h \in Families \ {f} : grants'[h] = grants[h]
    BY <1>2, <1>5, <1>6, <1>7
  <1>10. /\ cmds'[p].pc = "answer" /\ cmds'[p].kind = cmds[p].kind /\ cmds'[p].cur = n
         /\ \A q \in Processes \ {p} : cmds'[q] = cmds[q] /\ cmds[q].pc \notin Holding
    BY <1>1, <1>8, OneHolder DEF Now
  <1>11. SessionTypeOK'
    BY <1>1, <1>8, <1>9 DEF CliInv, SessionTypeOK, GrantTypes, Now
  <1>12. LockFits'
    BY <1>1, <1>10 DEF CliInv, LockFits, Holding
  <1>13. CommandsFit'
    BY <1>1, <1>3, <1>10 DEF CliInv, CommandsFit, CommandFits, Holding
  <1>14. FileFits'
    BY <1>1, <1>3, <1>9, <1>10, KnownFamilies DEF CliInv, FileFits, Saved, Holding
  <1>15. HolderFits'
    BY <1>1, <1>3, <1>9, <1>10 DEF CliInv, HolderFits, Saved, Holding
  <1>16. NewFits'
    <2> SUFFICES ASSUME NEW q \in Processes, BringsNew(q)'
                 PROVE  /\ grants'[cmds'[q].cur.fam].state # "unused"
                        /\ cmds'[q].cur.gen = grants'[cmds'[q].cur.fam].gen
                        /\ Saved' => file'.fam # cmds'[q].cur.fam
                        /\ \A r \in Processes \ {q} : InHand(r)' => cmds'[r].cur.fam # cmds'[q].cur.fam
      BY DEF NewFits
    <2>1. q # p /\ BringsNew(q) /\ cmds'[q] = cmds[q]
      BY <1>10 DEF BringsNew
    <2>2. cmds[q].cur.fam # f /\ cmds[q].cur.fam \in Families
      BY <1>1, <2>1, HandFields DEF CliInv, NewFits, InHand
    <2>3. \A r \in Processes \ {q} : InHand(r)' => InHand(r) /\ cmds'[r].cur.fam = cmds[r].cur.fam
      BY <1>1, <1>3, <1>10 DEF InHand, BringsNew
    <2> QED BY <1>1, <1>9, <2>1, <2>2, <2>3 DEF CliInv, NewFits, Saved
  <1>17. NeverRefreshedTwice'
    BY <1>10 DEF NeverRefreshedTwice, At, Holding
  <1>18. NoStraySignIn'
    BY <1>1, <1>2, <1>3, <1>9, <1>10 DEF CliInv, NoStraySignIn, Saved, At
  <1> QED BY <1>11, <1>12, <1>13, <1>14, <1>15, <1>16, <1>17, <1>18 DEF CliInv

\* The rotated tokens are saved over the session they come from.
LEMMA RotatedSavedInv ==
    ASSUME CliInv, NEW p \in Processes, RotatedSaved(p)
    PROVE  CliInv'
  <1> DEFINE s == cmds[p].cur
             f == s.fam
  <1>1. /\ cmds[p].pc = "answer" /\ cmds[p].pc \in Holding /\ file' = s /\ lock' = None
        /\ Use(p, s) /\ UNCHANGED <<grants, due, over, lost, astray>>
    BY DEF RotatedSaved, At, Holding, accountsVars
  <1>2. s \in Sessions /\ f \in Families /\ s.gen \in Nat /\ s # Missing /\ s # Unreadable
    BY <1>1, HandFields, SessionFields DEF InHand
  <1>3. cmds[p].kind # "login" /\ grants[f].state # "unused" /\ s.gen = grants[f].gen
        /\ (Saved => file.fam = f)
    BY <1>1 DEF CliInv, CommandsFit, CommandFits, HolderFits, Holding, Saved
  <1>4. \E pc \in {"idle", "op"}, kind \in Kinds \ {"login"}, cur \in Sessions \cup {None} : Now(p, pc, kind, cur)
    <2>1. CASE Finish(p)
      BY <2>1, TypeParts, FinishIs DEF Kinds
    <2>2. CASE Hold(p, "op", s)
      <3>1. "op" \in Pcs
        BY DEF Pcs
      <3> QED BY <1>2, <1>3, <2>2, <3>1, TypeParts, HoldIs, CommandFields
    <2> QED BY <1>1, <2>1, <2>2 DEF Use
  <1>5. PICK pc \in {"idle", "op"}, kind \in Kinds \ {"login"}, cur \in Sessions \cup {None} : Now(p, pc, kind, cur)
    BY <1>4
  <1>6. /\ cmds'[p].pc = pc /\ cmds'[p].kind # "login" /\ pc \notin Holding
        /\ \A q \in Processes \ {p} : cmds'[q] = cmds[q] /\ cmds[q].pc \notin Holding
    BY <1>1, <1>5, OneHolder DEF Now, Holding
  <1>7. SessionTypeOK'
    BY <1>1, <1>2, <1>5 DEF CliInv, SessionTypeOK, Now
  <1>8. LockFits'
    BY <1>1, <1>6, CliAssumption DEF LockFits
  <1>9. CommandsFit'
    BY <1>5, <1>6 DEF CliInv, CommandsFit, CommandFits, Holding
  <1>10. FileFits'
    BY <1>1, <1>3 DEF FileFits
  <1>11. HolderFits'
    BY <1>6 DEF HolderFits
  <1>12. NewFits'
    <2> SUFFICES ASSUME NEW q \in Processes, BringsNew(q)'
                 PROVE  /\ grants'[cmds'[q].cur.fam].state # "unused"
                        /\ cmds'[q].cur.gen = grants'[cmds'[q].cur.fam].gen
                        /\ Saved' => file'.fam # cmds'[q].cur.fam
                        /\ \A r \in Processes \ {q} : InHand(r)' => cmds'[r].cur.fam # cmds'[q].cur.fam
      BY DEF NewFits
    <2>1. q # p /\ BringsNew(q) /\ cmds'[q] = cmds[q]
      BY <1>6 DEF BringsNew
    <2>2. cmds[q].cur.fam # f
      BY <1>1, <2>1 DEF CliInv, NewFits, InHand
    <2>3. \A r \in Processes \ {q} : InHand(r)' => InHand(r) /\ cmds'[r] = cmds[r]
      BY <1>6 DEF InHand, BringsNew
    <2> QED BY <1>1, <2>1, <2>2, <2>3 DEF CliInv, NewFits
  <1>13. NeverRefreshedTwice'
    BY <1>6 DEF NeverRefreshedTwice, At, Holding
  <1>14. NoStraySignIn'
    <2> SUFFICES ASSUME NEW g \in Families \ astray, grants[g].state = "live", g # f
                 PROVE  \E q \in Processes :
                          /\ \/ cmds'[q].pc \in {"answer", "retire"}
                             \/ cmds'[q].pc = "lock" /\ cmds'[q].kind = "login"
                          /\ cmds'[q].cur.fam = g
      BY <1>1, <1>2 DEF NoStraySignIn, Saved, At
    <2>1. PICK q \in Processes :
              /\ cmds[q].pc \in {"answer", "retire"} \/ (cmds[q].pc = "lock" /\ cmds[q].kind = "login")
              /\ cmds[q].cur.fam = g
      BY <1>3 DEF CliInv, NoStraySignIn, At
    <2> QED BY <1>6, <2>1
  <1> QED BY <1>7, <1>8, <1>9, <1>10, <1>11, <1>12, <1>13, <1>14 DEF CliInv

\* A sign-in that is made belongs to no session the client has.
LEMMA MadeIs ==
    ASSUME CliInv, NEW f \in Families, NEW who \in People, grants[f].state = "unused",
           grants' = [grants EXCEPT ![f] = [owner |-> who, gen |-> 1, state |-> "live"]]
    PROVE  /\ grants' \in [Families -> GrantTypes]
           /\ grants'[f].gen = 1 /\ grants'[f].state = "live"
           /\ \A g \in Families \ {f} : grants'[g] = grants[g]
           /\ Saved => file.fam \in Families \ {f}
           /\ \A q \in Processes : InHand(q) => cmds[q].cur.fam \in Families \ {f}
  <1>1. grants \in [Families -> GrantTypes]
    BY DEF CliInv, SessionTypeOK, GrantTypes
  <1>2. [owner |-> who, gen |-> 1, state |-> "live"] \in GrantTypes
    <2>1. 1 \in 0 .. MaxGen
      BY CliAssumption
    <2> QED BY <2>1 DEF GrantTypes
  <1>3. Saved => file.fam \in Families \ {f}
    BY KnownFamilies DEF CliInv, FileFits
  <1>4. \A q \in Processes : InHand(q) => cmds[q].cur.fam \in Families \ {f}
    BY KnownFamilies DEF CliInv, HolderFits, NewFits, InHand
  <1> QED BY <1>1, <1>2, <1>3, <1>4

\* A new sign-in, in the hands of a login or lost with the answer.
LEMMA MadeInv ==
    ASSUME CliInv, NEW p \in Processes, NEW f \in Families, NEW who \in People,
           cmds[p].pc \in {"poll", "exchange"}, grants[f].state = "unused",
           grants' = [grants EXCEPT ![f] = [owner |-> who, gen |-> 1, state |-> "live"]],
           UNCHANGED <<file, lock, due, over, lost>>,
           \/ Hold(p, "lock", [fam |-> f, gen |-> 1]) /\ UNCHANGED astray
           \/ Finish(p) /\ astray' = astray \cup {f}
    PROVE  CliInv'
  <1> DEFINE s == [fam |-> f, gen |-> 1]
  <1>1. /\ grants' \in [Families -> GrantTypes]
        /\ grants'[f].gen = 1 /\ grants'[f].state = "live"
        /\ \A g \in Families \ {f} : grants'[g] = grants[g]
        /\ Saved => file.fam \in Families \ {f}
        /\ \A q \in Processes : InHand(q) => cmds[q].cur.fam \in Families \ {f}
    BY MadeIs
  <1>2. s \in Sessions /\ s.fam = f /\ s.gen = 1 /\ s # None
    <2>1. 1 \in 1 .. MaxGen
      BY CliAssumption
    <2>2. s \in Sessions
      BY <2>1 DEF Sessions
    <2> QED BY <2>2, SessionFields
  <1>3. cmds[p].kind = "login" /\ cmds[p].pc \notin Holding
    BY DEF CliInv, CommandsFit, CommandFits, Holding
  <1>4. \/ Now(p, "lock", "login", s) /\ astray' = astray
        \/ Now(p, "idle", "call", None) /\ astray' = astray \cup {f}
    <2>1. CASE Hold(p, "lock", s) /\ UNCHANGED astray
      <3>1. "lock" \in Pcs
        BY DEF Pcs
      <3> QED BY <1>2, <1>3, <2>1, <3>1, TypeParts, HoldIs
    <2>2. CASE Finish(p) /\ astray' = astray \cup {f}
      BY <2>2, TypeParts, FinishIs
    <2> QED BY <2>1, <2>2
  <1> HIDE DEF s
  <1>5. /\ \A q \in Processes \ {p} : cmds'[q] = cmds[q]
        /\ \/ cmds'[p].pc = "lock" /\ cmds'[p].kind = "login" /\ cmds'[p].cur = s /\ astray' = astray
           \/ cmds'[p].pc = "idle" /\ cmds'[p].kind = "call" /\ astray' = astray \cup {f}
        /\ cmds'[p].pc \notin Holding /\ cmds' \in [Processes -> Commands]
    BY <1>4 DEF Now, Holding
  <1>6. SessionTypeOK'
    BY <1>1, <1>5 DEF CliInv, SessionTypeOK, GrantTypes
  <1>7. LockFits'
    BY <1>3, <1>5 DEF CliInv, LockFits
  <1>8. CommandsFit'
    BY <1>2, <1>5 DEF CliInv, CommandsFit, CommandFits, Holding
  <1>9. FileFits'
    BY <1>1, <1>3, <1>5 DEF CliInv, FileFits, Saved, Holding
  <1>10. HolderFits'
    BY <1>1, <1>5 DEF CliInv, HolderFits, Saved, InHand
  <1>11. NewFits'
    BY <1>1, <1>2, <1>5 DEF CliInv, NewFits, Saved, InHand, BringsNew
  <1>12. NeverRefreshedTwice'
    BY <1>1, <1>5 DEF CliInv, NeverRefreshedTwice, At, InHand, Holding
  <1>13. NoStraySignIn'
    <2> SUFFICES ASSUME NEW g \in Families \ astray', grants'[g].state = "live",
                        ~(Saved /\ file.fam = g)
                 PROVE  \E q \in Processes :
                          /\ \/ cmds'[q].pc \in {"answer", "retire"}
                             \/ cmds'[q].pc = "lock" /\ cmds'[q].kind = "login"
                          /\ cmds'[q].cur.fam = g
      BY DEF NoStraySignIn, Saved, At
    <2>1. CASE g = f
      BY <1>2, <1>5, <2>1
    <2>2. CASE g # f
      <3>1. PICK q \in Processes :
              /\ cmds[q].pc \in {"answer", "retire"} \/ (cmds[q].pc = "lock" /\ cmds[q].kind = "login")
              /\ cmds[q].cur.fam = g
        BY <1>1, <1>5, <2>2 DEF CliInv, NoStraySignIn, At
      <3> QED BY <1>5, <3>1
    <2> QED BY <2>1, <2>2
  <1> QED BY <1>6, <1>7, <1>8, <1>9, <1>10, <1>11, <1>12, <1>13 DEF CliInv

\* A login saves its sign-in, and takes the one it replaces in hand.
LEMMA ReplaceInv ==
    ASSUME CliInv, NEW p \in Processes, Replace(p)
    PROVE  CliInv'
  <1> DEFINE s == cmds[p].cur
             f == s.fam
  <1>1. /\ BringsNew(p) /\ lock = None /\ file' = s
        /\ UNCHANGED <<lock, grants, due, over, lost, astray>>
    BY DEF Replace, At, accountsVars, BringsNew
  <1>2. s \in Sessions /\ f \in Families /\ s.gen \in Nat /\ s # Missing /\ s # Unreadable
    BY <1>1, HandFields, SessionFields DEF InHand
  <1>3. /\ grants[f].state # "unused" /\ s.gen = grants[f].gen /\ (Saved => file.fam # f)
        /\ \A q \in Processes \ {p} : BringsNew(q) => cmds[q].cur.fam # f
    BY <1>1 DEF CliInv, NewFits, InHand
  <1>4. \A q \in Processes : cmds[q].pc \notin Holding
    BY <1>1, NoHolder
  <1>5. Saved => file \in Sessions /\ file # None
    BY TypeParts, SessionFields
  <1>6. \/ ~Saved /\ Now(p, "idle", "call", None)
        \/ Saved /\ Now(p, "retire", "login", file)
    <2>1. CASE ~Saved
      BY <2>1, TypeParts, FinishIs DEF Replace, Previous
    <2>2. CASE Saved
      <3>1. Hold(p, "retire", file) /\ "retire" \in Pcs /\ cmds[p].kind = "login"
        BY <1>1, <1>5, <2>2 DEF Replace, Previous, Pcs, BringsNew
      <3> QED BY <1>5, <2>2, <3>1, TypeParts, HoldIs
    <2> QED BY <2>1, <2>2
  <1>7. /\ \A q \in Processes \ {p} : cmds'[q] = cmds[q]
        /\ \/ ~Saved /\ cmds'[p].pc = "idle" /\ cmds'[p].kind = "call"
           \/ Saved /\ cmds'[p].pc = "retire" /\ cmds'[p].kind = "login" /\ cmds'[p].cur = file
        /\ cmds'[p].pc \notin Holding /\ cmds' \in [Processes -> Commands]
    BY <1>6 DEF Now, Holding
  <1>8. SessionTypeOK'
    BY <1>1, <1>2, <1>7 DEF CliInv, SessionTypeOK
  <1>9. LockFits'
    BY <1>1, <1>4, <1>7, CliAssumption DEF LockFits
  <1>10. CommandsFit'
    BY <1>5, <1>7 DEF CliInv, CommandsFit, CommandFits, Holding
  <1>11. FileFits'
    BY <1>1, <1>3 DEF FileFits
  <1>12. HolderFits'
    BY <1>4, <1>7 DEF HolderFits
  <1>13. NewFits'
    BY <1>1, <1>3, <1>4, <1>7 DEF CliInv, NewFits, InHand, BringsNew
  <1>14. NeverRefreshedTwice'
    BY <1>4, <1>7 DEF NeverRefreshedTwice, At, Holding
  <1>15. NoStraySignIn'
    <2> SUFFICES ASSUME NEW g \in Families \ astray, grants[g].state = "live", g # f
                 PROVE  \E q \in Processes :
                          /\ \/ cmds'[q].pc \in {"answer", "retire"}
                             \/ cmds'[q].pc = "lock" /\ cmds'[q].kind = "login"
                          /\ cmds'[q].cur.fam = g
      BY <1>1, <1>2 DEF NoStraySignIn, Saved, At
    <2>1. CASE Saved /\ file.fam = g
      BY <1>7, <2>1
    <2>2. CASE ~(Saved /\ file.fam = g)
      <3>1. PICK q \in Processes :
              /\ cmds[q].pc \in {"answer", "retire"} \/ (cmds[q].pc = "lock" /\ cmds[q].kind = "login")
              /\ cmds[q].cur.fam = g
        BY <2>2 DEF CliInv, NoStraySignIn, At
      <3> QED BY <1>7, <3>1
    <2> QED BY <2>1, <2>2
  <1> QED BY <1>8, <1>9, <1>10, <1>11, <1>12, <1>13, <1>14, <1>15 DEF CliInv

\* logout removes a file it cannot read.
LEMMA ClearInv ==
    ASSUME CliInv, NEW p \in Processes, cmds[p].pc = "lock", cmds[p].kind = "logout",
           lock = None, ~Saved, file' = Missing, Finish(p),
           UNCHANGED <<lock, accountsVars, lost, astray>>
    PROVE  CliInv'
  <1>1. Now(p, "idle", "call", None)
    BY TypeParts, FinishIs
  <1>2. /\ cmds'[p].pc = "idle" /\ cmds'[p].kind = "call" /\ cmds' \in [Processes -> Commands]
        /\ \A q \in Processes \ {p} : cmds'[q] = cmds[q]
        /\ UNCHANGED <<lock, grants, due, over, lost, astray>>
    BY <1>1 DEF Now, accountsVars
  <1>3. \A q \in Processes : cmds[q].pc \notin Holding
    BY NoHolder
  <1>4. SessionTypeOK'
    BY <1>2 DEF CliInv, SessionTypeOK
  <1>5. LockFits' /\ HolderFits' /\ NeverRefreshedTwice' /\ FileFits'
    BY <1>2, <1>3, CliAssumption
       DEF LockFits, HolderFits, NeverRefreshedTwice, FileFits, Saved, At, Holding
  <1>6. CommandsFit'
    BY <1>2 DEF CliInv, CommandsFit, CommandFits, Holding
  <1>7. NewFits'
    BY <1>2 DEF CliInv, NewFits, Saved, InHand, BringsNew, Holding
  <1>8. NoStraySignIn'
    BY <1>2 DEF CliInv, NoStraySignIn, Saved, At
  <1> QED BY <1>4, <1>5, <1>6, <1>7, <1>8 DEF CliInv

\* An access token gets old: no sign-in changes by that.
LEMMA TokenAgesInv ==
    ASSUME CliInv, NEW f \in Families, TokenAges(f)
    PROVE  CliInv'
  <1>1. UNCHANGED <<file, lock, grants, over, cmds, lost, astray>>
    BY DEF TokenAges
  <1>2. due' \in [Families -> 0 .. MaxGen]
    <2>1. due \in [Families -> 0 .. MaxGen] /\ grants[f].gen \in 0 .. MaxGen /\ due[f] < grants[f].gen
      BY TypeParts DEF TokenAges, CliInv, SessionTypeOK
    <2>2. due[f] + 1 \in 0 .. MaxGen
      BY <2>1, CliAssumption
    <2> QED BY <2>1, <2>2 DEF TokenAges
  <1>3. SessionTypeOK'
    BY <1>1, <1>2 DEF CliInv, SessionTypeOK
  <1>4. LockFits' /\ CommandsFit' /\ FileFits' /\ HolderFits'
    BY <1>1 DEF CliInv, LockFits, CommandsFit, CommandFits, FileFits, HolderFits, Saved
  <1>5. NewFits' /\ NeverRefreshedTwice' /\ NoStraySignIn'
    BY <1>1 DEF CliInv, NewFits, InHand, BringsNew, NeverRefreshedTwice, NoStraySignIn, Saved, At
  <1> QED BY <1>3, <1>4, <1>5 DEF CliInv

\* The file is damaged: the sign-in it held is astray.
LEMMA DamageInv ==
    ASSUME CliInv, Damage
    PROVE  CliInv'
  <1>1. /\ Saved /\ file' = Unreadable /\ astray' = astray \cup LiveOf(file)
        /\ UNCHANGED <<lock, grants, due, over, cmds, lost>>
    BY DEF Damage, accountsVars
  <1>2. file.fam \in Families /\ astray' \subseteq Families
    BY <1>1, KnownFamilies, TypeParts DEF LiveOf
  <1>3. astray \subseteq astray' /\ (grants[file.fam].state = "live" => file.fam \in astray')
    BY <1>1 DEF LiveOf
  <1>4. SessionTypeOK'
    BY <1>1, <1>2 DEF CliInv, SessionTypeOK
  <1>5. LockFits' /\ CommandsFit' /\ FileFits'
    BY <1>1 DEF CliInv, LockFits, CommandsFit, CommandFits, FileFits, Saved
  <1>6. HolderFits'
    BY <1>1, <1>3 DEF CliInv, HolderFits, Saved
  <1>7. NewFits' /\ NeverRefreshedTwice'
    BY <1>1 DEF CliInv, NewFits, InHand, BringsNew, NeverRefreshedTwice, Saved, At
  <1>8. NoStraySignIn'
    BY <1>1, <1>3 DEF CliInv, NoStraySignIn, Saved, At
  <1> QED BY <1>4, <1>5, <1>6, <1>7, <1>8 DEF CliInv

\* A command that ends away from the lock with nothing in hand.
LEMMA QuietFinish ==
    ASSUME CliInv, NEW p \in Processes, Finish(p),
           cmds[p].pc \notin Holding \cup {"retire"}, ~BringsNew(p),
           UNCHANGED <<file, lock, accountsVars, lost, astray>>
    PROVE  CliInv'
  <1>1. Now(p, "idle", "call", None)
    BY TypeParts, FinishIs
  <1>2. CommandFits(cmds'[p])
    BY <1>1 DEF Now, CommandFits, Holding
  <1>3. "idle" \notin Holding
    BY DEF Holding
  <1> QED BY <1>1, <1>2, <1>3, TypeParts, QuietInv

\* A command that moves on away from the lock with nothing in hand to lose.
LEMMA QuietNow ==
    ASSUME CliInv, NEW p \in Processes, NEW pc, NEW kind, NEW cur, Now(p, pc, kind, cur),
           CommandFits(cmds'[p]), pc \notin Holding, ~(pc = "lock" /\ kind = "login"),
           cmds[p].pc \notin Holding \cup {"retire"}, ~BringsNew(p),
           UNCHANGED <<file, lock, accountsVars, lost, astray>>
    PROVE  CliInv'
  BY TypeParts, QuietInv

\* A command is typed.
LEMMA StartInv ==
    ASSUME CliInv, NEW p \in Processes, NEW kind \in Kinds, Start(p, kind)
    PROVE  CliInv'
  <1>1. PICK pc \in FirstSteps(kind) :
          cmds' = [cmds EXCEPT ![p] = [Idle EXCEPT !.kind = kind, !.pc = pc]]
    BY DEF Start
  <1> DEFINE new == [Idle EXCEPT !.kind = kind, !.pc = pc]
  <1>2. /\ pc \in {"load", "poll", "exchange", "look"}
        /\ pc \in {"poll", "exchange"} <=> kind = "login"
        /\ pc = "look" => kind \in {"status", "refresh", "logout"}
        /\ pc \in Pcs
    BY <1>1 DEF FirstSteps, Pcs, Kinds
  <1>3. new \in Commands /\ new.pc = pc /\ new.kind = kind /\ new.cur = None
    BY <1>2, IdleFields DEF Commands
  <1> HIDE DEF new
  <1>4. cmds' = [cmds EXCEPT ![p] = new]
    BY <1>1 DEF new
  <1>5. Now(p, pc, kind, None)
    BY <1>3, <1>4, TypeParts DEF Now
  <1>6. CommandFits(cmds'[p]) /\ pc \notin Holding /\ pc # "lock"
    BY <1>2, <1>5 DEF Now, CommandFits, Holding
  <1>7. cmds[p].pc = "idle" /\ cmds[p].pc \notin Holding \cup {"retire"} /\ ~BringsNew(p)
        /\ UNCHANGED <<file, lock, accountsVars, lost, astray>>
    BY DEF Start, At, Holding, BringsNew
  <1> QED BY <1>5, <1>6, <1>7, QuietNow

\* The first look of status, refresh and logout.
LEMMA LookInv ==
    ASSUME CliInv, NEW p \in Processes, Look(p)
    PROVE  CliInv'
  <1>1. /\ cmds[p].pc = "look" /\ cmds[p].kind \in {"status", "refresh", "logout"}
        /\ cmds[p].pc \notin Holding \cup {"retire"} /\ ~BringsNew(p)
        /\ UNCHANGED <<file, lock, accountsVars, lost, astray>>
    BY DEF Look, At, Holding, BringsNew, CliInv, CommandsFit, CommandFits
  <1>2. \/ Finish(p)
        \/ Move(p, "load")
        \/ Move(p, "lock") /\ cmds[p].kind = "logout"
        \/ Saved /\ cmds' = [cmds EXCEPT ![p].pc = "load", ![p].refused = file]
    <2>1. CASE file = Missing
      BY <2>1 DEF Look
    <2>2. CASE file = Unreadable
      BY <2>2, CliAssumption DEF Look
    <2>3. CASE file \notin {Missing, Unreadable} /\ cmds[p].kind = "status"
      BY <2>3 DEF Look
    <2>4. CASE file \notin {Missing, Unreadable} /\ cmds[p].kind = "refresh"
      BY <2>4 DEF Look, Saved
    <2>5. CASE file \notin {Missing, Unreadable} /\ cmds[p].kind = "logout"
      BY <2>5 DEF Look
    <2> QED BY <1>1, <2>1, <2>2, <2>3, <2>4, <2>5
  <1>3. CASE Finish(p)
    BY <1>1, <1>3, QuietFinish
  <1>4. \/ Finish(p)
        \/ Now(p, "load", cmds[p].kind, cmds[p].cur)
        \/ Now(p, "lock", cmds[p].kind, cmds[p].cur) /\ cmds[p].kind = "logout"
    <2>1. "load" \in Pcs /\ "lock" \in Pcs
      BY DEF Pcs
    <2>2. CASE Saved /\ cmds' = [cmds EXCEPT ![p].pc = "load", ![p].refused = file]
      <3> DEFINE new == [cmds[p] EXCEPT !.pc = "load", !.refused = file]
      <3>1. file \in Sessions /\ cmds \in [Processes -> Commands]
        BY <2>2, TypeParts
      <3>2. cmds' = [cmds EXCEPT ![p] = new]
        BY <2>2, <3>1
      <3>3. new \in Commands /\ new.pc = "load" /\ new.kind = cmds[p].kind /\ new.cur = cmds[p].cur
        BY <2>1, <3>1, CommandFields DEF Commands
      <3> HIDE DEF new
      <3> QED BY <3>1, <3>2, <3>3 DEF Now
    <2> QED BY <1>2, <2>1, <2>2, TypeParts, MoveIs
  <1>5. ASSUME NEW pc \in {"load", "lock"}, Now(p, pc, cmds[p].kind, cmds[p].cur),
               pc = "lock" => cmds[p].kind = "logout"
        PROVE  CliInv'
    <2>1. CommandFits(cmds'[p]) /\ pc \notin Holding /\ ~(pc = "lock" /\ cmds[p].kind = "login")
      BY <1>1, <1>5 DEF Now, CommandFits, Holding
    <2> QED BY <1>1, <1>5, <2>1, QuietNow
  <1> QED BY <1>3, <1>4, <1>5

\* What ensure_fresh returns is used.
LEMMA UseInv ==
    ASSUME CliInv, NEW p \in Processes, NEW s \in Sessions, Use(p, s), cmds[p].kind # "login",
           cmds[p].pc \in {"load", "lock"},
           UNCHANGED <<file, lock, accountsVars, lost, astray>>
    PROVE  CliInv'
  <1>1. cmds[p].pc \notin Holding \cup {"retire"} /\ ~BringsNew(p)
    BY DEF Holding, BringsNew
  <1>2. CASE Finish(p)
    BY <1>1, <1>2, QuietFinish
  <1>3. CASE Hold(p, "op", s)
    <2>1. "op" \in Pcs /\ "op" \notin Holding
      BY DEF Pcs, Holding
    <2>2. Now(p, "op", cmds[p].kind, s)
      BY <1>3, <2>1, TypeParts, HoldIs
    <2>3. CommandFits(cmds'[p])
      BY <2>2 DEF Now, CommandFits, Holding
    <2> QED BY <1>1, <2>1, <2>2, <2>3, QuietNow
  <1> QED BY <1>2, <1>3 DEF Use

\* The load without the lock.
LEMMA LoadInv ==
    ASSUME CliInv, NEW p \in Processes, Load(p)
    PROVE  CliInv'
  <1>1. /\ cmds[p].pc = "load" /\ cmds[p].kind # "login"
        /\ cmds[p].pc \notin Holding \cup {"retire"} /\ ~BringsNew(p)
        /\ UNCHANGED <<file, lock, accountsVars, lost, astray>>
    BY DEF Load, At, Holding, BringsNew, CliInv, CommandsFit, CommandFits
  <1>2. Finish(p) \/ (Saved /\ (Use(p, file) \/ Hold(p, "lock", file)))
    BY DEF Load
  <1>3. CASE Finish(p)
    BY <1>1, <1>3, QuietFinish
  <1>4. CASE Saved /\ Use(p, file)
    BY <1>1, <1>4, TypeParts, UseInv
  <1>5. CASE Saved /\ Hold(p, "lock", file)
    <2>1. "lock" \in Pcs /\ "lock" \notin Holding /\ file \in Sessions /\ file # None
      BY <1>5, TypeParts, SessionFields DEF Pcs, Holding
    <2>2. Now(p, "lock", cmds[p].kind, file)
      BY <1>5, <2>1, TypeParts, HoldIs
    <2>3. CommandFits(cmds'[p])
      BY <2>1, <2>2 DEF Now, CommandFits, Holding
    <2> QED BY <1>1, <2>1, <2>2, <2>3, QuietNow
  <1> QED BY <1>2, <1>3, <1>4, <1>5

\* The load under the lock.
LEMMA LockToRefreshInv ==
    ASSUME CliInv, NEW p \in Processes, LockToRefresh(p)
    PROVE  CliInv'
  <1>1. /\ cmds[p].pc = "lock" /\ cmds[p].kind # "login" /\ lock = None /\ Recheck(p)
        /\ cmds[p].pc \notin Holding \cup {"retire"} /\ ~BringsNew(p)
        /\ UNCHANGED <<file, accountsVars, lost, astray>>
    BY DEF LockToRefresh, At, Holding, BringsNew
  <1>2. \/ Finish(p) /\ UNCHANGED lock
        \/ Saved /\ Use(p, file) /\ UNCHANGED lock
        \/ Saved /\ Hold(p, "present", file) /\ lock' = p
    BY <1>1 DEF Recheck
  <1>3. CASE Finish(p) /\ UNCHANGED lock
    BY <1>1, <1>3, QuietFinish
  <1>4. CASE Saved /\ Use(p, file) /\ UNCHANGED lock
    BY <1>1, <1>4, TypeParts, UseInv
  <1>5. CASE Saved /\ Hold(p, "present", file) /\ lock' = p
    <2>1. Now(p, "present", cmds[p].kind, file)
      BY <1>5, TypeParts, HoldIs DEF Pcs
    <2> QED BY <1>1, <1>5, <2>1, TakenInv
  <1> QED BY <1>2, <1>3, <1>4, <1>5

\* A command that ends away from the lock, with what it had in hand astray.
LEMMA AstrayInv ==
    ASSUME CliInv, NEW p \in Processes, Finish(p), cmds[p].pc \notin Holding,
           UNCHANGED <<file, lock, accountsVars, lost>>,
           \/ astray' = astray \cup {} /\ cmds[p].pc # "retire" /\ ~BringsNew(p)
           \/ astray' = astray \cup LiveOf(cmds[p].cur) /\ (BringsNew(p) \/ cmds[p].pc = "retire")
    PROVE  CliInv'
  <1>1. Now(p, "idle", "call", None)
    BY TypeParts, FinishIs
  <1>2. CommandFits(cmds'[p]) /\ "idle" \notin Holding
    BY <1>1 DEF Now, CommandFits, Holding
  <1>3. astray \subseteq astray' /\ astray' \subseteq Families
    BY TypeParts, HandFields DEF LiveOf, InHand
  <1>4. cmds[p].pc = "retire" \/ BringsNew(p) => LiveOf(cmds[p].cur) \subseteq astray'
    OBVIOUS
  <1> QED BY <1>1, <1>2, <1>3, <1>4, QuietInv

\* A process is killed.
LEMMA DieInv ==
    ASSUME CliInv, NEW p \in Processes, Die(p)
    PROVE  CliInv'
  <1>1. /\ Finish(p) /\ UNCHANGED <<file, accountsVars>>
        /\ lost' = lost \cup (IF cmds[p].pc = "answer" THEN LiveOf(cmds[p].cur) ELSE {})
        /\ astray' = astray \cup
             (IF cmds[p].kind = "login" /\ cmds[p].pc \in {"lock", "retire"} THEN LiveOf(cmds[p].cur) ELSE {})
        /\ lock' = IF lock = p THEN None ELSE lock
    BY DEF Die, At
  <1>2. /\ cmds[p].pc = "retire" => cmds[p].kind = "login"
        /\ cmds[p].pc \in Holding => cmds[p].kind # "login"
        /\ lock = p <=> cmds[p].pc \in Holding
    BY DEF CliInv, CommandsFit, CommandFits, LockFits
  <1>3. CASE cmds[p].pc \in Holding
    <2>1. lock' = None /\ astray' = astray
      BY <1>1, <1>2, <1>3
    <2>2. lost \subseteq lost' /\ lost' \subseteq Families
          /\ (cmds[p].pc = "answer" => LiveOf(cmds[p].cur) \subseteq lost')
      BY <1>1, <1>3, TypeParts, HandFields DEF LiveOf, InHand
    <2>3. Now(p, "idle", "call", None)
      BY <1>1, TypeParts, FinishIs
    <2> QED BY <1>1, <1>3, <2>1, <2>2, <2>3, LetGoInv
  <1>4. CASE cmds[p].pc \notin Holding
    <2>1. lock' = lock /\ lost' = lost
      BY <1>1, <1>2, <1>4 DEF Holding
    <2>2. \/ astray' = astray \cup {} /\ cmds[p].pc # "retire" /\ ~BringsNew(p)
          \/ astray' = astray \cup LiveOf(cmds[p].cur) /\ (BringsNew(p) \/ cmds[p].pc = "retire")
      BY <1>1, <1>2 DEF BringsNew
    <2> QED BY <1>1, <1>4, <2>1, <2>2, AstrayInv
  <1> QED BY <1>3, <1>4

\* The revocation of login or logout, arrived or not.
LEMMA RevokeInv ==
    ASSUME CliInv, NEW p \in Processes, Revoked(p) \/ RevokeFails(p)
    PROVE  CliInv'
  <1>1. Now(p, "idle", "call", None) /\ Finish(p) /\ cmds[p].pc \in {"retire", "revoke"}
    BY TypeParts, FinishIs DEF Revoked, RevokeFails
  <1>2. CASE Revoked(p) /\ cmds[p].pc = "revoke"
    <2>1. cmds[p].pc \in Holding /\ lock' = None /\ file' = Missing /\ EndGrant(cmds[p].cur.fam)
          /\ UNCHANGED <<due, over>>
      BY <1>2 DEF Revoked, At, Holding
    <2> QED BY <1>1, <2>1, HolderEndsInv
  <1>3. CASE Revoked(p) /\ cmds[p].pc = "retire"
    <2>1. /\ EndGrant(cmds[p].cur.fam) /\ UNCHANGED <<file, lock, due, over>>
      BY <1>3 DEF Revoked, At
    <2>2. cmds[p].cur.fam \in Families /\ over' \subseteq Families
      BY <1>3, <2>1, HandFields DEF CliInv, SessionTypeOK
    <2>3. \A q \in Processes : \/ cmds'[q] = cmds[q]
                               \/ /\ cmds[q].pc = "retire" /\ cmds[q].cur.fam = cmds[p].cur.fam
                                  /\ cmds'[q].pc = "idle" /\ cmds'[q].kind = "call"
      BY <1>1, <1>3 DEF Now
    <2> QED BY <1>1, <2>1, <2>2, <2>3, EndedInv DEF Now
  <1>4. CASE RevokeFails(p) /\ cmds[p].pc = "revoke"
    <2>1. /\ cmds[p].pc \in Holding /\ cmds[p].pc # "answer" /\ lock' = None /\ file' = Missing
          /\ UNCHANGED <<accountsVars, lost>> /\ astray' = astray \cup LiveOf(cmds[p].cur)
      BY <1>4 DEF RevokeFails, At, Holding
    <2> QED BY <1>1, <2>1, AbandonInv
  <1>5. CASE RevokeFails(p) /\ cmds[p].pc = "retire"
    <2>1. /\ UNCHANGED <<file, lock, accountsVars, lost>> /\ astray' = astray \cup LiveOf(cmds[p].cur)
          /\ cmds[p].pc \notin Holding
      BY <1>5 DEF RevokeFails, At, Holding
    <2> QED BY <1>1, <1>5, <2>1, AstrayInv
  <1> QED BY <1>1, <1>2, <1>3, <1>4, <1>5

\* The other ways a refresh ends.
LEMMA RefreshEndsInv ==
    ASSUME CliInv, NEW p \in Processes, RefreshRefused(p) \/ RefreshFails(p) \/ RotatedLost(p)
    PROVE  CliInv'
  <1>1. Now(p, "idle", "call", None) /\ lock' = None /\ cmds[p].pc \in Holding
    BY TypeParts, FinishIs DEF RefreshRefused, RefreshFails, RotatedLost, At, Holding
  <1>2. CASE RefreshRefused(p)
    <2>1. EndGrant(cmds[p].cur.fam) /\ UNCHANGED <<due, over>> /\ file' \in {file, Missing}
      BY <1>2 DEF RefreshRefused
    <2> QED BY <1>1, <2>1, HolderEndsInv
  <1>3. CASE RefreshFails(p) \/ RotatedLost(p)
    <2>1. /\ UNCHANGED <<file, accountsVars, astray>>
          /\ (lost' = lost /\ cmds[p].pc = "present") \/ lost' = lost \cup LiveOf(cmds[p].cur)
      BY <1>3 DEF RefreshFails, RotatedLost, At
    <2>2. lost \subseteq lost' /\ lost' \subseteq Families
          /\ (cmds[p].pc = "answer" => LiveOf(cmds[p].cur) \subseteq lost')
      BY <1>1, <2>1, TypeParts, HandFields DEF LiveOf, InHand
    <2> QED BY <1>1, <2>1, <2>2, LetGoInv
  <1> QED BY <1>2, <1>3

\* Waveform's answer to the call, and remember_account after `status`.
LEMMA AnsweredInv ==
    ASSUME CliInv, NEW p \in Processes, Answered(p) \/ Stale(p) \/ Remember(p)
    PROVE  CliInv'
  <1>1. /\ cmds[p].pc \in {"op", "remember"} /\ cmds[p].kind # "login"
        /\ cmds[p].pc \notin Holding \cup {"retire"} /\ ~BringsNew(p)
        /\ UNCHANGED <<file, lock, accountsVars, lost, astray>>
    BY DEF Answered, Stale, Remember, RememberLatest, At, Holding, BringsNew, CliInv, CommandsFit, CommandFits
  <1>2. CASE Finish(p)
    BY <1>1, <1>2, QuietFinish
  <1>3. CASE Answered(p) /\ ~Finish(p)
    <2>1. Now(p, "remember", cmds[p].kind, cmds[p].cur)
      BY <1>3, TypeParts, MoveIs DEF Answered, Pcs
    <2>2. CommandFits(cmds'[p]) /\ "remember" \notin Holding
      BY <1>1, <2>1 DEF Now, CommandFits, Holding
    <2> QED BY <1>1, <2>1, <2>2, QuietNow
  <1>4. CASE Stale(p)
    <2> DEFINE yes == TRUE
               new == [cmds[p] EXCEPT !.pc = "load", !.again = yes, !.refused = cmds[p].cur, !.cur = None]
    <2>1. cmds \in [Processes -> Commands] /\ "load" \in Pcs /\ yes \in BOOLEAN
      BY TypeParts DEF Pcs
    <2>2. cmds' = [cmds EXCEPT ![p] = new]
      BY <1>4, <2>1 DEF Stale
    <2> HIDE DEF yes
    <2>3. new \in Commands /\ new.pc = "load" /\ new.kind = cmds[p].kind /\ new.cur = None
      BY <2>1, CommandFields DEF Commands
    <2> HIDE DEF new
    <2>4. Now(p, "load", cmds[p].kind, None)
      BY <2>1, <2>2, <2>3 DEF Now
    <2>5. CommandFits(cmds'[p]) /\ "load" \notin Holding
      BY <1>1, <2>4 DEF Now, CommandFits, Holding
    <2> QED BY <1>1, <2>4, <2>5, QuietNow
  <1> QED BY <1>2, <1>3, <1>4 DEF Remember

\* A login, a logout or remember_account does not get the lock, or does.
LEMMA LockedInv ==
    ASSUME CliInv, NEW p \in Processes, LockTimesOut(p) \/ ReplaceFails(p) \/ LockToLogout(p)
    PROVE  CliInv'
  <1>1. CASE LockTimesOut(p)
    <2>1. /\ Finish(p) /\ UNCHANGED <<file, lock, accountsVars, lost>> /\ cmds[p].pc \in {"lock", "remember"}
          /\ astray' = astray \cup (IF cmds[p].kind = "login" THEN LiveOf(cmds[p].cur) ELSE {})
          /\ cmds[p].pc \notin Holding
      BY <1>1 DEF LockTimesOut, Holding
    <2>2. cmds[p].pc = "remember" => cmds[p].kind # "login"
      BY DEF CliInv, CommandsFit, CommandFits
    <2>3. \/ astray' = astray \cup {} /\ cmds[p].pc # "retire" /\ ~BringsNew(p)
          \/ astray' = astray \cup LiveOf(cmds[p].cur) /\ (BringsNew(p) \/ cmds[p].pc = "retire")
      BY <2>1, <2>2 DEF BringsNew
    <2> QED BY <2>1, <2>3, AstrayInv
  <1>2. CASE ReplaceFails(p)
    <2>1. /\ Finish(p) /\ UNCHANGED <<file, lock, accountsVars, lost>> /\ BringsNew(p)
          /\ astray' = astray \cup LiveOf(cmds[p].cur) /\ cmds[p].pc \notin Holding
      BY <1>2 DEF ReplaceFails, At, BringsNew, Holding
    <2> QED BY <2>1, AstrayInv
  <1>3. CASE LockToLogout(p)
    <2>1. /\ cmds[p].pc = "lock" /\ cmds[p].kind = "logout" /\ lock = None
          /\ UNCHANGED <<accountsVars, lost, astray>>
      BY <1>3 DEF LockToLogout, At
    <2>2. CASE Saved
      <3>1. Hold(p, "revoke", file) /\ lock' = p /\ UNCHANGED file
        BY <1>3, <2>2 DEF LockToLogout
      <3>2. Now(p, "revoke", cmds[p].kind, file)
        BY <2>2, <3>1, TypeParts, HoldIs DEF Pcs
      <3> QED BY <2>1, <2>2, <3>1, <3>2, TakenInv
    <2>3. CASE ~Saved
      <3>1. file' = Missing /\ Finish(p) /\ UNCHANGED lock
        BY <1>3, <2>3 DEF LockToLogout
      <3> QED BY <2>1, <2>3, <3>1, ClearInv
    <2> QED BY <2>2, <2>3
  <1> QED BY <1>1, <1>2, <1>3

\* A sign-in ends elsewhere.
LEMMA GrantEndsInv ==
    ASSUME CliInv, NEW f \in Families, GrantEnds(f)
    PROVE  CliInv'
  <1>1. EndGrant(f) /\ UNCHANGED <<file, lock, due, cmds>> /\ over' \subseteq Families
    BY DEF GrantEnds, CliInv, SessionTypeOK
  <1> QED BY <1>1, TypeParts, EndedInv

\* Before the first command.
LEMMA CliInitInv ==
    ASSUME SessionInit
    PROVE  CliInv
  <1>1. /\ file = Missing /\ lock = None /\ cmds = [p \in Processes |-> Idle]
        /\ due = [f \in Families |-> 0] /\ over = {} /\ lost = {} /\ astray = {}
        /\ grants = [f \in Families |-> [owner |-> None, gen |-> 0, state |-> "unused"]]
    BY DEF SessionInit
  <1>2. 0 \in 0 .. MaxGen
    BY CliAssumption
  <1>3. \A p \in Processes : cmds[p] \in Commands /\ cmds[p].pc = "idle" /\ cmds[p].kind = "call"
    BY <1>1, IdleFields
  <1>4. \A f \in Families : grants[f].state = "unused"
    BY <1>1
  <1>5. SessionTypeOK
    BY <1>1, <1>2, <1>3 DEF SessionTypeOK
  <1>6. LockFits /\ CommandsFit /\ HolderFits /\ NeverRefreshedTwice
    BY <1>1, <1>3, CliAssumption
       DEF LockFits, CommandsFit, CommandFits, HolderFits, NeverRefreshedTwice, At, Holding
  <1>7. FileFits /\ NewFits /\ NoStraySignIn
    BY <1>1, <1>3, <1>4 DEF FileFits, NewFits, BringsNew, NoStraySignIn, Saved
  <1> QED BY <1>5, <1>6, <1>7 DEF CliInv

\* Every step keeps the invariant.
LEMMA CliNextInv ==
    ASSUME CliInv, [SessionNext]_sessionVars
    PROVE  CliInv'
  <1>1. CASE UNCHANGED sessionVars
    <2>1. UNCHANGED <<file, lock, grants, due, over, cmds, lost, astray>>
      BY <1>1 DEF sessionVars
    <2>2. SessionTypeOK' /\ LockFits' /\ CommandsFit' /\ FileFits' /\ HolderFits'
      BY <2>1 DEF CliInv, SessionTypeOK, LockFits, CommandsFit, CommandFits, FileFits, HolderFits, Saved
    <2>3. NewFits' /\ NeverRefreshedTwice' /\ NoStraySignIn'
      BY <2>1 DEF CliInv, NewFits, InHand, BringsNew, NeverRefreshedTwice, NoStraySignIn, Saved, At
    <2> QED BY <2>2, <2>3 DEF CliInv
  <1>2. ASSUME NEW p \in Processes, Step(p) PROVE CliInv'
    <2>1. CASE (\E kind \in Kinds : Start(p, kind)) \/ Look(p) \/ Load(p) \/ LockToRefresh(p)
      BY <2>1, StartInv, LookInv, LoadInv, LockToRefreshInv
    <2>2. CASE Rotate(p) \/ RefreshRefused(p) \/ RefreshFails(p) \/ RotatedSaved(p) \/ RotatedLost(p)
      BY <2>2, RotateInv, RefreshEndsInv, RotatedSavedInv
    <2>3. CASE Answered(p) \/ Stale(p) \/ Remember(p)
      BY <2>3, AnsweredInv
    <2>4. ASSUME NEW f \in Families, NEW who \in People,
                 DeviceApproved(p, f, who) \/ SltExchanged(p, f, who) \/ SignInLost(p, f, who)
          PROVE  CliInv'
      BY <2>4, MadeInv DEF DeviceApproved, SltExchanged, SignInLost, SignedIn, At
    <2>5. CASE DeviceFails(p) \/ SltRefused(p)
      <3>1. /\ cmds[p].pc \in {"poll", "exchange"} /\ Finish(p)
            /\ UNCHANGED <<file, lock, accountsVars, lost, astray>>
        BY <2>5 DEF DeviceFails, SltRefused, At
      <3> QED BY <3>1, QuietFinish DEF Holding, BringsNew
    <2>6. CASE LockTimesOut(p) \/ Replace(p) \/ ReplaceFails(p) \/ LockToLogout(p)
      BY <2>6, LockedInv, ReplaceInv
    <2>7. CASE Revoked(p) \/ RevokeFails(p) \/ Die(p)
      BY <2>7, RevokeInv, DieInv
    <2> QED BY <1>2, <2>1, <2>2, <2>3, <2>4, <2>5, <2>6, <2>7 DEF Step
  <1>3. ASSUME NEW f \in Families, TokenAges(f) \/ GrantEnds(f) PROVE CliInv'
    BY <1>3, TokenAgesInv, GrantEndsInv
  <1>4. CASE Damage
    BY <1>4, DamageInv
  <1> QED BY <1>1, <1>2, <1>3, <1>4 DEF SessionNext
-----------------------------------------------------------------------------
(***************************************************************************)
(* The theorems                                                            *)
(***************************************************************************)

\* The invariant of the session file and its lock, for any number of
\* processes, people, sign-ins and rotations.
THEOREM CliInvariant == SessionSpec => []CliInv
  <1>1. SessionInit => CliInv
    BY CliInitInv
  <1>2. CliInv /\ [SessionNext]_sessionVars => CliInv'
    BY CliNextInv
  <1> QED BY <1>1, <1>2, PTL DEF SessionSpec

\* The file, the grants and the commands keep their shape.
THEOREM CliTypes == SessionSpec => []SessionTypeOK
  <1>1. CliInv => SessionTypeOK
    BY DEF CliInv
  <1> QED BY <1>1, CliInvariant, PTL

\* ensure_fresh presents the newest refresh token of a live sign-in, unless
\* the tokens of a rotation never reached the file.
THEOREM RefreshIsNotRepeated == SessionSpec => []NeverRefreshedTwice
  <1>1. CliInv => NeverRefreshedTwice
    BY DEF CliInv
  <1> QED BY <1>1, CliInvariant, PTL

\* A live sign-in is saved or in the hand of a command, or was given up.
THEOREM SignInsAreKeptTrackOf == SessionSpec => []NoStraySignIn
  <1>1. CliInv => NoStraySignIn
    BY DEF CliInv
  <1> QED BY <1>1, CliInvariant, PTL

\* Only a login writes the file of a signed-out client.
THEOREM LogoutIsFinal == SessionSpec => SignedOutStaysOut
  <1> DEFINE Brought == file = Missing /\ file' # Missing =>
                          \E p \in Processes : cmds[p].kind = "login" /\ cmds[p].pc = "lock"
  <1>1. CliInv /\ [SessionNext]_sessionVars => [Brought]_sessionVars
    <2> SUFFICES ASSUME CliInv, SessionNext, file = Missing, file' # Missing
                 PROVE  \E p \in Processes : cmds[p].kind = "login" /\ cmds[p].pc = "lock"
      BY DEF sessionVars
    <2>1. ~Saved
      BY DEF Saved
    <2>2. \A p \in Processes : cmds[p].pc \notin Holding
      BY <2>1, CliAssumption DEF CliInv, HolderFits
    <2>3. PICK p \in Processes : Step(p)
      BY <2>1 DEF SessionNext, TokenAges, GrantEnds, Damage
    <2>4. /\ ~(\E kind \in Kinds : Start(p, kind)) /\ ~Look(p) /\ ~Load(p) /\ ~LockToRefresh(p)
          /\ ~LockTimesOut(p) /\ ~Answered(p) /\ ~Stale(p) /\ ~Remember(p)
          /\ ~DeviceFails(p) /\ ~SltRefused(p) /\ ~ReplaceFails(p) /\ ~Die(p)
      BY DEF Start, Look, Load, LockToRefresh, LockTimesOut, Answered, Stale, Remember,
             RememberLatest, DeviceFails, SltRefused, ReplaceFails, Die
    <2>5. /\ ~Rotate(p) /\ ~RefreshRefused(p) /\ ~RefreshFails(p) /\ ~RotatedSaved(p) /\ ~RotatedLost(p)
      BY <2>2 DEF Rotate, RefreshRefused, RefreshFails, RotatedSaved, RotatedLost, At, Holding
    <2>6. ~LockToLogout(p) /\ ~Revoked(p) /\ ~RevokeFails(p)
      BY <2>1, <2>2 DEF LockToLogout, Revoked, RevokeFails, At, Holding
    <2>7. \A f \in Families, who \in People :
             ~DeviceApproved(p, f, who) /\ ~SltExchanged(p, f, who) /\ ~SignInLost(p, f, who)
      BY DEF DeviceApproved, SltExchanged, SignInLost, SignedIn
    <2>8. Replace(p)
      BY <2>3, <2>4, <2>5, <2>6, <2>7 DEF Step
    <2> QED BY <2>8 DEF Replace, At
  <1> QED BY <1>1, CliInvariant, PTL DEF SessionSpec, SignedOutStaysOut
=============================================================================
