------------------------ MODULE KeeperSettlement_proofs ------------------------
(***************************************************************************)
(* Theorems about KeeperSettlement, for any number of bets, any chunk and  *)
(* page, and any failures and restarts.                                    *)
(*                                                                         *)
(* The turns are a chain of at most two writers.  The invariant that makes *)
(* OneTransaction inductive says which of the five chains there is, by the *)
(* places of the examination and of the pass, and that whoever has a       *)
(* transaction on its way is at the head.                                  *)
(*                                                                         *)
(* A bet at work is queued or examined; a step lets go of it only when it  *)
(* is over.  After a start every open bet behind the scan is at work or in *)
(* the pages of the database still to come, and when the recovery is       *)
(* complete no page is to come.                                            *)
(***************************************************************************)
EXTENDS KeeperSettlement, SetInduction, FiniteSetTheorems, SequenceTheorems, TLAPS

Examining == {"judge", "refund", "finalize", "receipt"}
Voiding == {"attempt", "sent", "receipt"}

\* The chains of writers there can be.
D == Append(<<>>, "drain")
V == Append(<<>>, "void")
DV == Append(D, "void")
VD == Append(V, "drain")
Chains == {<<>>, D, V, DV, VD}

LEMMA ChainTable ==
  /\ <<>> \notin {D, V, DV, VD} /\ D \notin {V, DV, VD} /\ V \notin {DV, VD} /\ DV # VD
  /\ Tail(D) = <<>> /\ Tail(V) = <<>> /\ Tail(DV) = V /\ Tail(VD) = D
  /\ Append(<<>>, "drain") = D /\ Append(<<>>, "void") = V
  /\ Append(V, "drain") = VD /\ Append(D, "void") = DV
  /\ Head(D) = "drain" /\ Head(DV) = "drain" /\ Head(V) = "void" /\ Head(VD) = "void"
<1> DEFINE W == {"drain", "void"}
<1>0. ASSUME NEW s \in Seq(W), NEW e \in W
      PROVE  /\ Append(s, e) \in Seq(W) /\ Append(s, e) # <<>> /\ Len(Append(s, e)) = Len(s) + 1
             /\ Head(Append(s, e)) = IF s = <<>> THEN e ELSE Head(s)
             /\ Tail(Append(s, e)) = IF s = <<>> THEN <<>> ELSE Append(Tail(s), e)
  <2> HIDE DEF W
  <2>1. Append(s, e) \in Seq(W) /\ Append(s, e) # <<>> /\ Len(Append(s, e)) = Len(s) + 1
    BY <1>0, AppendProperties
  <2>2. /\ Head(Append(s, e)) = IF s = <<>> THEN e ELSE Head(s)
        /\ Tail(Append(s, e)) = IF s = <<>> THEN <<>> ELSE Append(Tail(s), e)
    BY <1>0, HeadTailAppend
  <2> QED BY <2>1, <2>2
<1>w. "drain" \in W /\ "void" \in W
  OBVIOUS
<1> HIDE DEF W
<1>1. <<>> \in Seq(W) /\ Len(<<>>) = 0
  BY EmptySeq
<1>2. /\ D \in Seq(W) /\ D # <<>> /\ Len(D) = 1 /\ Head(D) = "drain" /\ Tail(D) = <<>>
      /\ V \in Seq(W) /\ V # <<>> /\ Len(V) = 1 /\ Head(V) = "void" /\ Tail(V) = <<>>
  <2>1. /\ D \in Seq(W) /\ D # <<>> /\ Len(D) = Len(<<>>) + 1
        /\ V \in Seq(W) /\ V # <<>> /\ Len(V) = Len(<<>>) + 1
    BY <1>0, <1>w, <1>1, Zenon DEF D, V
  <2>2. Head(D) = "drain" /\ Tail(D) = <<>> /\ Head(V) = "void" /\ Tail(V) = <<>>
    BY <1>0, <1>w, <1>1, Zenon DEF D, V
  <2> QED BY <1>1, <2>1, <2>2
<1>3. /\ Len(DV) = 2 /\ Head(DV) = "drain" /\ Tail(DV) = V
      /\ Len(VD) = 2 /\ Head(VD) = "void" /\ Tail(VD) = D
  <2>1. Len(DV) = 2 /\ Len(VD) = 2
    BY <1>0, <1>w, <1>2, SMT DEF DV, VD
  <2>2. Head(DV) = "drain" /\ Tail(DV) = Append(<<>>, "void")
    BY <1>0, <1>w, <1>2, Zenon DEF DV
  <2>3. Head(VD) = "void" /\ Tail(VD) = Append(<<>>, "drain")
    BY <1>0, <1>w, <1>2, Zenon DEF VD
  <2> QED BY <2>1, <2>2, <2>3 DEF D, V
<1>4. <<>> \notin {D, V, DV, VD} /\ D \notin {V, DV, VD} /\ V \notin {DV, VD} /\ DV # VD
  BY <1>1, <1>2, <1>3
<1> QED BY <1>2, <1>3, <1>4 DEF D, V, DV, VD

LEMMA RunsTable ==
  ASSUME turn \in Chains
  PROVE  /\ Runs("drain") <=> turn \in {D, DV}
         /\ Runs("void") <=> turn \in {V, VD}
BY ChainTable DEF Runs, Chains

PassType ==
    [at : {"idle", "begin", "list", "waiting"} \cup Voiding, requested : BOOLEAN, todo : SUBSET Nat]

\* The places of the two writers, and what they keep.
PlaceOK ==
    /\ drain \in [at : {"idle", "waiting"} \cup Examining, bet : Nat, tried : BOOLEAN]
    /\ pass \in PassType
    /\ candidates \subseteq Nat

TurnInv ==
    /\ turn \in Chains
    /\ drain.at # "idle" <=> turn \in {D, DV, VD}
    /\ pass.at \in {"waiting"} \cup Voiding <=> turn \in {V, DV, VD}
    /\ drain.at \in Examining => turn \in {D, DV}
    /\ pass.at \in Voiding => turn \in {V, VD}

Served == pass.requested => pass.at # "idle"

WriterInv == PlaceOK /\ TurnInv /\ Served

\* A pass after somebody asked for another, and after the end of a turn of its loop.
LEMMA PassMoves ==
  ASSUME NEW p \in PassType
  PROVE  /\ Requested(p) \in PassType
         /\ Requested(p).at = IF p.at = "idle" THEN "begin" ELSE p.at
         /\ LoopEnded(p) \in PassType
         /\ LoopEnded(p).at = IF p.requested THEN "begin" ELSE "idle"
         /\ LoopEnded(p).requested = p.requested
<1>1. Requested(p) \in PassType /\ Requested(p).at = IF p.at = "idle" THEN "begin" ELSE p.at
  BY DEF Requested, PassType
<1>2. LoopEnded(p) \in PassType /\ LoopEnded(p).at = IF p.requested THEN "begin" ELSE "idle"
  BY DEF LoopEnded, PassType
<1>3. LoopEnded(p).requested = p.requested
  BY DEF LoopEnded, PassType
<1> QED BY <1>1, <1>2, <1>3

LEMMA WriterInit == Init => WriterInv
BY ChainTable DEF Init, WriterInv, PlaceOK, PassType, TurnInv, Served, Rested, NoPass, NoBet, Chains, Examining, Voiding

\* Steps that leave both writers and their turns alone.
LEMMA Elsewhere ==
  ASSUME WriterInv, UNCHANGED <<drain, pass, turn, candidates>>
  PROVE  WriterInv'
BY DEF WriterInv, PlaceOK, TurnInv, Served

\* Steps after which a pass may have been asked for.
LEMMA Asked ==
  ASSUME WriterInv, UNCHANGED <<drain, turn, candidates>>, pass' = pass \/ pass' = Requested(pass)
  PROVE  WriterInv'
<1>1. CASE pass' = pass
  BY <1>1, Elsewhere
<1>2. CASE pass' = Requested(pass)
  <2>1. pass' \in PassType /\ pass'.at = IF pass.at = "idle" THEN "begin" ELSE pass.at
    BY <1>2, PassMoves DEF WriterInv, PlaceOK
  <2>2. PlaceOK'
    BY <2>1 DEF WriterInv, PlaceOK
  <2>3. pass'.at \in {"waiting"} \cup Voiding <=> pass.at \in {"waiting"} \cup Voiding
    BY <2>1 DEF Voiding
  <2>4. pass'.at \in Voiding <=> pass.at \in Voiding
    BY <2>1 DEF Voiding
  <2>5. pass'.at # "idle"
    BY <2>1
  <2> QED BY <2>2, <2>3, <2>4, <2>5 DEF WriterInv, TurnInv, Served
<1> QED BY <1>1, <1>2

\* The examination ends: its turn, at the head, goes to the next writer.
LEMMA DrainEnds ==
  ASSUME WriterInv, turn \in {D, DV}, drain' = Rested, Release, candidates' \subseteq Nat,
         pass' = pass \/ pass' = Requested(pass)
  PROVE  WriterInv'
<1>1. turn' = IF turn = D THEN <<>> ELSE V
  BY ChainTable DEF Release
<1>2. ~(pass.at \in Voiding)
  BY ChainTable DEF WriterInv, TurnInv
<1>3. pass' \in PassType
  BY PassMoves DEF WriterInv, PlaceOK
<1>4. (pass'.at = "waiting" <=> pass.at = "waiting") /\ ~(pass'.at \in Voiding)
  BY <1>2, PassMoves DEF WriterInv, PlaceOK, Voiding
<1>5. pass'.requested => pass'.at # "idle"
  BY PassMoves DEF WriterInv, PlaceOK, Served
<1>6. drain'.at = "idle" /\ drain' \in [at : {"idle", "waiting"} \cup Examining, bet : Nat, tried : BOOLEAN]
  BY DEF Rested, NoBet
<1>7. TurnInv'
  <2>1. pass.at = "waiting" <=> turn = DV
    BY <1>2, ChainTable DEF WriterInv, TurnInv
  <2>2. drain'.at \notin Examining
    BY <1>6 DEF Examining
  <2> QED BY <1>1, <1>4, <1>6, <2>1, <2>2, ChainTable DEF TurnInv, Chains
<1> QED BY <1>3, <1>5, <1>6, <1>7 DEF WriterInv, PlaceOK, Served

\* The examination goes on at the head.
LEMMA DrainGoesOn ==
  ASSUME WriterInv, turn \in {D, DV}, UNCHANGED <<pass, turn, candidates>>,
         NEW place \in Examining, drain' = [drain EXCEPT !.at = place]
  PROVE  WriterInv'
<1>1. /\ drain' \in [at : {"idle", "waiting"} \cup Examining, bet : Nat, tried : BOOLEAN]
      /\ drain'.at = place /\ place # "idle"
  BY DEF WriterInv, PlaceOK, Examining
<1> QED BY <1>1, ChainTable DEF WriterInv, PlaceOK, TurnInv, Served

\* The turn of the pass at the head ends with the pass or with its next candidate.
LEMMA PassEnds ==
  ASSUME WriterInv, pass.at \in {"waiting"} \cup Voiding, Runs("void"), UNCHANGED drain,
         candidates' \subseteq Nat, NextCandidate \/ (Release /\ pass' = LoopEnded(pass))
  PROVE  WriterInv'
<1>1. turn \in {V, VD}
  BY RunsTable DEF WriterInv, TurnInv
<1>2. Tail(turn) = IF turn = V THEN <<>> ELSE D
  BY <1>1, ChainTable
<1>3. drain.at \notin Examining /\ (drain.at = "idle" <=> turn = V)
  BY <1>1, ChainTable DEF WriterInv, TurnInv
<1>4. CASE Release /\ pass' = LoopEnded(pass)
  <2>1. /\ pass' \in PassType /\ pass'.at = IF pass.requested THEN "begin" ELSE "idle"
        /\ pass'.requested = pass.requested
    BY <1>4, PassMoves DEF WriterInv, PlaceOK
  <2>2. PlaceOK'
    BY <2>1 DEF WriterInv, PlaceOK
  <2>3. pass'.at \notin {"waiting"} \cup Voiding
    BY <2>1 DEF Voiding
  <2>4. TurnInv'
    BY <1>1, <1>2, <1>3, <1>4, <2>3, ChainTable DEF TurnInv, Release, Chains
  <2> QED BY <2>1, <2>2, <2>4 DEF WriterInv, Served
<1>5. CASE NextCandidate /\ ~(Release /\ pass' = LoopEnded(pass))
  <2>1. PICK todo : /\ todo = pass.todo \ {Current}
                    /\ turn' = Append(Tail(turn), "void")
                    /\ pass' = [pass EXCEPT !.at = "waiting", !.todo = todo]
    BY <1>5 DEF NextCandidate
  <2>2. /\ pass' \in PassType
        /\ pass'.at = "waiting"
    BY <2>1 DEF WriterInv, PlaceOK, PassType
  <2>3. turn' = IF turn = V THEN V ELSE DV
    BY <1>1, <1>2, <2>1, ChainTable
  <2>4. pass'.at \notin Voiding
    BY <2>2 DEF Voiding
  <2>5. TurnInv'
    BY <1>1, <1>3, <2>2, <2>3, <2>4, ChainTable DEF TurnInv, Chains
  <2> QED BY <2>2, <2>5 DEF WriterInv, PlaceOK, Served
<1> QED BY <1>4, <1>5

\* The pass goes on at the head.
LEMMA PassGoesOn ==
  ASSUME WriterInv, pass.at \in {"waiting"} \cup Voiding, Runs("void"), UNCHANGED <<drain, turn, candidates>>,
         NEW place \in Voiding, pass' = [pass EXCEPT !.at = place]
  PROVE  WriterInv'
<1>1. turn \in {V, VD}
  BY RunsTable DEF WriterInv, TurnInv
<1>2. /\ pass' \in PassType
      /\ pass'.at = place /\ place # "idle"
  BY DEF WriterInv, PlaceOK, PassType, Voiding
<1> QED BY <1>1, <1>2, ChainTable DEF WriterInv, PlaceOK, TurnInv, Served

-----------------------------------------------------------------------------
(* One lemma for each step of the two loops that moves a writer.           *)

LEMMA AtTheHead ==
  ASSUME WriterInv
  PROVE  /\ drain.at \in Examining => turn \in {D, DV} /\ Runs("drain")
         /\ pass.at \in Voiding => turn \in {V, VD} /\ Runs("void")
BY RunsTable DEF WriterInv, TurnInv

LEMMA DrainTakeKeeps ==
  ASSUME WriterInv, NEW b \in Bets, DrainTake(b)
  PROVE  WriterInv'
<1>1. /\ drain' \in [at : {"idle", "waiting"} \cup Examining, bet : Nat, tried : BOOLEAN]
      /\ drain'.at = "waiting" /\ drain'.at \notin Examining
  BY BoundsAssumption DEF DrainTake, Bets, Examining
<1>2. turn \in {<<>>, V}
  BY ChainTable DEF DrainTake, WriterInv, TurnInv, Chains
<1>3. turn' = IF turn = V THEN VD ELSE D
  BY <1>2, ChainTable DEF DrainTake
<1>4. UNCHANGED <<pass, candidates>>
  BY DEF DrainTake
<1>5. TurnInv'
  BY <1>1, <1>2, <1>3, <1>4, ChainTable DEF WriterInv, TurnInv, Chains
<1> QED BY <1>1, <1>4, <1>5 DEF WriterInv, PlaceOK, Served

LEMMA DrainReadKeeps ==
  ASSUME WriterInv, DrainRead
  PROVE  WriterInv'
<1>1. turn \in {D, DV}
  BY RunsTable DEF DrainRead, WriterInv, TurnInv
<1>2. CASE Complete(drain.bet)
  BY <1>1, <1>2, DrainEnds DEF DrainRead, Complete, WriterInv, PlaceOK
<1>3. CASE drain' = [drain EXCEPT !.at = "judge"] /\ UNCHANGED <<candidates, turn>>
  BY <1>1, <1>3, DrainGoesOn DEF DrainRead, Examining
<1> QED BY <1>2, <1>3 DEF DrainRead

LEMMA DrainJudgeKeeps ==
  ASSUME WriterInv, DrainJudge
  PROVE  WriterInv'
<1>1. turn \in {D, DV}
  BY AtTheHead DEF DrainJudge, Examining
<1>2. drain.bet \in Nat /\ candidates \subseteq Nat
  BY DEF WriterInv, PlaceOK
<1>3. CASE Complete(drain.bet) /\ UNCHANGED pass
  BY <1>1, <1>2, <1>3, DrainEnds DEF Complete
<1>4. CASE /\ drain' = [drain EXCEPT !.at = IF CanRefund(drain.bet) THEN "refund" ELSE "finalize"]
           /\ UNCHANGED <<candidates, turn, pass>>
  <2>1. (IF CanRefund(drain.bet) THEN "refund" ELSE "finalize") \in Examining
    BY DEF Examining
  <2> QED BY <1>1, <1>4, <2>1, DrainGoesOn
<1>5. CASE /\ Retry(drain.bet) /\ candidates' = candidates \ {drain.bet} /\ UNCHANGED pass
  BY <1>1, <1>2, <1>5, DrainEnds DEF Retry
<1>6. CASE /\ Retry(drain.bet) /\ candidates' = candidates \cup {drain.bet}
           /\ pass' = IF CanVoid(drain.bet) THEN Requested(pass) ELSE pass
  BY <1>1, <1>2, <1>6, DrainEnds DEF Retry
<1> QED BY <1>3, <1>4, <1>5, <1>6 DEF DrainJudge

LEMMA DrainMinedKeeps ==
  ASSUME WriterInv, DrainMined
  PROVE  WriterInv'
<1>1. turn \in {D, DV}
  BY AtTheHead DEF DrainMined, Examining
<1> QED BY <1>1, DrainGoesOn DEF DrainMined, Examining

LEMMA DrainReceiptKeeps ==
  ASSUME WriterInv, DrainReceipt \/ DrainFail
  PROVE  WriterInv'
<1>1. turn \in {D, DV}
  BY AtTheHead, RunsTable DEF DrainReceipt, DrainFail, Examining, WriterInv, TurnInv
<1>2. drain' = Rested /\ Release /\ candidates' \subseteq candidates /\ UNCHANGED pass
  BY DEF DrainReceipt, DrainFail, Complete, Retry
<1> QED BY <1>1, <1>2, DrainEnds DEF WriterInv, PlaceOK

\* Before its list the pass holds no place among the turns.
LEMMA PassBeginKeeps ==
  ASSUME WriterInv, PassBegin
  PROVE  WriterInv'
<1> DEFINE p == [pass EXCEPT !.requested = FALSE]
<1>1. p \in PassType /\ p.requested = FALSE
  BY DEF WriterInv, PlaceOK, PassType
<1>2. pass' \in PassType /\ pass'.at \in {"idle", "list"} /\ pass'.requested = FALSE
  <2>1. CASE pass' = LoopEnded(p)
    BY <1>1, <2>1, PassMoves
  <2>2. CASE pass' = [p EXCEPT !.at = "list"]
    BY <1>1, <2>2 DEF PassType
  <2> QED BY <2>1, <2>2 DEF PassBegin
<1>3. ~(pass.at \in {"waiting"} \cup Voiding) /\ ~(pass'.at \in {"waiting"} \cup Voiding)
  BY <1>2 DEF PassBegin, Voiding
<1>4. UNCHANGED <<drain, turn, candidates>>
  BY DEF PassBegin
<1> QED BY <1>2, <1>3, <1>4 DEF WriterInv, PlaceOK, TurnInv, Served

LEMMA PassListKeeps ==
  ASSUME WriterInv, PassList
  PROVE  WriterInv'
<1> DEFINE p == WokenBy(boot, pass)
<1>1. p \in PassType /\ p.at = "list"
  BY PassMoves DEF WokenBy, WriterInv, PlaceOK, PassList
<1>2. ~(pass.at \in {"waiting"} \cup Voiding)
  BY DEF PassList, Voiding
<1>3. turn \in {<<>>, D} /\ (drain.at = "idle" <=> turn = <<>>)
  BY <1>2, ChainTable DEF WriterInv, TurnInv, Chains
<1>4. UNCHANGED <<drain, candidates>>
  BY DEF PassList
<1>5. CASE pass' = LoopEnded(p) /\ UNCHANGED turn
  <2>1. /\ pass' \in PassType /\ pass'.at \in {"idle", "begin"}
        /\ pass'.requested => pass'.at # "idle"
    BY <1>1, <1>5, PassMoves
  <2>2. ~(pass'.at \in {"waiting"} \cup Voiding)
    BY <2>1 DEF Voiding
  <2> QED BY <1>2, <1>4, <1>5, <2>1, <2>2 DEF WriterInv, PlaceOK, TurnInv, Served
<1>6. CASE ~(pass' = LoopEnded(p) /\ UNCHANGED turn)
  <2>1. PICK eligible \in SUBSET candidates :
              pass' = [p EXCEPT !.at = "waiting", !.todo = eligible]
    BY <1>6 DEF PassList
  <2>2. turn' = Append(turn, "void")
    BY <1>6 DEF PassList
  <2>3. pass' \in PassType /\ pass'.at = "waiting"
    BY <1>1, <2>1 DEF PassType, WriterInv, PlaceOK
  <2>4. turn' = IF turn = D THEN DV ELSE V
    BY <1>3, <2>2, ChainTable
  <2>5. ~(pass'.at \in Voiding)
    BY <2>3 DEF Voiding
  <2>6. /\ drain'.at # "idle" <=> turn' = DV
        /\ drain'.at \notin Examining \/ turn' = DV
    <3>1. drain'.at = drain.at
      BY <1>4
    <3>2. CASE turn = D
      <4>1. turn' = DV /\ drain.at # "idle"
        BY <1>3, <2>4, <3>2, ChainTable
      <4> QED BY <3>1, <4>1
    <3>3. CASE turn = <<>>
      <4>1. turn' = V /\ drain.at = "idle" /\ V # DV
        BY <1>3, <2>4, <3>3, ChainTable
      <4> QED BY <3>1, <4>1 DEF Examining
    <3> QED BY <1>3, <3>2, <3>3
  <2>7. TurnInv'
    <3>1. turn' \in {V, DV}
      BY <2>4
    <3>2. drain'.at # "idle" <=> turn' \in {D, DV, VD}
      BY <2>6, <3>1, ChainTable
    <3>3. pass'.at \in {"waiting"} \cup Voiding
      BY <2>3
    <3> QED BY <2>5, <2>6, <3>1, <3>2, <3>3 DEF TurnInv, Chains
  <2> QED BY <1>4, <2>3, <2>7 DEF WriterInv, PlaceOK, Served
<1> QED BY <1>5, <1>6 DEF PassList

LEMMA PassFailKeeps ==
  ASSUME WriterInv, PassFail
  PROVE  WriterInv'
<1>1. /\ pass' \in PassType /\ pass'.at \in {"idle", "begin"}
      /\ pass'.requested => pass'.at # "idle"
  BY PassMoves DEF PassFail, WriterInv, PlaceOK
<1>2. ~(pass.at \in {"waiting"} \cup Voiding) /\ ~(pass'.at \in {"waiting"} \cup Voiding)
  BY <1>1 DEF PassFail, Voiding
<1> QED BY <1>1, <1>2 DEF PassFail, WriterInv, PlaceOK, TurnInv, Served

LEMMA PassTurnKeeps ==
  ASSUME WriterInv, PassTurn
  PROVE  WriterInv'
<1>1. CASE NextCandidate \/ (Release /\ pass' = LoopEnded(pass))
  BY <1>1, PassEnds DEF PassTurn, WriterInv, PlaceOK
<1>2. CASE pass' = [pass EXCEPT !.at = "attempt"] /\ UNCHANGED turn
  BY <1>2, PassGoesOn DEF PassTurn, Voiding
<1> QED BY <1>1, <1>2 DEF PassTurn

LEMMA VoidKeeps ==
  ASSUME WriterInv, VoidJudge \/ VoidMined \/ VoidReceipt \/ VoidFail
  PROVE  WriterInv'
<1>1. pass.at \in Voiding /\ UNCHANGED drain
  BY DEF VoidJudge, VoidMined, VoidReceipt, VoidFail, Voiding
<1>2. Runs("void") /\ pass.at \in {"waiting"} \cup Voiding
  BY <1>1, AtTheHead
<1>3. CASE NextCandidate /\ candidates' \subseteq candidates
  BY <1>1, <1>2, <1>3, PassEnds DEF WriterInv, PlaceOK
<1>4. CASE /\ pass' = [pass EXCEPT !.at = "sent"] \/ pass' = [pass EXCEPT !.at = "receipt"]
           /\ UNCHANGED <<candidates, turn>>
  BY <1>1, <1>2, <1>4, PassGoesOn DEF Voiding
<1>5. \/ NextCandidate /\ candidates' \subseteq candidates
      \/ /\ pass' = [pass EXCEPT !.at = "sent"] \/ pass' = [pass EXCEPT !.at = "receipt"]
         /\ UNCHANGED <<candidates, turn>>
  BY DEF VoidJudge, VoidMined, VoidReceipt, VoidFail, Reconcile
<1> QED BY <1>3, <1>4, <1>5

LEMMA DiscoverKeeps ==
  ASSUME WriterInv, Discover
  PROVE  WriterInv'
<1>1. UNCHANGED <<drain, turn, candidates>>
  BY DEF Discover, LiveEvent, IndexRow, HistoryRead, HistoryRows, HistoryCursor, HistoryFail,
         Requeue, memoryVars
<1>2. pass' = pass \/ pass' = Requested(pass)
  BY DEF Discover, LiveEvent, IndexRow, HistoryRead, HistoryRows, HistoryCursor, HistoryFail,
         Requeue, memoryVars, WokenBy
<1> QED BY <1>1, <1>2, Asked

LEMMA RestartKeeps ==
  ASSUME Restart
  PROVE  WriterInv'
<1>1. drain' = Rested /\ turn' = <<>> /\ candidates' = {} /\ pass' = NoPass
  BY DEF Restart
<1> QED BY <1>1, ChainTable DEF WriterInv, PlaceOK, PassType, TurnInv, Served, Rested, NoPass, NoBet,
                                Chains, Examining, Voiding

LEMMA WriterStep ==
  ASSUME WriterInv, [Next]_vars
  PROVE  WriterInv'
<1>1. CASE Chain
  BY <1>1, Elsewhere DEF Chain, Place, Receive, Flip, SomebodyElse, DelayOver, memoryVars
<1>2. CASE Discover
  BY <1>2, DiscoverKeeps
<1>3. CASE Examine
  <2>1. CASE \E b \in Bets : Wake(b)
    BY <2>1, Elsewhere DEF Wake
  <2>2. CASE \E b \in Bets : DrainTake(b)
    BY <2>2, DrainTakeKeeps
  <2> QED BY <1>3, <2>1, <2>2, DrainReadKeeps, DrainJudgeKeeps, DrainMinedKeeps, DrainReceiptKeeps
          DEF Examine
<1>4. CASE Void
  BY <1>4, PassBeginKeeps, PassListKeeps, PassFailKeeps, PassTurnKeeps, VoidKeeps DEF Void
<1>5. CASE Restart
  BY <1>5, RestartKeeps
<1>6. CASE UNCHANGED vars
  BY <1>6, Elsewhere DEF vars, memoryVars
<1> QED BY <1>1, <1>2, <1>3, <1>4, <1>5, <1>6 DEF Next

\* Who waits, who is served and who has a transaction on its way follow from one another:
\* the chain of writers is in the same state as the two that use it (writeTail).
THEOREM WritersTakeTurns == Spec => []WriterInv
<1>1. Init => WriterInv
  BY WriterInit
<1>2. WriterInv /\ [Next]_vars => WriterInv'
  BY WriterStep
<1> QED BY <1>1, <1>2, PTL DEF Spec

\* Never a transaction of the examination and one of the void pass on their way together
\* (withWriteLock), however often the calls fail and the process stops.
THEOREM KeeperHasOneTransaction == Spec => []OneTransaction
<1>1. WriterInv => OneTransaction
  BY ChainTable DEF WriterInv, TurnInv, OneTransaction, Examining, Voiding
<1> QED BY <1>1, WritersTakeTurns, PTL

\* A void pass asked for while one runs or ends is not forgotten (requestVoidPass).
THEOREM KeeperServesRequests == Spec => []RequestIsServed
<1>1. WriterInv => RequestIsServed
  BY DEF WriterInv, Served, RequestIsServed
<1> QED BY <1>1, WritersTakeTurns, PTL

-----------------------------------------------------------------------------
(* The rows of the database and the saved cursor.                          *)

HasRow(b) == rows[b] # "absent"

\* Everything behind the cursor of the scan, the one in memory and the saved one, has a
\* row; a range whose rows are written adds its own bets.
ScanInv ==
    /\ rows \in [Bets -> {"absent", "open", "closed"}]
    /\ cursor \in 0..MaxBet /\ boot.recovered \in 0..MaxBet /\ history.through \in 0..MaxBet
    /\ DOMAIN boot = {"head", "recovered", "indexed", "after", "complete"}
    /\ ~HasIndex => cursor = 0
    /\ HasIndex => \A b \in 1..boot.recovered : HasRow(b)
    /\ \A b \in 1..cursor : HasRow(b)
    /\ HasIndex /\ history.at = "cursor" => \A b \in 1..history.through : HasRow(b)

LEMMA LatestBound == Latest \in 0..MaxBet
<1>1. IsFiniteSet(Bets) /\ Cardinality(Bets) = MaxBet
  BY BoundsAssumption, FS_Interval DEF Bets
<1>2. {b \in Bets : state[b] # "none"} \in SUBSET Bets
  OBVIOUS
<1>3. /\ IsFiniteSet({b \in Bets : state[b] # "none"})
      /\ Cardinality({b \in Bets : state[b] # "none"}) <= Cardinality(Bets)
  BY <1>1, <1>2, FS_Subset
<1>4. Cardinality({b \in Bets : state[b] # "none"}) \in Nat
  BY <1>3, FS_CardinalityType
<1> QED BY <1>1, <1>3, <1>4, BoundsAssumption DEF Latest

\* Steps that leave rows, cursor and the two places of the scan alone.
LEMMA ScanStutters ==
  ASSUME ScanInv, UNCHANGED <<rows, cursor, history>>, boot'.recovered = boot.recovered,
         DOMAIN boot' = DOMAIN boot
  PROVE  ScanInv'
BY DEF ScanInv, HasRow

\* What checks and pages do to the memory.
LEMMA MemoryMoves ==
  ASSUME NEW m
  PROVE  /\ DOMAIN Checked(m) = DOMAIN m /\ Checked(m).recovered = m.recovered
         /\ DOMAIN Paged(m) = DOMAIN m /\ Paged(m).recovered = m.recovered
BY DEF Checked, Paged

LEMMA ScanInit == Init => ScanInv
BY BoundsAssumption DEF Init, ScanInv, EmptyMemory, Bets

LEMMA IndexRowKeeps ==
  ASSUME ScanInv, NEW b \in Bets, IndexRow(b)
  PROVE  ScanInv'
<1>1. /\ rows' \in [Bets -> {"absent", "open", "closed"}]
      /\ \A a \in Bets : HasRow(a) => HasRow(a)'
  BY DEF IndexRow, ScanInv, HasRow
<1>2. UNCHANGED <<cursor, boot, history>>
  BY DEF IndexRow, memoryVars
<1>3. 1..cursor \subseteq Bets /\ 1..boot.recovered \subseteq Bets /\ 1..history.through \subseteq Bets
  BY BoundsAssumption DEF ScanInv, Bets
<1> QED BY <1>1, <1>2, <1>3 DEF ScanInv

LEMMA HistoryReadKeeps ==
  ASSUME ScanInv, HistoryRead
  PROVE  ScanInv'
<1> DEFINE m == [boot EXCEPT !.head = IF boot.head = Unknown THEN Latest ELSE boot.head]
<1>a. m.recovered = boot.recovered /\ DOMAIN m = DOMAIN boot
  BY DEF ScanInv
<1>b. UNCHANGED <<rows, cursor>> /\ (boot' = Checked(m) \/ boot' = m)
  BY DEF HistoryRead, indexVars
<1> HIDE DEF m
<1>1. UNCHANGED <<rows, cursor>> /\ boot'.recovered = boot.recovered /\ DOMAIN boot' = DOMAIN boot
  BY <1>a, <1>b, MemoryMoves
<1>2. CASE UNCHANGED history
  BY <1>1, <1>2, ScanStutters
<1>3. CASE history' # history
  <2>1. history' = [at |-> "rows", through |-> Lesser(boot.recovered + ChunkBlocks, Latest)]
    BY <1>3 DEF HistoryRead
  <2>2. Lesser(boot.recovered + ChunkBlocks, Latest) \in 0..MaxBet
    BY LatestBound, BoundsAssumption DEF Lesser, ScanInv
  <2>3. history'.through \in 0..MaxBet /\ history'.at = "rows"
    BY <2>1, <2>2
  <2> QED BY <1>1, <2>3 DEF ScanInv, HasRow
<1> QED BY <1>2, <1>3

LEMMA HistoryRowsKeeps ==
  ASSUME ScanInv, HistoryRows
  PROVE  ScanInv'
<1>1. /\ rows' \in [Bets -> {"absent", "open", "closed"}]
      /\ \A a \in Bets : HasRow(a) => HasRow(a)'
  BY DEF HistoryRows, ScanInv, HasRow
<1>2. HasIndex => \A a \in Bets : a \in (boot.recovered + 1)..history.through => HasRow(a)'
  BY DEF HistoryRows, HasRow
<1>3. /\ UNCHANGED <<cursor, boot>> /\ history' = [history EXCEPT !.at = "cursor"]
  BY DEF HistoryRows
<1>4. history'.through = history.through
  BY <1>3 DEF HistoryRows
<1>5. 1..cursor \subseteq Bets /\ 1..boot.recovered \subseteq Bets /\ 1..history.through \subseteq Bets
  BY BoundsAssumption DEF ScanInv, Bets
<1>6. HasIndex => \A a \in 1..history.through : HasRow(a)'
  <2>1. \A a \in 1..history.through : a \in 1..boot.recovered \/ a \in (boot.recovered + 1)..history.through
    BY BoundsAssumption DEF ScanInv
  <2> QED BY <1>1, <1>2, <1>5, <2>1 DEF ScanInv
<1> QED BY <1>1, <1>3, <1>4, <1>5, <1>6 DEF ScanInv, HasRow

LEMMA HistoryCursorKeeps ==
  ASSUME ScanInv, HistoryCursor
  PROVE  ScanInv'
<1> DEFINE m == [boot EXCEPT !.recovered = history.through]
<1>a. m.recovered = history.through /\ DOMAIN m = DOMAIN boot
  BY DEF ScanInv
<1>b. boot' = Checked(m)
  BY DEF HistoryCursor
<1> HIDE DEF m
<1>1. boot'.recovered = history.through /\ DOMAIN boot' = DOMAIN boot
  BY <1>a, <1>b, MemoryMoves
<1>2. history'.at = "idle" /\ history'.through = 0 /\ history.at = "cursor" /\ UNCHANGED rows
  BY DEF HistoryCursor
<1>3. cursor' = IF HasIndex THEN history.through ELSE cursor
  BY DEF HistoryCursor
<1> QED BY <1>1, <1>2, <1>3, BoundsAssumption DEF ScanInv, HasRow

LEMMA RestartScans ==
  ASSUME ScanInv, Restart
  PROVE  ScanInv'
<1>1. UNCHANGED <<rows, cursor>> /\ history' = [at |-> "idle", through |-> 0]
  BY DEF Restart, indexVars
<1>2. /\ boot'.recovered \in {cursor, 0}
      /\ DOMAIN boot' = {"head", "recovered", "indexed", "after", "complete"}
  <2>1. ASSUME NEW k
        PROVE  /\ EmptyMemory(k).recovered = k
               /\ DOMAIN EmptyMemory(k) = {"head", "recovered", "indexed", "after", "complete"}
    BY DEF EmptyMemory
  <2>2. PICK k \in {cursor, 0} : boot' = Paged(EmptyMemory(k)) \/ boot' = EmptyMemory(k)
    BY DEF Restart
  <2> QED BY <2>1, <2>2, MemoryMoves
<1> QED BY <1>1, <1>2, BoundsAssumption DEF ScanInv, HasRow

LEMMA ScanStep ==
  ASSUME ScanInv, [Next]_vars
  PROVE  ScanInv'
<1>1. CASE Chain
  BY <1>1, ScanStutters
     DEF Chain, Place, Receive, Flip, SomebodyElse, DelayOver, memoryVars, indexVars
<1>2. CASE Discover
  <2>1. CASE \E b \in Bets : LiveEvent(b)
    BY <2>1, ScanStutters DEF LiveEvent, indexVars
  <2>2. CASE HistoryFail
    BY <2>2, BoundsAssumption DEF HistoryFail, indexVars, ScanInv, HasRow
  <2>3. CASE Requeue
    <3>1. boot'.recovered = boot.recovered /\ DOMAIN boot' = DOMAIN boot
      BY <2>3, MemoryMoves DEF Requeue
    <3> QED BY <2>3, <3>1, ScanStutters DEF Requeue, indexVars
  <2> QED BY <1>2, <2>1, <2>2, <2>3, IndexRowKeeps, HistoryReadKeeps, HistoryRowsKeeps, HistoryCursorKeeps
          DEF Discover
<1>3. CASE Examine
  BY <1>3, ScanStutters
     DEF Examine, Wake, DrainTake, DrainRead, DrainJudge, DrainMined, DrainReceipt, DrainFail, indexVars
<1>4. CASE Void
  <2>1. CASE PassList
    <3>1. boot'.recovered = boot.recovered /\ DOMAIN boot' = DOMAIN boot
      BY <2>1, MemoryMoves DEF PassList
    <3> QED BY <2>1, <3>1, ScanStutters DEF PassList, indexVars
  <2>2. CASE ~PassList
    BY <1>4, <2>2, ScanStutters
       DEF Void, PassBegin, PassFail, PassTurn, VoidJudge, VoidMined, VoidReceipt, VoidFail, indexVars
  <2> QED BY <2>1, <2>2
<1>5. CASE Restart
  BY <1>5, RestartScans
<1>6. CASE UNCHANGED vars
  BY <1>6, ScanStutters DEF vars, memoryVars, indexVars
<1> QED BY <1>1, <1>2, <1>3, <1>4, <1>5, <1>6 DEF Next

\* A start that resumes at the saved cursor finds every earlier bet among the rows,
\* wherever the process before it stopped (scanUnresolvedHistory).
THEOREM CursorNeverPassesRows == Spec => []CursorHasRows
<1>1. Init => ScanInv
  BY ScanInit
<1>2. ScanInv /\ [Next]_vars => ScanInv'
  BY ScanStep
<1>3. ScanInv => CursorHasRows
  BY DEF ScanInv, HasRow, CursorHasRows
<1> QED BY <1>1, <1>2, <1>3, PTL DEF Spec

-----------------------------------------------------------------------------
(* Which bets the queue and the examination hold.                          *)

QueueType == [ready : Seq(Bets), asleep : SUBSET Bets, tried : SUBSET Bets]

\* The bet of the examination and the candidates are bets, and no candidate is forgotten.
HoldInv ==
    /\ queue \in QueueType
    /\ IF drain.at = "idle" THEN drain.bet = NoBet ELSE drain.bet \in Bets
    /\ candidates \subseteq Bets
    /\ CandidateIsAtWork

\* A pass that waits or voids has a bet to do.
TodoInv ==
    /\ pass.todo \subseteq Bets
    /\ pass.at \in {"waiting"} \cup Voiding => pass.todo # {}

WorkInv == HoldInv /\ TodoInv /\ starts \in Nat

States == {"none", "awaiting", "received", "over"}

Placed(b) == state[b] # "none"

\* Bets are placed in their order, and a row that is closed is of a bet that is over.
ChainInv ==
    /\ state \in [Bets -> States]
    /\ \A a, b \in Bets : a < b /\ Placed(b) => Placed(a)
    /\ \A b \in Bets : rows[b] = "closed" => state[b] = "over"

BootType ==
    [head : {Unknown} \cup Nat, recovered : 0..MaxBet, indexed : BOOLEAN, after : Nat,
     complete : BOOLEAN]

\* An open bet that the pages of the database have still to bring.
InPagesToCome(b) ==
    HasIndex /\ ~boot.indexed /\ b > boot.after /\ rows[b] = "open"

\* What the process knows of the time before its start, and who may act on it.
LatchInv ==
    /\ boot \in BootType
    /\ boot.complete => /\ boot.head # Unknown /\ boot.recovered >= boot.head
                        /\ HasIndex => boot.indexed
    /\ pass.at \in {"waiting"} \cup Voiding => boot.complete

\* The scan is behind the last block.
PlacedInv ==
    /\ \A b \in 1..cursor \cup 1..boot.recovered : Placed(b)
    /\ history.at # "idle" => /\ boot.recovered <= history.through
                              /\ \A b \in 1..history.through : Placed(b)

\* Behind the place of the scan every open bet is at work or in the pages to come, and the
\* bets of the range it is writing are at work already.
ReachInv ==
    /\ \A b \in 1..boot.recovered : b \in Open => Has(b) \/ InPagesToCome(b)
    /\ history.at # "idle" =>
           \A b \in (boot.recovered + 1)..history.through : b \in Open => Has(b)

RecoveryInv == ChainInv /\ LatchInv /\ PlacedInv /\ ReachInv

\* A finite set of bets in its order, as a sequence.
LEMMA AscendingList ==
  ASSUME NEW S \in SUBSET Bets
  PROVE  Ascending(S) \in Seq(Bets) /\ ToSet(Ascending(S)) = S
<1>1. Bets \subseteq Nat /\ IsFiniteSet(Bets)
  BY BoundsAssumption, FS_Interval DEF Bets
<1>2. S \in SUBSET Nat /\ IsFiniteSet(S)
  BY <1>1, FS_Subset
<1>3. /\ Ascending(S) \in [1..Cardinality(S) -> S]
      /\ \A i, j \in 1..Cardinality(S) : i < j => Ascending(S)[i] < Ascending(S)[j]
  BY <1>2, AscendingExists, Zenon DEF Ascending
<1>4. \A x \in S : \E i \in 1..Cardinality(S) : Ascending(S)[i] = x
  BY <1>2, <1>3, AscendingIsOnto, Zenon
<1>5. Cardinality(S) \in Nat
  BY <1>2, FS_CardinalityType
<1>6. Ascending(S) \in Seq(Bets)
  <2>1. Ascending(S) \in [1..Cardinality(S) -> Bets]
    BY <1>3
  <2> QED BY <1>5, <2>1, SeqDef
<1> QED BY <1>3, <1>4, <1>6 DEF ToSet

LEMMA SetOfConcat ==
  ASSUME NEW S, NEW s \in Seq(S), NEW t \in Seq(S)
  PROVE  s \o t \in Seq(S) /\ ToSet(s \o t) = ToSet(s) \cup ToSet(t)
<1>1. /\ s \o t \in Seq(S) /\ Len(s \o t) = Len(s) + Len(t)
      /\ \A i \in 1..(Len(s) + Len(t)) : (s \o t)[i] = IF i <= Len(s) THEN s[i] ELSE t[i - Len(s)]
  BY ConcatProperties
<1>2. \A q \in Seq(S) : Len(q) \in Nat /\ ToSet(q) = {q[i] : i \in 1..Len(q)}
  BY LenProperties DEF ToSet
<1> DEFINE st == s \o t
<1>3. ASSUME NEW i \in 1..Len(st) PROVE st[i] \in ToSet(s) \cup ToSet(t)
  <2>1. i \in 1..Len(s) \/ (i - Len(s) \in 1..Len(t) /\ ~(i <= Len(s)))
    BY <1>1, <1>2
  <2> QED BY <1>1, <1>2, <2>1
<1>4. ASSUME NEW i \in 1..Len(s) PROVE s[i] \in ToSet(st)
  <2>1. i \in 1..Len(st) /\ st[i] = s[i]
    BY <1>1, <1>2
  <2> QED BY <1>1, <1>2, <2>1
<1>5. ASSUME NEW i \in 1..Len(t) PROVE t[i] \in ToSet(st)
  <2>1. i + Len(s) \in 1..Len(st) /\ ~(i + Len(s) <= Len(s)) /\ (i + Len(s)) - Len(s) = i
    BY <1>1, <1>2
  <2>2. st[i + Len(s)] = t[i]
    BY <1>1, <2>1
  <2> QED BY <1>1, <1>2, <2>1, <2>2
<1>6. ToSet(st) = {st[i] : i \in 1..Len(st)}
  BY <1>1, <1>2
<1> HIDE DEF st
<1>7. ToSet(st) = ToSet(s) \cup ToSet(t)
  BY <1>2, <1>3, <1>4, <1>5, <1>6
<1> QED BY <1>1, <1>7 DEF st

LEMMA SetOfTail ==
  ASSUME NEW S, NEW s \in Seq(S), s # <<>>
  PROVE  /\ Head(s) \in S /\ Tail(s) \in Seq(S)
         /\ ToSet(s) = {Head(s)} \cup ToSet(Tail(s))
<1>1. Head(s) \in S /\ Tail(s) \in Seq(S)
  BY HeadTailProperties
<1>2. /\ Len(s) \in Nat \ {0} /\ Len(Tail(s)) = Len(s) - 1
      /\ \A i \in 1..Len(Tail(s)) : Tail(s)[i] = s[i + 1]
  BY EmptySeq, HeadTailProperties
<1>3. ToSet(s) = {s[i] : i \in 1..Len(s)} /\ ToSet(Tail(s)) = {Tail(s)[i] : i \in 1..Len(Tail(s))}
  BY <1>1, LenProperties DEF ToSet
<1>4. Head(s) = s[1]
  OBVIOUS
<1>5. \A i \in 1..Len(s) : i = 1 \/ (i - 1 \in 1..Len(Tail(s)) /\ i = (i - 1) + 1)
  BY <1>2
<1>6. \A i \in 1..Len(Tail(s)) : i + 1 \in 1..Len(s)
  BY <1>2
<1>7. ToSet(s) \subseteq {Head(s)} \cup ToSet(Tail(s))
  BY <1>2, <1>3, <1>4, <1>5
<1>8. {Head(s)} \cup ToSet(Tail(s)) \subseteq ToSet(s)
  BY <1>2, <1>3, <1>4, <1>6
<1> QED BY <1>1, <1>7, <1>8

LEMMA EnqueuedHolds ==
  ASSUME NEW q \in QueueType, NEW S \in SUBSET Bets
  PROVE  /\ Enqueued(q, S) \in QueueType
         /\ ToSet(Enqueued(q, S).ready) = ToSet(q.ready) \cup S
         /\ Waiting(Enqueued(q, S)) = Waiting(q) \cup S
<1> DEFINE T == S \ ToSet(q.ready)
<1>1. Ascending(T) \in Seq(Bets) /\ ToSet(Ascending(T)) = T
  BY AscendingList
<1>2. q.ready \in Seq(Bets) /\ q.asleep \in SUBSET Bets /\ q.tried \in SUBSET Bets
  BY DEF QueueType
<1>3. /\ q.ready \o Ascending(T) \in Seq(Bets)
      /\ ToSet(q.ready \o Ascending(T)) = ToSet(q.ready) \cup T
  <2> DEFINE a == Ascending(T)
             r == q.ready
  <2>1. a \in Seq(Bets) /\ r \in Seq(Bets) /\ ToSet(a) = T
    BY <1>1, <1>2
  <2> HIDE DEF T, a, r
  <2>2. r \o a \in Seq(Bets) /\ ToSet(r \o a) = ToSet(r) \cup ToSet(a)
    BY <2>1, SetOfConcat
  <2> QED BY <2>1, <2>2 DEF a, r
<1>4. /\ Enqueued(q, S).ready = q.ready \o Ascending(T)
      /\ Enqueued(q, S).asleep = q.asleep \ S
      /\ Enqueued(q, S) = [ready |-> q.ready \o Ascending(T), asleep |-> q.asleep \ S, tried |-> q.tried]
  BY DEF Enqueued
<1> HIDE DEF T
<1>5. Enqueued(q, S) \in QueueType
  BY <1>2, <1>3, <1>4 DEF QueueType
<1>6. ToSet(q.ready) \cup T = ToSet(q.ready) \cup S
  BY DEF T
<1> QED BY <1>3, <1>4, <1>5, <1>6 DEF Waiting

LEMMA RetriedHolds ==
  ASSUME NEW q \in QueueType, NEW b \in Bets
  PROVE  /\ Retried(q, b) \in QueueType /\ Retried(q, b).ready = q.ready
         /\ Waiting(Retried(q, b)) = Waiting(q) \cup {b}
<1>1. Retried(q, b) \in QueueType /\ Retried(q, b).ready = q.ready
  BY DEF Retried, QueueType
<1>2. Retried(q, b).asleep = IF b \in ToSet(q.ready) THEN q.asleep ELSE q.asleep \cup {b}
  BY DEF Retried, QueueType
<1> QED BY <1>1, <1>2 DEF Waiting

LEMMA EmptyQueueHolds == EmptyQueue \in QueueType /\ Waiting(EmptyQueue) = {}
<1>1. <<>> \in Seq(Bets)
  BY EmptySeq
<1> QED BY <1>1 DEF EmptyQueue, QueueType, Waiting, ToSet

LEMMA TakenHolds ==
  ASSUME queue \in QueueType, NEW b, DrainTake(b)
  PROVE  /\ b \in Bets /\ queue' \in QueueType
         /\ ToSet(queue.ready) = {b} \cup ToSet(queue'.ready)
         /\ Waiting(queue) \subseteq {b} \cup Waiting(queue')
<1>1. queue.ready \in Seq(Bets) /\ queue.ready # <<>> /\ b = Head(queue.ready)
  BY DEF DrainTake, QueueType
<1>2. /\ b \in Bets /\ Tail(queue.ready) \in Seq(Bets)
      /\ ToSet(queue.ready) = {b} \cup ToSet(Tail(queue.ready))
  BY <1>1, SetOfTail
<1>3. /\ queue' \in QueueType /\ queue'.ready = Tail(queue.ready)
      /\ queue'.asleep = queue.asleep
  BY <1>2 DEF DrainTake, QueueType
<1> QED BY <1>2, <1>3 DEF Waiting

LEMMA CurrentIsDue ==
  ASSUME TodoInv, pass.at \in {"waiting"} \cup Voiding
  PROVE  Current \in pass.todo /\ Current \in Bets
<1>1. pass.todo \in SUBSET Nat /\ pass.todo # {}
  BY BoundsAssumption DEF TodoInv, Bets
<1>2. \E b \in pass.todo : \A a \in pass.todo : b <= a
  BY <1>1, LeastNatural
<1>3. Current \in pass.todo
  BY <1>2 DEF Current
<1> QED BY <1>3 DEF TodoInv

\* What a pass has to do after somebody asked for another, and after its loop.
LEMMA TodoMoves ==
  ASSUME NEW p \in PassType
  PROVE  /\ Requested(p).todo = p.todo
         /\ LoopEnded(p).todo = {}
BY DEF Requested, LoopEnded, PassType

LEMMA TodoAsked ==
  ASSUME WriterInv, TodoInv, pass' = pass \/ pass' = Requested(pass)
  PROVE  TodoInv'
<1>1. pass \in PassType
  BY DEF WriterInv, PlaceOK
<1> QED BY <1>1, PassMoves, TodoMoves DEF TodoInv, Voiding

LEMMA TodoEnds ==
  ASSUME NEW p \in PassType, pass' = LoopEnded(p)
  PROVE  TodoInv'
BY PassMoves, TodoMoves DEF TodoInv, Voiding

LEMMA TodoNext ==
  ASSUME WriterInv, TodoInv, NextCandidate
  PROVE  TodoInv'
<1>1. pass \in PassType
  BY DEF WriterInv, PlaceOK
<1>2. CASE pass' = LoopEnded(pass)
  BY <1>1, <1>2, TodoEnds
<1>3. CASE pass.todo \ {Current} # {} /\ pass' = [pass EXCEPT !.at = "waiting", !.todo = pass.todo \ {Current}]
  <2>1. pass'.todo = pass.todo \ {Current}
    BY <1>1, <1>3 DEF PassType
  <2> QED BY <1>3, <2>1 DEF TodoInv
<1> QED BY <1>2, <1>3 DEF NextCandidate

LEMMA TodoGoesOn ==
  ASSUME WriterInv, TodoInv, pass.at \in {"waiting"} \cup Voiding, NEW place, pass' = [pass EXCEPT !.at = place]
  PROVE  TodoInv'
BY DEF WriterInv, PlaceOK, PassType, TodoInv

LEMMA TodoVoid ==
  ASSUME WriterInv, WorkInv, Void
  PROVE  TodoInv'
<1>1. pass \in PassType /\ TodoInv
  BY DEF WriterInv, PlaceOK, WorkInv
<1>2. CASE PassBegin
  <2> DEFINE p == [pass EXCEPT !.requested = FALSE]
  <2>1. p \in PassType /\ p.todo = pass.todo
    BY <1>1 DEF PassType
  <2>2. CASE pass' = LoopEnded(p)
    <3> HIDE DEF p
    <3> QED BY <2>1, <2>2, TodoEnds
  <2>3. CASE pass' = [p EXCEPT !.at = "list"]
    <3>1. pass'.at = "list" /\ pass'.todo = pass.todo
      BY <2>1, <2>3 DEF PassType
    <3> QED BY <1>1, <3>1 DEF TodoInv, Voiding
  <2> QED BY <1>2, <2>2, <2>3 DEF PassBegin
<1>3. CASE PassList
  <2> DEFINE p == WokenBy(boot, pass)
             eligible == {b \in candidates : b <= due}
  <2>1. p \in PassType
    BY <1>1, PassMoves DEF WokenBy
  <2>2. CASE pass' = LoopEnded(p)
    <3> HIDE DEF p
    <3> QED BY <2>1, <2>2, TodoEnds
  <2>3. CASE eligible # {} /\ pass' = [p EXCEPT !.at = "waiting", !.todo = eligible]
    <3>1. pass'.todo = eligible
      BY <2>1, <2>3 DEF PassType
    <3>2. eligible \subseteq Bets
      BY DEF WorkInv, HoldInv
    <3> QED BY <2>3, <3>1, <3>2 DEF TodoInv
  <2> QED BY <1>3, <2>2, <2>3 DEF PassList
<1>4. CASE PassFail
  BY <1>1, <1>4, TodoEnds DEF PassFail
<1>5. CASE PassTurn
  <2>1. CASE NextCandidate
    BY <1>1, <2>1, TodoNext
  <2>2. CASE pass' = LoopEnded(pass)
    BY <1>1, <2>2, TodoEnds
  <2>3. CASE pass' = [pass EXCEPT !.at = "attempt"]
    BY <1>1, <1>5, <2>3, TodoGoesOn DEF PassTurn
  <2> QED BY <1>5, <2>1, <2>2, <2>3 DEF PassTurn
<1>6. CASE VoidJudge \/ VoidMined \/ VoidReceipt \/ VoidFail
  <2>1. pass.at \in {"waiting"} \cup Voiding
    BY <1>6 DEF VoidJudge, VoidMined, VoidReceipt, VoidFail, Voiding
  <2>2. CASE NextCandidate
    BY <1>1, <2>2, TodoNext
  <2>3. CASE pass' = [pass EXCEPT !.at = "sent"] \/ pass' = [pass EXCEPT !.at = "receipt"]
    BY <1>1, <2>1, <2>3, TodoGoesOn
  <2> QED BY <1>6, <2>2, <2>3 DEF VoidJudge, VoidMined, VoidReceipt, VoidFail, Reconcile
<1> QED BY <1>2, <1>3, <1>4, <1>5, <1>6 DEF Void

LEMMA TodoStep ==
  ASSUME WriterInv, WorkInv, [Next]_vars
  PROVE  TodoInv'
<1>1. CASE Void
  BY <1>1, TodoVoid
<1>2. CASE Restart
  BY <1>2 DEF Restart, NoPass, TodoInv, Voiding
<1>3. CASE Chain \/ Discover \/ Examine \/ UNCHANGED vars
  <2>1. pass' = pass \/ pass' = Requested(pass)
    BY <1>3 DEF Chain, Place, Receive, Flip, SomebodyElse, DelayOver, Discover, LiveEvent, IndexRow, HistoryRead,
       HistoryRows, HistoryCursor, HistoryFail, Requeue, Examine, Wake, DrainTake, DrainRead, DrainJudge,
       DrainMined, DrainReceipt, DrainFail, WokenBy, memoryVars, vars
  <2> QED BY <2>1, TodoAsked DEF WorkInv
<1> QED BY <1>1, <1>2, <1>3 DEF Next

\* What one step does to the bets at work: only a bet that is over leaves, and with it its
\* place among the candidates; what is ready stays ready or is examined.
Kept ==
    /\ queue' \in QueueType
    /\ IF drain'.at = "idle" THEN drain'.bet = NoBet ELSE drain'.bet \in Bets
    /\ candidates' \subseteq Bets
    /\ \A b \in Bets : Has(b) => Has(b)' \/ (state[b] = "over" /\ b \notin candidates')
    /\ \A b \in candidates' : b \in candidates \/ Has(b)'
    /\ \A b \in ToSet(queue.ready) : b \in ToSet(queue'.ready) \/ drain'.bet = b

LEMMA KeptHolds ==
  ASSUME WorkInv, Kept
  PROVE  HoldInv'
<1>1. ASSUME NEW b \in candidates' PROVE Has(b)'
  BY <1>1 DEF Kept, WorkInv, HoldInv, CandidateIsAtWork
<1> QED BY <1>1 DEF Kept, HoldInv, CandidateIsAtWork

LEMMA NothingMoved ==
  ASSUME HoldInv, UNCHANGED <<queue, drain, candidates>>
  PROVE  Kept
BY DEF HoldInv, Kept, Has, Waiting, InFlight

LEMMA MoreQueued ==
  ASSUME HoldInv, NEW S \in SUBSET Bets, queue' = Enqueued(queue, S), UNCHANGED drain,
         candidates' \subseteq candidates
  PROVE  Kept /\ \A b \in S : Has(b)'
<1>1. /\ queue' \in QueueType
      /\ ToSet(queue'.ready) = ToSet(queue.ready) \cup S
      /\ Waiting(queue') = Waiting(queue) \cup S
  BY EnqueuedHolds DEF HoldInv
<1>2. \A b : Has(b)' <=> b \in Waiting(queue') \/ drain'.bet = b
  BY DEF Has, InFlight
<1> QED BY <1>1, <1>2 DEF HoldInv, Kept, Has, InFlight

LEMMA Examined ==
  ASSUME HoldInv, NEW b \in Bets, DrainTake(b)
  PROVE  Kept
<1>1. /\ queue' \in QueueType
      /\ ToSet(queue.ready) = {b} \cup ToSet(queue'.ready)
      /\ Waiting(queue) \subseteq {b} \cup Waiting(queue')
  BY TakenHolds DEF HoldInv
<1>2. /\ drain.bet = NoBet /\ drain'.at = "waiting" /\ drain'.bet = b
      /\ UNCHANGED candidates
  BY DEF DrainTake, HoldInv
<1>3. NoBet \notin Bets
  BY BoundsAssumption DEF NoBet, Bets
<1>4. \A a : Has(a)' <=> a \in Waiting(queue') \/ drain'.bet = a
  BY DEF Has, InFlight
<1> QED BY <1>1, <1>2, <1>3, <1>4 DEF HoldInv, Kept, Has, InFlight

LEMMA Completed ==
  ASSUME HoldInv, drain.at # "idle", state[drain.bet] = "over", Complete(drain.bet), UNCHANGED queue
  PROVE  Kept
<1>1. /\ drain.bet \in Bets /\ drain'.at = "idle" /\ drain'.bet = NoBet
      /\ candidates' = candidates \ {drain.bet}
  BY DEF HoldInv, Complete, Rested
<1>2. \A a : Has(a)' <=> a \in Waiting(queue) \/ drain'.bet = a
  BY DEF Has, InFlight, Waiting
<1> QED BY <1>1, <1>2 DEF HoldInv, Kept, Has, InFlight

LEMMA RetriedLater ==
  ASSUME HoldInv, drain.at # "idle", Retry(drain.bet), candidates' \subseteq candidates \cup {drain.bet}
  PROVE  Kept
<1>1. drain.bet \in Bets /\ drain'.at = "idle" /\ drain'.bet = NoBet
  BY DEF HoldInv, Retry, Rested
<1>2. /\ queue' \in QueueType /\ queue'.ready = queue.ready
      /\ Waiting(queue') = Waiting(queue) \cup {drain.bet}
  BY <1>1, RetriedHolds DEF HoldInv, Retry
<1>3. \A a : Has(a)' <=> a \in Waiting(queue') \/ drain'.bet = a
  BY DEF Has, InFlight
<1> QED BY <1>1, <1>2, <1>3 DEF HoldInv, Kept, Has, InFlight

LEMMA ExamineKeepsWork ==
  ASSUME WriterInv, WorkInv, Examine
  PROVE  Kept
<1>1. HoldInv /\ (drain.at = "idle" \/ drain.bet \in Bets)
  BY DEF WorkInv, HoldInv
<1>2. ASSUME NEW b \in Bets, Wake(b) PROVE Kept
  <2>1. {b} \in SUBSET Bets
    OBVIOUS
  <2> QED BY <1>1, <1>2, <2>1, MoreQueued DEF Wake
<1>3. ASSUME NEW b \in Bets, DrainTake(b) PROVE Kept
  BY <1>1, <1>3, Examined
<1>4. CASE DrainRead
  <2>1. CASE state[drain.bet] = "over"
    BY <1>1, <1>4, <2>1, Completed DEF DrainRead
  <2>2. CASE state[drain.bet] # "over"
    <3>1. /\ drain'.at = "judge" /\ drain'.bet = drain.bet /\ drain.at # "idle"
          /\ UNCHANGED <<queue, candidates>>
      BY <1>4, <2>2 DEF DrainRead, WriterInv, PlaceOK
    <3> QED BY <1>1, <3>1 DEF HoldInv, Kept, Has, Waiting, InFlight
  <2> QED BY <2>1, <2>2
<1>5. CASE DrainJudge
  <2>1. drain.at # "idle"
    BY <1>5 DEF DrainJudge
  <2>2. CASE state[drain.bet] = "over" /\ Complete(drain.bet) /\ UNCHANGED queue
    BY <1>1, <2>1, <2>2, Completed
  <2>3. CASE /\ drain' = [drain EXCEPT !.at = IF CanRefund(drain.bet) THEN "refund" ELSE "finalize"]
             /\ UNCHANGED <<candidates, queue>>
    <3>1. drain'.at # "idle" /\ drain'.bet = drain.bet
      BY <2>3 DEF WriterInv, PlaceOK
    <3> QED BY <1>1, <2>1, <2>3, <3>1 DEF HoldInv, Kept, Has, Waiting, InFlight
  <2>4. CASE /\ Retry(drain.bet) /\ candidates' \in {candidates \ {drain.bet}, candidates \cup {drain.bet}}
    BY <1>1, <2>1, <2>4, RetriedLater
  <2> QED BY <1>5, <2>2, <2>3, <2>4 DEF DrainJudge
<1>6. CASE DrainMined
  <2>1. drain'.at = "receipt" /\ drain'.bet = drain.bet /\ drain.at # "idle" /\ UNCHANGED <<queue, candidates>>
    BY <1>6 DEF DrainMined, WriterInv, PlaceOK
  <2> QED BY <1>1, <2>1 DEF HoldInv, Kept, Has, Waiting, InFlight
<1>7. CASE DrainReceipt
  <2>1. drain.at # "idle"
    BY <1>7 DEF DrainReceipt
  <2> QED BY <1>1, <1>7, <2>1, Completed, RetriedLater DEF DrainReceipt
<1>8. CASE DrainFail
  <2>1. drain.at # "idle"
    BY <1>8, RunsTable DEF DrainFail, WriterInv, TurnInv
  <2> QED BY <1>1, <1>8, <2>1, RetriedLater DEF DrainFail
<1> QED BY <1>2, <1>3, <1>4, <1>5, <1>6, <1>7, <1>8 DEF Examine

LEMMA VoidKeepsWork ==
  ASSUME WorkInv, Void
  PROVE  Kept
<1>1. CASE UNCHANGED <<queue, drain, candidates>>
  BY <1>1, NothingMoved DEF WorkInv
<1>2. CASE (VoidJudge \/ VoidReceipt) /\ Reconcile(Current)
  <2>1. pass.at \in {"waiting"} \cup Voiding
    BY <1>2 DEF VoidJudge, VoidReceipt, Voiding
  <2>2. {Current} \in SUBSET Bets
    BY <2>1, CurrentIsDue DEF WorkInv
  <2>3. /\ queue' = Enqueued(queue, {Current}) /\ UNCHANGED drain
        /\ candidates' = candidates \ {Current}
    BY <1>2 DEF VoidJudge, VoidReceipt, Reconcile
  <2> QED BY <2>2, <2>3, MoreQueued DEF WorkInv
<1> QED BY <1>1, <1>2 DEF Void, PassBegin, PassList, PassFail, PassTurn, VoidJudge, VoidMined, VoidReceipt, VoidFail

LEMMA DiscoverKeepsWork ==
  ASSUME ScanInv, WorkInv, Discover
  PROVE  Kept
<1>1. CASE UNCHANGED <<queue, drain, candidates>>
  BY <1>1, NothingMoved DEF WorkInv
<1>2. ASSUME NEW S \in SUBSET Bets, queue' = Enqueued(queue, S), UNCHANGED <<drain, candidates>>
      PROVE  Kept
  BY <1>2, MoreQueued DEF WorkInv
<1>3. CASE \E b \in Bets : LiveEvent(b)
  BY <1>2, <1>3 DEF LiveEvent
<1>4. CASE HistoryRead
  <2>1. CASE UNCHANGED queue
    BY <1>1, <1>4, <2>1 DEF HistoryRead
  <2>2. CASE ~UNCHANGED queue
    <3> DEFINE found == (boot.recovered + 1)..Lesser(boot.recovered + ChunkBlocks, Latest)
               S == {b \in found : ~Has(b)}
    <3>1. queue' = Enqueued(queue, S) /\ UNCHANGED <<drain, candidates>>
      BY <1>4, <2>2 DEF HistoryRead
    <3>2. found \subseteq Bets
      BY LatestBound, BoundsAssumption DEF ScanInv, Lesser, Bets
    <3>3. S \in SUBSET Bets
      BY <3>2
    <3> HIDE DEF S
    <3> QED BY <1>2, <3>1, <3>3
  <2> QED BY <2>1, <2>2
<1>5. CASE Requeue
  <2> DEFINE S == {b \in Page(boot.after) : ~Has(b)}
  <2>1. queue' = Enqueued(queue, S) /\ UNCHANGED <<drain, candidates>>
    BY <1>5 DEF Requeue
  <2>2. S \in SUBSET Bets
    BY DEF Page
  <2> HIDE DEF S
  <2> QED BY <1>2, <2>1, <2>2
<1> QED BY <1>1, <1>3, <1>4, <1>5 DEF Discover, IndexRow, HistoryRows, HistoryCursor, HistoryFail, memoryVars

LEMMA StepKeepsWork ==
  ASSUME ScanInv, WriterInv, WorkInv, [Next]_vars
  PROVE  Kept \/ Restart
<1>1. CASE Chain \/ UNCHANGED vars
  <2>1. UNCHANGED <<queue, drain, candidates>>
    BY <1>1 DEF Chain, Place, Receive, Flip, SomebodyElse, DelayOver, memoryVars, vars
  <2> QED BY <2>1, NothingMoved DEF WorkInv
<1> QED BY <1>1, ExamineKeepsWork, VoidKeepsWork, DiscoverKeepsWork DEF Next

LEMMA RestartHolds ==
  ASSUME Restart
  PROVE  HoldInv'
<1>1. Page(NoBet) \in SUBSET Bets
  BY DEF Page
<1>2. queue' \in QueueType
  BY <1>1, EmptyQueueHolds, EnqueuedHolds DEF Restart
<1>3. drain'.at = "idle" /\ drain'.bet = NoBet /\ candidates' = {}
  BY DEF Restart, Rested
<1> QED BY <1>2, <1>3 DEF HoldInv, CandidateIsAtWork

LEMMA StartsCount ==
  ASSUME starts \in Nat, [Next]_vars
  PROVE  starts' \in Nat /\ (Restart => starts' # starts)
<1>1. CASE Restart
  BY <1>1 DEF Restart
<1>2. CASE Chain \/ Discover \/ Examine \/ Void \/ UNCHANGED vars
  <2>1. UNCHANGED starts
    BY <1>2 DEF Chain, Place, Receive, Flip, SomebodyElse, DelayOver, Discover, LiveEvent, IndexRow, HistoryRead,
       HistoryRows, HistoryCursor, HistoryFail, Requeue, Examine, Wake, DrainTake, DrainRead, DrainJudge,
       DrainMined, DrainReceipt, DrainFail, Void, PassBegin, PassList, PassFail, PassTurn, VoidJudge, VoidMined,
       VoidReceipt, VoidFail, vars
  <2> QED BY <2>1 DEF Restart
<1> QED BY <1>1, <1>2 DEF Next

LEMMA WorkInit == Init => WorkInv
BY EmptyQueueHolds DEF Init, WorkInv, HoldInv, TodoInv, CandidateIsAtWork, Rested, NoPass, Voiding

\* The writers, the scan and the work together.
KeeperInv == WriterInv /\ ScanInv /\ WorkInv

LEMMA KeeperStep ==
  ASSUME KeeperInv, [Next]_vars
  PROVE  KeeperInv'
<1>1. WriterInv' /\ ScanInv'
  BY WriterStep, ScanStep DEF KeeperInv
<1>2. TodoInv'
  BY TodoStep DEF KeeperInv
<1>3. HoldInv'
  BY StepKeepsWork, KeptHolds, RestartHolds DEF KeeperInv
<1>4. starts' \in Nat
  BY StartsCount DEF KeeperInv, WorkInv
<1> QED BY <1>1, <1>2, <1>3, <1>4 DEF KeeperInv, WorkInv

\* What the keeper holds fits together in every state: the chain of writers, the place of the
\* scan, the queue with the examination, and the candidates (createKeeperRuntime).
THEOREM KeeperIsTyped == Spec => []KeeperInv
<1>1. Init => KeeperInv
  BY WorkInit, WriterInit, ScanInit DEF KeeperInv
<1>2. KeeperInv /\ [Next]_vars => KeeperInv'
  BY KeeperStep
<1> QED BY <1>1, <1>2, PTL DEF Spec

\* A candidate for voiding is queued or examined, whatever failed or reverted
\* (syncVoidCandidate, handleVoidOutcome).
THEOREM KeeperWorksOnCandidates == Spec => []CandidateIsAtWork
<1>1. KeeperInv => CandidateIsAtWork
  BY DEF KeeperInv, WorkInv, HoldInv
<1> QED BY <1>1, KeeperIsTyped, PTL

\* No examination drops the event of a bet or puts it back to sleep
\* (FinalizeQueue.retry, complete and enqueue).
THEOREM KeeperKeepsWakeups == Spec => WakeupIsKept
<1>1. KeeperInv /\ [Next]_vars =>
        [starts' = starts => \A b \in ToSet(queue.ready) : b \in ToSet(queue'.ready) \/ drain'.bet = b]_vars
  <2> SUFFICES ASSUME KeeperInv, [Next]_vars, starts' = starts
               PROVE  \A b \in ToSet(queue.ready) : b \in ToSet(queue'.ready) \/ drain'.bet = b
    OBVIOUS
  <2>1. ~Restart
    BY StartsCount DEF KeeperInv, WorkInv
  <2> QED BY <2>1, StepKeepsWork DEF Kept, KeeperInv
<1> QED BY <1>1, KeeperIsTyped, PTL DEF Spec, WakeupIsKept

-----------------------------------------------------------------------------
(* The chain and the recovery after a start.                               *)

LEMMA ChainMoves ==
  ASSUME KeeperInv, ChainInv, [Next]_vars
  PROVE  /\ state' \in [Bets -> States]
         /\ \A b \in Bets : Placed(b) => Placed(b)'
         /\ \A b \in Bets : state[b] = "over" => state'[b] = "over"
         /\ \A b \in Bets : Placed(b)' /\ ~Placed(b) => \A a \in 1..(b - 1) : Placed(a)
<1>1. CASE UNCHANGED state
  BY <1>1 DEF ChainInv, Placed
<1>2. ASSUME NEW b \in Bets, Place(b)
      PROVE  /\ state' \in [Bets -> States]
             /\ \A a \in Bets : Placed(a) => Placed(a)'
             /\ \A a \in Bets : state[a] = "over" => state'[a] = "over"
             /\ \A a \in Bets : Placed(a)' /\ ~Placed(a) => \A c \in 1..(a - 1) : Placed(c)
  BY <1>2 DEF Place, ChainInv, Placed, States
<1>3. ASSUME NEW b \in Bets, Placed(b), NEW s \in {"received", "over"}, state[b] = "over" => s = "over",
             state' = [state EXCEPT ![b] = s]
      PROVE  /\ state' \in [Bets -> States]
             /\ \A a \in Bets : Placed(a) => Placed(a)'
             /\ \A a \in Bets : state[a] = "over" => state'[a] = "over"
             /\ \A a \in Bets : Placed(a)' /\ ~Placed(a) => \A c \in 1..(a - 1) : Placed(c)
  BY <1>3 DEF ChainInv, Placed, States
<1>4. ASSUME NEW b \in Bets, Receive(b) \/ SomebodyElse(b)
      PROVE  \E s \in {"received", "over"} :
                /\ Placed(b) /\ state' = [state EXCEPT ![b] = s]
                /\ state[b] = "over" => s = "over"
  BY <1>4 DEF Receive, SomebodyElse, CanFinalize, CanRefund, CanVoid, Placed
<1>5. CASE DrainMined
  <2>1. drain.bet \in Bets
    BY <1>5 DEF DrainMined, KeeperInv, WorkInv, HoldInv
  <2>2. UNCHANGED state \/ (Placed(drain.bet) /\ state' = [state EXCEPT ![drain.bet] = "over"])
    BY <1>5 DEF DrainMined, CanRefund, CanFinalize, Placed
  <2> QED BY <1>1, <1>3, <2>1, <2>2
<1>6. CASE VoidMined
  <2>1. Current \in Bets
    BY <1>6, CurrentIsDue DEF VoidMined, KeeperInv, WorkInv, Voiding
  <2>2. UNCHANGED state \/ (Placed(Current) /\ state' = [state EXCEPT ![Current] = "over"])
    BY <1>6 DEF VoidMined, CanVoid, Placed
  <2> QED BY <1>1, <1>3, <2>1, <2>2
<1>7. CASE Chain
  BY <1>1, <1>2, <1>3, <1>4, <1>7 DEF Chain, Flip, DelayOver
<1>8. CASE Discover \/ Examine \/ Void \/ Restart \/ UNCHANGED vars
  <2>1. UNCHANGED state \/ DrainMined \/ VoidMined
    BY <1>8 DEF Discover, LiveEvent, IndexRow, HistoryRead,
       HistoryRows, HistoryCursor, HistoryFail, Requeue, Examine, Wake, DrainTake, DrainRead, DrainJudge,
       DrainReceipt, DrainFail, Void, PassBegin, PassList, PassFail, PassTurn, VoidJudge,
       VoidReceipt, VoidFail, Restart, chainVars, vars
  <2> QED BY <1>1, <1>5, <1>6, <2>1
<1> QED BY <1>7, <1>8 DEF Next

LEMMA RowsMove ==
  ASSUME ScanInv, ChainInv, [Next]_vars, NEW b \in Bets
  PROVE  /\ rows'[b] = "closed" => state[b] = "over"
         /\ rows[b] = "open" => rows'[b] = "open" \/ state[b] = "over"
<1>1. CASE UNCHANGED rows
  BY <1>1 DEF ChainInv
<1>2. CASE \E a \in Bets : IndexRow(a)
  <2>1. PICK a \in Bets : rows' = [rows EXCEPT ![a] = IF state[a] = "over" THEN "closed" ELSE "open"]
    BY <1>2 DEF IndexRow
  <2>2. rows'[b] = IF a = b THEN IF state[a] = "over" THEN "closed" ELSE "open" ELSE rows[b]
    BY <2>1 DEF ScanInv
  <2> QED BY <2>2 DEF ChainInv
<1>3. CASE HistoryRows
  <2>1. rows'[b] = rows[b] \/ (rows[b] = "absent" /\ rows'[b] = "open")
    BY <1>3 DEF HistoryRows
  <2> QED BY <2>1 DEF ChainInv
<1>4. UNCHANGED rows \/ (\E a \in Bets : IndexRow(a)) \/ HistoryRows
  <2>1. CASE Chain
    BY <2>1 DEF Chain, Place, Receive, Flip, SomebodyElse, DelayOver, indexVars
  <2>2. CASE Discover
    BY <2>2 DEF Discover, LiveEvent, HistoryRead, HistoryCursor, HistoryFail, Requeue, indexVars
  <2>3. CASE Examine
    BY <2>3 DEF Examine, Wake, DrainTake, DrainRead, DrainJudge, DrainMined, DrainReceipt, DrainFail, indexVars
  <2>4. CASE Void
    BY <2>4 DEF Void, PassBegin, PassList, PassFail, PassTurn, VoidJudge, VoidMined, VoidReceipt, VoidFail, indexVars
  <2>5. CASE Restart \/ UNCHANGED vars
    BY <2>5 DEF Restart, vars, indexVars
  <2> QED BY <2>1, <2>2, <2>3, <2>4, <2>5 DEF Next
<1> QED BY <1>1, <1>2, <1>3, <1>4

LEMMA ChainStep ==
  ASSUME KeeperInv, ChainInv, [Next]_vars
  PROVE  ChainInv'
<1>1. state' \in [Bets -> States]
  BY ChainMoves
<1>2. ASSUME NEW a \in Bets, NEW b \in Bets, a < b, Placed(b)' PROVE Placed(a)'
  <2>1. CASE Placed(b)
    BY <1>2, <2>1, ChainMoves DEF ChainInv
  <2>2. CASE ~Placed(b)
    <3>1. a \in 1..(b - 1)
      BY <1>2, BoundsAssumption DEF Bets
    <3> QED BY <1>2, <2>2, <3>1, ChainMoves
  <2> QED BY <2>1, <2>2
<1>3. ASSUME NEW b \in Bets, rows'[b] = "closed" PROVE state'[b] = "over"
  BY <1>3, ChainMoves, RowsMove DEF KeeperInv
<1> QED BY <1>1, <1>2, <1>3 DEF ChainInv, Placed

\* The last block is that of the last bet: as many bets as blocks are placed.
LEMMA LatestIsPlaced ==
  ASSUME ChainInv
  PROVE  \A b \in 1..Latest : Placed(b)
<1> DEFINE T == {b \in Bets : Placed(b)}
<1>0. Bets \in SUBSET Nat /\ IsFiniteSet(Bets) /\ T \in SUBSET Nat /\ MaxBet \in Nat /\ \A b \in T : b <= MaxBet
  BY BoundsAssumption, FS_Interval DEF Bets
<1>1. Latest = Cardinality(T)
  BY DEF Latest, Placed
<1>2. CASE T = {}
  <2>1. Latest = 0
    BY <1>1, <1>2, FS_EmptySet
  <2> QED BY <2>1
<1>3. CASE T # {}
  <2>1. PICK m \in T : \A b \in T : b <= m
    <3> HIDE DEF T
    <3> QED BY <1>0, <1>3, GreatestNatural
  <2>2. m \in Bets /\ Placed(m) /\ m \in Nat
    BY <1>0
  <2>3. \A b \in 1..m : Placed(b)
    BY <2>2, BoundsAssumption DEF ChainInv, Bets
  <2>4. T = 1..m
    BY <2>1, <2>2, <2>3, BoundsAssumption DEF Bets
  <2>5. Latest = m
    <3>1. Cardinality(1..m) = IF 1 > m THEN 0 ELSE m - 1 + 1
      BY <2>2, FS_Interval
    <3>2. m >= 1
      BY <2>2, BoundsAssumption DEF Bets
    <3>3. Cardinality(1..m) = m
      BY <2>2, <3>1, <3>2
    <3> HIDE DEF T
    <3> QED BY <1>1, <2>4, <3>3
  <2> QED BY <2>3, <2>5
<1> QED BY <1>2, <1>3

\* A page shorter than its size holds all there is; a full one all up to its last.
LEMMA PageCovers ==
  ASSUME NEW after \in Nat, NEW b \in Bets, b > after, rows[b] = "open"
  PROVE  \/ b \in Page(after)
         \/ /\ ~(Cardinality(Page(after)) < PageSize)
            /\ \E m \in Page(after) : \A a \in Page(after) : a <= m
            /\ \A m \in Page(after) : b > m
<1> DEFINE U == {a \in Bets : a > after /\ rows[a] = "open"}
           Below(c) == {a \in U : a < c}
           P == Page(after)
<1>0. /\ U \in SUBSET Nat /\ IsFiniteSet(U) /\ U \subseteq Bets /\ b \in U /\ MaxBet \in Nat
      /\ \A a \in U : a <= MaxBet
  <2>1. IsFiniteSet(Bets)
    BY BoundsAssumption, FS_Interval DEF Bets
  <2>2. IsFiniteSet(U)
    BY <2>1, FS_Subset
  <2> QED BY <2>2, BoundsAssumption DEF Bets
<1>1. P = {c \in U : Cardinality(Below(c)) < PageSize}
  BY DEF Page
<1> HIDE DEF U, P
<1>2. ASSUME NEW T \in SUBSET U
      PROVE  IsFiniteSet(T) /\ Cardinality(T) \in Nat /\ \A W \in SUBSET T : Cardinality(W) \in Nat /\ Cardinality(W) <= Cardinality(T)
  <2>1. IsFiniteSet(T)
    BY <1>0, <1>2, FS_Subset
  <2> QED BY <2>1, FS_Subset, FS_CardinalityType
<1>3. P \in SUBSET U /\ PageSize \in Nat \ {0}
  BY <1>1, BoundsAssumption
<1>4. SUFFICES ASSUME b \notin P
      PROVE  /\ ~(Cardinality(P) < PageSize)
             /\ \E m \in P : \A a \in P : a <= m
             /\ \A m \in P : b > m
  BY DEF P
<1>5. ~(Cardinality(P) < PageSize)
  <2> SUFFICES ASSUME Cardinality(P) < PageSize PROVE FALSE
    OBVIOUS
  <2>1. U \ P \in SUBSET Nat /\ U \ P # {}
    BY <1>0, <1>4
  <2>2. PICK r \in U \ P : \A a \in U \ P : r <= a
    BY <2>1, LeastNatural
  <2>3. Below(r) \in SUBSET P
    <3>1. ASSUME NEW a \in U, a < r PROVE a \in P
      <4>1. a \in Nat /\ r \in Nat
        BY <1>0, <2>2
      <4> QED BY <2>2, <3>1, <4>1
    <3> QED BY <3>1
  <2>4. Cardinality(Below(r)) < PageSize
    <3> HIDE DEF Below
    <3> QED BY <1>2, <1>3, <2>3
  <2> QED BY <1>1, <2>2, <2>4
<1>6. P # {}
  <2> SUFFICES ASSUME P = {} PROVE FALSE
    OBVIOUS
  <2>1. Cardinality(P) = 0
    BY FS_EmptySet
  <2> QED BY <1>3, <1>5, <2>1
<1>7. \E m \in P : \A a \in P : a <= m
  <2>1. P \in SUBSET Nat /\ \A a \in P : a <= MaxBet
    BY <1>0, <1>3
  <2> QED BY <1>0, <1>6, <2>1, GreatestNatural
<1>8. ASSUME NEW m \in P PROVE b > m
  <2> SUFFICES ASSUME b <= m PROVE FALSE
    BY <1>0, <1>3
  <2>1. Below(b) \in SUBSET Below(m) /\ Below(m) \in SUBSET U
    <3>1. ASSUME NEW a \in U, a < b PROVE a < m
      <4>1. a \in Nat /\ b \in Nat /\ m \in Nat
        BY <1>0, <1>3
      <4> QED BY <3>1, <4>1
    <3> QED BY <3>1
  <2>2. Cardinality(Below(m)) < PageSize
    BY <1>1
  <2>3. Cardinality(Below(b)) < PageSize
    <3> HIDE DEF Below
    <3> QED BY <1>2, <1>3, <2>1, <2>2
  <2> QED BY <1>0, <1>1, <1>4, <2>3
<1> QED BY <1>5, <1>7, <1>8

\* What a check and a page of the database do to the memory.
LEMMA CheckedHolds ==
  ASSUME NEW m \in BootType
  PROVE  /\ Checked(m) \in BootType
         /\ Checked(m).head = m.head /\ Checked(m).recovered = m.recovered
         /\ Checked(m).indexed = m.indexed /\ Checked(m).after = m.after
         /\ Checked(m).complete <=>
               m.complete \/ (m.head # Unknown /\ m.recovered >= m.head /\ (HasIndex => m.indexed))
<1>1. Recovered(m) \in BOOLEAN
  BY DEF Recovered, BootType
<1>2. Checked(m).complete = Recovered(m)
  BY DEF Checked, BootType
<1> QED BY <1>1, <1>2 DEF Checked, Recovered, BootType

LEMMA PagedHolds ==
  ASSUME NEW m \in BootType
  PROVE  /\ Paged(m) \in BootType
         /\ Paged(m).head = m.head /\ Paged(m).recovered = m.recovered /\ Paged(m).complete = m.complete
         /\ m.indexed => Paged(m).indexed
         /\ \A b \in Bets : b > m.after /\ rows[b] = "open" =>
               b \in Page(m.after) \/ (Paged(m).indexed = m.indexed /\ b > Paged(m).after)
<1> DEFINE short == Cardinality(Page(m.after)) < PageSize
           last == CHOOSE b \in Page(m.after) : \A a \in Page(m.after) : a <= b
<1>0. m.after \in Nat /\ m.indexed \in BOOLEAN /\ NoBet \in Nat /\ short \in BOOLEAN
  BY DEF BootType, NoBet
<1>1. Paged(m) = [m EXCEPT !.after = IF short THEN NoBet ELSE last, !.indexed = m.indexed \/ short]
  BY DEF Paged
<1>2. ~short => last \in Page(m.after) /\ last \in Nat
  <2> SUFFICES ASSUME ~short PROVE last \in Page(m.after) /\ last \in Nat
    OBVIOUS
  <2>1. Page(m.after) \in SUBSET Nat /\ MaxBet \in Nat /\ \A a \in Page(m.after) : a <= MaxBet
    BY BoundsAssumption DEF Page, Bets
  <2>2. Page(m.after) # {}
    <3>1. Cardinality({}) = 0 /\ 0 < PageSize
      BY FS_EmptySet, BoundsAssumption
    <3> QED BY <3>1
  <2>3. \E b \in Page(m.after) : \A a \in Page(m.after) : a <= b
    BY <2>1, <2>2, GreatestNatural
  <2>4. last \in Page(m.after)
    BY <2>3
  <2> HIDE DEF last
  <2> QED BY <2>1, <2>4
<1> HIDE DEF short, last
<1>3. (IF short THEN NoBet ELSE last) \in Nat /\ (m.indexed \/ short) \in BOOLEAN
  BY <1>0, <1>2
<1>4. /\ Paged(m) \in BootType
      /\ Paged(m).head = m.head /\ Paged(m).recovered = m.recovered /\ Paged(m).complete = m.complete
      /\ Paged(m).after = (IF short THEN NoBet ELSE last)
      /\ Paged(m).indexed = (m.indexed \/ short)
  BY <1>1, <1>3 DEF BootType
<1>5. ASSUME NEW b \in Bets, b > m.after, rows[b] = "open", b \notin Page(m.after)
      PROVE  Paged(m).indexed = m.indexed /\ b > Paged(m).after
  <2>1. ~short /\ \A l \in Page(m.after) : b > l
    BY <1>0, <1>5, PageCovers DEF short
  <2>2. b > last
    BY <1>2, <2>1
  <2> QED BY <1>0, <1>4, <2>1, <2>2
<1> QED BY <1>0, <1>4, <1>5

LEMMA EmptyMemoryHolds ==
  ASSUME NEW k \in 0..MaxBet
  PROVE  /\ EmptyMemory(k) \in BootType
         /\ EmptyMemory(k).head = Unknown /\ EmptyMemory(k).recovered = k /\ EmptyMemory(k).indexed = FALSE
         /\ EmptyMemory(k).after = 0 /\ EmptyMemory(k).complete = FALSE
BY DEF EmptyMemory, BootType, NoBet

\* An open bet behind the scan stays at work, or to come, while its page is not read.
LEMMA StaysAtWork ==
  ASSUME KeeperInv, ChainInv, [Next]_vars, Kept, NEW b \in Bets, Placed(b), b \in Open'
  PROVE  /\ b \in Open
         /\ Has(b) => Has(b)'
         /\ InPagesToCome(b) => rows[b] = "open" /\ rows'[b] = "open" /\ HasIndex /\ ~boot.indexed /\ b > boot.after
<1>1. state[b] # "over" /\ state[b] # "none" /\ state[b] \in States
  BY ChainMoves DEF Open, Placed, ChainInv
<1>2. b \in Open
  BY <1>1 DEF Open, States
<1>3. Has(b) => Has(b)'
  BY <1>1 DEF Kept
<1>4. rows[b] = "open" => rows'[b] = "open"
  BY <1>1, RowsMove DEF KeeperInv
<1> QED BY <1>2, <1>3, <1>4 DEF InPagesToCome

\* Who waits or voids has seen the recovery complete, or sees it in this step.
LEMMA PassWaits ==
  ASSUME KeeperInv, [Next]_vars, pass'.at \in {"waiting"} \cup Voiding
  PROVE  pass.at \in {"waiting"} \cup Voiding \/ (PassList /\ Recovered(boot))
<1> USE DEF Voiding
<1>0. pass \in PassType
  BY DEF KeeperInv, WriterInv, PlaceOK
<1>1. CASE pass' = pass \/ pass' = Requested(pass)
  BY <1>0, <1>1, PassMoves
<1>2. CASE PassBegin
  <2> DEFINE p == [pass EXCEPT !.requested = FALSE]
  <2>1. p \in PassType
    BY <1>0 DEF PassType
  <2>2. pass' = LoopEnded(p) \/ pass' = [p EXCEPT !.at = "list"]
    BY <1>2 DEF PassBegin
  <2>3. pass' # LoopEnded(p)
    <3> HIDE DEF p
    <3> QED BY <2>1, PassMoves
  <2>4. pass'.at = "list"
    BY <2>1, <2>2, <2>3 DEF PassType
  <2> QED BY <2>4
<1>3. CASE PassList
  <2> DEFINE p == WokenBy(boot, pass)
  <2>1. p \in PassType
    BY <1>0, PassMoves DEF WokenBy
  <2>2. pass' # LoopEnded(p)
    <3> HIDE DEF p
    <3> QED BY <2>1, PassMoves
  <2> QED BY <1>3, <2>2 DEF PassList
<1>4. CASE PassFail
  BY <1>0, <1>4, PassMoves DEF PassFail
<1>5. CASE PassTurn \/ VoidJudge \/ VoidMined \/ VoidReceipt \/ VoidFail
  BY <1>5 DEF PassTurn, VoidJudge, VoidMined, VoidReceipt, VoidFail
<1>6. CASE Restart
  BY <1>6 DEF Restart, NoPass
<1>7. CASE Chain \/ Discover \/ Examine \/ UNCHANGED vars
  <2>1. pass' = pass \/ pass' = Requested(pass)
    BY <1>7 DEF Chain, Place, Receive, Flip, SomebodyElse, DelayOver, Discover, LiveEvent, IndexRow, HistoryRead,
       HistoryRows, HistoryCursor, HistoryFail, Requeue, Examine, Wake, DrainTake, DrainRead, DrainJudge,
       DrainMined, DrainReceipt, DrainFail, WokenBy, memoryVars, vars
  <2> QED BY <1>1, <2>1
<1> QED BY <1>2, <1>3, <1>4, <1>5, <1>6, <1>7 DEF Next, Void

LEMMA LatchStep ==
  ASSUME KeeperInv, RecoveryInv, [Next]_vars
  PROVE  LatchInv'
<1> DEFINE Sound(m) == m.complete => /\ m.head # Unknown /\ m.recovered >= m.head
                                     /\ HasIndex => m.indexed
<1>0. boot \in BootType /\ Sound(boot)
  BY DEF RecoveryInv, LatchInv
<1>1. ASSUME NEW m \in BootType, Sound(m), boot.complete => m.complete, boot' = m \/ boot' = Checked(m),
             PassList => boot' = Checked(boot), ~Restart
      PROVE  LatchInv'
  <2>1. boot' \in BootType /\ Sound(boot') /\ (boot.complete => boot'.complete)
    BY <1>1, CheckedHolds
  <2>2. PassList /\ Recovered(boot) => boot'.complete
    BY <1>0, <1>1, CheckedHolds DEF Recovered
  <2> QED BY <2>1, <2>2, PassWaits DEF RecoveryInv, LatchInv
<1>2. CASE UNCHANGED boot /\ ~PassList /\ ~Restart
  BY <1>0, <1>1, <1>2
<1>3. CASE PassList /\ ~Restart
  <2>1. boot' = Checked(boot)
    BY <1>3 DEF PassList
  <2> QED BY <1>0, <1>1, <1>3, <2>1
<1>4. CASE HistoryRead /\ ~PassList /\ ~Restart
  <2> DEFINE m == [boot EXCEPT !.head = IF boot.head = Unknown THEN Latest ELSE boot.head]
  <2>1. m \in BootType /\ Sound(m) /\ m.complete = boot.complete
    BY <1>0, LatestBound, BoundsAssumption DEF BootType
  <2>2. boot' = m \/ boot' = Checked(m)
    BY <1>4 DEF HistoryRead
  <2> HIDE DEF m
  <2> QED BY <1>1, <1>4, <2>1, <2>2
<1>5. CASE HistoryCursor /\ ~PassList /\ ~Restart
  <2> DEFINE m == [boot EXCEPT !.recovered = history.through]
  <2>0. history.through \in 0..MaxBet /\ boot.recovered <= history.through /\ boot.recovered \in 0..MaxBet
    BY <1>0, <1>5 DEF HistoryCursor, KeeperInv, ScanInv, RecoveryInv, PlacedInv
  <2>1. /\ m \in BootType /\ m.complete = boot.complete
        /\ m.recovered = history.through /\ m.head = boot.head /\ m.indexed = boot.indexed
    BY <1>0, <2>0 DEF BootType
  <2>2. boot.head \in Int
    BY <1>0 DEF BootType, Unknown
  <2>3. Sound(m)
    BY <1>0, <2>0, <2>1, <2>2, BoundsAssumption
  <2>4. boot' = Checked(m)
    BY <1>5 DEF HistoryCursor
  <2> HIDE DEF m
  <2> QED BY <1>1, <1>5, <2>1, <2>3, <2>4
<1>6. CASE Requeue /\ ~PassList /\ ~Restart
  <2>1. Paged(boot) \in BootType /\ Sound(Paged(boot)) /\ (boot.complete => Paged(boot).complete)
    BY <1>0, PagedHolds
  <2>2. boot' = Paged(boot) \/ boot' = Checked(Paged(boot))
    BY <1>6 DEF Requeue
  <2> QED BY <1>1, <1>6, <2>1, <2>2
<1>7. CASE Restart
  <2>1. PICK k \in {cursor, 0} : boot' = Paged(EmptyMemory(k)) \/ boot' = EmptyMemory(k)
    BY <1>7 DEF Restart
  <2>2. k \in 0..MaxBet
    BY BoundsAssumption DEF KeeperInv, ScanInv
  <2>3. boot' \in BootType /\ ~boot'.complete
    BY <2>1, <2>2, EmptyMemoryHolds, PagedHolds
  <2>4. pass'.at = "idle"
    BY <1>7 DEF Restart, NoPass
  <2> QED BY <2>3, <2>4 DEF LatchInv, Voiding
<1>8. UNCHANGED boot \/ PassList \/ HistoryRead \/ HistoryCursor \/ Requeue \/ Restart
  <2>1. CASE Chain \/ UNCHANGED vars
    BY <2>1 DEF Chain, Place, Receive, Flip, SomebodyElse, DelayOver, memoryVars, vars
  <2>2. CASE Discover
    BY <2>2 DEF Discover, LiveEvent, IndexRow, HistoryRows, HistoryFail, memoryVars
  <2>3. CASE Examine
    BY <2>3 DEF Examine, Wake, DrainTake, DrainRead, DrainJudge, DrainMined, DrainReceipt, DrainFail
  <2>4. CASE Void
    BY <2>4 DEF Void, PassBegin, PassFail, PassTurn, VoidJudge, VoidMined, VoidReceipt, VoidFail
  <2> QED BY <2>1, <2>2, <2>3, <2>4 DEF Next
<1> QED BY <1>2, <1>3, <1>4, <1>5, <1>6, <1>7, <1>8

\* Where the scan and its saved place go in a step.
LEMMA ScanMoves ==
  ASSUME KeeperInv, RecoveryInv, [Next]_vars
  PROVE  \/ /\ UNCHANGED cursor /\ boot'.recovered = boot.recovered
            /\ history'.at # "idle" => history.at # "idle" /\ history'.through = history.through
            /\ ~HistoryRead \/ history' = history
            /\ ~HistoryCursor /\ ~Restart
         \/ HistoryRead /\ history' # history
         \/ HistoryCursor
         \/ Restart
<1>0. boot \in BootType
  BY DEF RecoveryInv, LatchInv
<1>1. CASE HistoryRead /\ history' = history
  <2> DEFINE m == [boot EXCEPT !.head = IF boot.head = Unknown THEN Latest ELSE boot.head]
  <2>1. m.recovered = boot.recovered
    BY <1>0 DEF BootType
  <2>2. boot' = m \/ boot' = Checked(m)
    BY <1>1 DEF HistoryRead
  <2> HIDE DEF m
  <2>3. boot'.recovered = boot.recovered
    BY <2>1, <2>2, MemoryMoves
  <2> QED BY <1>1, <2>3 DEF HistoryRead, indexVars
<1>2. CASE PassList \/ Requeue
  <2>1. boot'.recovered = boot.recovered
    BY <1>2, MemoryMoves DEF PassList, Requeue
  <2>2. UNCHANGED <<cursor, history>>
    BY <1>2 DEF PassList, Requeue, indexVars
  <2> QED BY <2>1, <2>2
<1>3. CASE HistoryRows
  BY <1>3 DEF HistoryRows, KeeperInv, ScanInv
<1>4. CASE HistoryFail
  BY <1>4 DEF HistoryFail, indexVars
<1>5. CASE UNCHANGED <<cursor, boot, history>>
  BY <1>5
<1>6. \/ UNCHANGED <<cursor, boot, history>> \/ PassList \/ HistoryRead \/ HistoryRows \/ HistoryCursor
      \/ HistoryFail \/ Requeue \/ Restart
  <2>1. CASE Chain \/ UNCHANGED vars
    BY <2>1 DEF Chain, Place, Receive, Flip, SomebodyElse, DelayOver, memoryVars, indexVars, vars
  <2>2. CASE Discover
    BY <2>2 DEF Discover, LiveEvent, IndexRow, memoryVars, indexVars
  <2>3. CASE Examine
    BY <2>3 DEF Examine, Wake, DrainTake, DrainRead, DrainJudge, DrainMined, DrainReceipt, DrainFail, indexVars
  <2>4. CASE Void
    BY <2>4 DEF Void, PassBegin, PassFail, PassTurn, VoidJudge, VoidMined, VoidReceipt, VoidFail, indexVars
  <2> QED BY <2>1, <2>2, <2>3, <2>4 DEF Next
<1> QED BY <1>1, <1>2, <1>3, <1>4, <1>5, <1>6

\* The range a pass of the scan takes.
LEMMA RangeRead ==
  ASSUME KeeperInv, ChainInv, HistoryRead, history' # history
  PROVE  /\ boot'.recovered = boot.recovered /\ boot'.indexed = boot.indexed /\ boot'.after = boot.after
         /\ history'.through \in Nat /\ boot.recovered <= history'.through
         /\ \A b \in 1..history'.through : Placed(b)
         /\ LET found == (boot.recovered + 1)..history'.through
            IN  /\ found \subseteq Bets
                /\ queue' = Enqueued(queue, {b \in found : ~Has(b)})
         /\ UNCHANGED <<cursor, drain, candidates, rows>>
<1>1. /\ boot.recovered < Latest
      /\ boot' = [boot EXCEPT !.head = IF boot.head = Unknown THEN Latest ELSE boot.head]
      /\ history' = [at |-> "rows", through |-> Lesser(boot.recovered + ChunkBlocks, Latest)]
      /\ queue' = Enqueued(queue, {b \in (boot.recovered + 1)..Lesser(boot.recovered + ChunkBlocks, Latest) : ~Has(b)})
      /\ UNCHANGED <<cursor, drain, candidates, rows>>
  BY LatestBound DEF HistoryRead, indexVars, KeeperInv, ScanInv
<1>2. history'.through = Lesser(boot.recovered + ChunkBlocks, Latest)
  BY <1>1
<1>3. /\ history'.through \in Nat /\ boot.recovered <= history'.through /\ history'.through <= Latest
      /\ boot.recovered \in 0..MaxBet /\ Latest \in 0..MaxBet
  BY <1>1, <1>2, LatestBound, BoundsAssumption DEF Lesser, KeeperInv, ScanInv
<1>4. /\ boot'.recovered = boot.recovered /\ boot'.indexed = boot.indexed /\ boot'.after = boot.after
  BY <1>1 DEF KeeperInv, ScanInv
<1>5. \A b \in 1..history'.through : Placed(b)
  <2>1. 1..history'.through \subseteq 1..Latest
    BY <1>3
  <2> QED BY <2>1, LatestIsPlaced
<1>6. (boot.recovered + 1)..history'.through \subseteq Bets
  BY <1>3, BoundsAssumption DEF Bets
<1> QED BY <1>1, <1>2, <1>3, <1>4, <1>5, <1>6

LEMMA PlacedStep ==
  ASSUME KeeperInv, RecoveryInv, [Next]_vars
  PROVE  PlacedInv'
<1>0. /\ ChainInv /\ PlacedInv
      /\ 1..cursor \subseteq Bets /\ 1..boot.recovered \subseteq Bets /\ 1..history.through \subseteq Bets
      /\ boot \in BootType
  BY BoundsAssumption DEF KeeperInv, ScanInv, RecoveryInv, LatchInv, Bets
<1>1. \A b \in Bets : Placed(b) => Placed(b)'
  BY <1>0, ChainMoves
<1>2. CASE /\ UNCHANGED cursor /\ boot'.recovered = boot.recovered
           /\ history'.at # "idle" => history.at # "idle" /\ history'.through = history.through
  BY <1>0, <1>1, <1>2 DEF PlacedInv
<1>3. CASE HistoryRead /\ history' # history
  <2>1. /\ boot'.recovered = boot.recovered /\ UNCHANGED cursor
        /\ boot.recovered <= history'.through /\ history'.through \in Nat
        /\ \A b \in 1..history'.through : Placed(b)
    BY <1>0, <1>3, RangeRead
  <2>2. \A b \in 1..history'.through : b \in Bets
    <3>1. Latest <= MaxBet
      BY LatestBound, BoundsAssumption
    <3>2. history'.through <= Latest
      BY <1>3, LatestBound, BoundsAssumption DEF HistoryRead, Lesser, KeeperInv, ScanInv
    <3> QED BY <2>1, <3>1, <3>2, LatestBound, BoundsAssumption DEF Bets
  <2> QED BY <1>0, <1>1, <2>1, <2>2 DEF PlacedInv
<1>4. CASE HistoryCursor
  <2> DEFINE m == [boot EXCEPT !.recovered = history.through]
  <2>1. m.recovered = history.through /\ boot' = Checked(m)
    BY <1>0, <1>4 DEF HistoryCursor, BootType
  <2> HIDE DEF m
  <2>2. boot'.recovered = history.through
    BY <2>1, MemoryMoves
  <2>3. cursor' \in {cursor, history.through} /\ history'.at = "idle" /\ history.at # "idle"
    BY <1>4 DEF HistoryCursor
  <2> QED BY <1>0, <1>1, <2>2, <2>3 DEF PlacedInv
<1>5. CASE Restart
  <2>1. PICK k \in {cursor, 0} : boot' = Paged(EmptyMemory(k)) \/ boot' = EmptyMemory(k)
    BY <1>5 DEF Restart
  <2>2. boot'.recovered = k
    <3>1. k \in 0..MaxBet
      BY BoundsAssumption DEF KeeperInv, ScanInv
    <3>2. EmptyMemory(k) \in BootType /\ EmptyMemory(k).recovered = k
      BY <3>1, EmptyMemoryHolds
    <3> QED BY <2>1, <3>2, PagedHolds
  <2>3. UNCHANGED cursor /\ history'.at = "idle"
    BY <1>5 DEF Restart, indexVars
  <2> QED BY <1>0, <1>1, <2>2, <2>3 DEF PlacedInv
<1> QED BY <1>2, <1>3, <1>4, <1>5, ScanMoves

LEMMA ReachStep ==
  ASSUME KeeperInv, RecoveryInv, [Next]_vars
  PROVE  ReachInv'
<1>0. /\ ChainInv /\ PlacedInv /\ ReachInv /\ boot \in BootType
      /\ boot.recovered \in 0..MaxBet /\ history.through \in 0..MaxBet /\ cursor \in 0..MaxBet
  BY DEF RecoveryInv, LatchInv, KeeperInv, ScanInv
<1>a. 1..cursor \subseteq Bets /\ 1..boot.recovered \subseteq Bets /\ 1..history.through \subseteq Bets
      /\ (boot.recovered + 1)..history.through \subseteq 1..history.through
  BY <1>0, BoundsAssumption DEF Bets
<1>b. ASSUME NEW b \in Bets, Kept, Placed(b), b \in Open'
      PROVE  b \in Open /\ (Has(b) => Has(b)')
             /\ (InPagesToCome(b) => rows[b] = "open" /\ rows'[b] = "open" /\ HasIndex /\ ~boot.indexed /\ b > boot.after)
  BY <1>0, <1>b, StaysAtWork
<1>c. Restart \/ Kept
  BY StepKeepsWork DEF KeeperInv
<1>1. ASSUME Kept, boot'.recovered = boot.recovered,
             ~HistoryRead \/ history' = history, ~HistoryCursor, ~Restart,
             history'.at # "idle" => history.at # "idle" /\ history'.through = history.through
      PROVE  ReachInv'
  <2>1. ASSUME history'.at # "idle", NEW b \in (boot.recovered + 1)..history.through, b \in Open'
        PROVE  Has(b)'
    <3>1. history.at # "idle" /\ b \in 1..history.through /\ b \in Bets
      BY <1>1, <1>a, <2>1
    <3>2. Placed(b)
      BY <1>0, <3>1 DEF PlacedInv
    <3>3. b \in Open
      BY <1>1, <1>b, <2>1, <3>1, <3>2
    <3>4. Has(b)
      BY <1>0, <2>1, <3>1, <3>3 DEF ReachInv
    <3> QED BY <1>1, <1>b, <2>1, <3>1, <3>2, <3>4
  <2>2. ASSUME NEW b \in 1..boot.recovered, b \in Open'
        PROVE  Has(b)' \/ InPagesToCome(b)'
    <3>1. b \in Bets /\ Placed(b)
      BY <1>0, <1>a DEF PlacedInv
    <3>2. b \in Open
      BY <1>1, <1>b, <2>2, <3>1
    <3>3. CASE Has(b)
      BY <1>1, <1>b, <2>2, <3>1, <3>3
    <3>4. CASE InPagesToCome(b)
      <4>1. rows[b] = "open" /\ rows'[b] = "open" /\ HasIndex /\ ~boot.indexed /\ b > boot.after
        BY <1>1, <1>b, <2>2, <3>1, <3>4
      <4>2. CASE Requeue
        <5>1. /\ \A a \in {a \in Page(boot.after) : ~Has(a)} : Has(a)'
          <6> DEFINE S == {a \in Page(boot.after) : ~Has(a)}
          <6>1. S \in SUBSET Bets
            BY DEF Page
          <6>2. queue' = Enqueued(queue, S) /\ UNCHANGED <<drain, candidates>>
            BY <4>2 DEF Requeue
          <6> HIDE DEF S
          <6>3. \A a \in S : Has(a)'
            BY <6>1, <6>2, MoreQueued DEF KeeperInv, WorkInv
          <6> QED BY <6>3 DEF S
        <5>2. CASE b \in Page(boot.after)
          BY <1>1, <1>b, <2>2, <3>1, <5>1, <5>2
        <5>3. CASE b \notin Page(boot.after)
          <6>1. Paged(boot).indexed = boot.indexed /\ b > Paged(boot).after /\ Paged(boot) \in BootType
            BY <1>0, <3>1, <4>1, <5>3, PagedHolds
          <6>2. boot' = Paged(boot) \/ boot' = Checked(Paged(boot))
            BY <4>2 DEF Requeue
          <6>3. boot'.indexed = boot.indexed /\ b > boot'.after
            BY <6>1, <6>2, CheckedHolds
          <6> QED BY <4>1, <6>3 DEF InPagesToCome
        <5> QED BY <5>2, <5>3
      <4>3. CASE ~Requeue
        <5>1. boot'.indexed = boot.indexed /\ boot'.after = boot.after
          <6>1. CASE HistoryRead
            <7> DEFINE m == [boot EXCEPT !.head = IF boot.head = Unknown THEN Latest ELSE boot.head]
            <7>1. m \in BootType /\ m.indexed = boot.indexed /\ m.after = boot.after
              BY <1>0, LatestBound, BoundsAssumption DEF BootType
            <7>2. boot' = m \/ boot' = Checked(m)
              BY <6>1 DEF HistoryRead
            <7> HIDE DEF m
            <7> QED BY <7>1, <7>2, CheckedHolds
          <6>2. CASE PassList
            BY <1>0, <6>2, CheckedHolds DEF PassList
          <6>3. CASE UNCHANGED boot
            BY <6>3
          <6>4. UNCHANGED boot \/ PassList \/ HistoryRead
            <7>1. CASE Chain \/ UNCHANGED vars
              BY <7>1 DEF Chain, Place, Receive, Flip, SomebodyElse, DelayOver, memoryVars, vars
            <7>2. CASE Discover
              BY <1>1, <4>3, <7>2 DEF Discover, LiveEvent, IndexRow, HistoryRows, HistoryFail, memoryVars
            <7>3. CASE Examine
              BY <7>3 DEF Examine, Wake, DrainTake, DrainRead, DrainJudge, DrainMined, DrainReceipt, DrainFail
            <7>4. CASE Void
              BY <7>4 DEF Void, PassBegin, PassFail, PassTurn, VoidJudge, VoidMined, VoidReceipt, VoidFail
            <7> QED BY <1>1, <7>1, <7>2, <7>3, <7>4 DEF Next
          <6> QED BY <6>1, <6>2, <6>3, <6>4
        <5> QED BY <4>1, <5>1 DEF InPagesToCome
      <4> QED BY <4>2, <4>3
    <3> QED BY <1>0, <3>2, <3>3, <3>4 DEF ReachInv
  <2> QED BY <1>1, <2>1, <2>2 DEF ReachInv
<1>2. ASSUME Kept, HistoryRead, history' # history
      PROVE  ReachInv'
  <2> DEFINE found == (boot.recovered + 1)..history'.through
  <2>1. /\ boot'.recovered = boot.recovered /\ boot'.indexed = boot.indexed /\ boot'.after = boot.after
        /\ \A b \in 1..history'.through : Placed(b)
        /\ found \subseteq Bets /\ queue' = Enqueued(queue, {b \in found : ~Has(b)})
        /\ UNCHANGED <<drain, candidates>> /\ history'.through \in Nat
    BY <1>0, <1>2, RangeRead
  <2>2. \A b \in {b \in found : ~Has(b)} : Has(b)'
    <3> DEFINE S == {b \in found : ~Has(b)}
    <3>1. S \in SUBSET Bets
      BY <2>1
    <3>2. queue' = Enqueued(queue, S)
      BY <2>1
    <3> HIDE DEF S
    <3>3. \A b \in S : Has(b)'
      BY <2>1, <3>1, <3>2, MoreQueued DEF KeeperInv, WorkInv
    <3> QED BY <3>3 DEF S
  <2>3. ASSUME NEW b \in found, b \in Open' PROVE Has(b)'
    <3>1. b \in Bets /\ Placed(b)
      <4>1. b \in 1..history'.through
        BY <1>0, <2>1, <2>3
      <4> QED BY <2>1, <2>3, <4>1
    <3> QED BY <1>2, <1>b, <2>2, <2>3, <3>1
  <2>4. ASSUME NEW b \in 1..boot.recovered, b \in Open' PROVE Has(b)' \/ InPagesToCome(b)'
    <3>1. b \in Bets /\ Placed(b)
      BY <1>0, <1>a DEF PlacedInv
    <3>2. b \in Open /\ (Has(b) => Has(b)')
          /\ (InPagesToCome(b) => rows'[b] = "open" /\ HasIndex /\ ~boot.indexed /\ b > boot.after)
      BY <1>2, <1>b, <2>4, <3>1
    <3> QED BY <1>0, <2>1, <3>2 DEF ReachInv, InPagesToCome
  <2> QED BY <2>1, <2>3, <2>4 DEF ReachInv
<1>3. ASSUME Kept, HistoryCursor
      PROVE  ReachInv'
  <2> DEFINE m == [boot EXCEPT !.recovered = history.through]
  <2>1. /\ m \in BootType /\ m.recovered = history.through /\ m.indexed = boot.indexed /\ m.after = boot.after
    BY <1>0 DEF BootType
  <2>2. boot' = Checked(m)
    BY <1>3 DEF HistoryCursor
  <2>3. history'.at = "idle" /\ history.at # "idle"
    BY <1>3 DEF HistoryCursor
  <2> HIDE DEF m
  <2>4. boot'.recovered = history.through /\ boot'.indexed = boot.indexed /\ boot'.after = boot.after
    BY <2>1, <2>2, CheckedHolds
  <2>5. ASSUME NEW b \in 1..history.through, b \in Open' PROVE Has(b)' \/ InPagesToCome(b)'
    <3>1. b \in Bets /\ Placed(b)
      BY <1>0, <1>a, <2>3 DEF PlacedInv
    <3>2. b \in Open /\ (Has(b) => Has(b)')
          /\ (InPagesToCome(b) => rows'[b] = "open" /\ HasIndex /\ ~boot.indexed /\ b > boot.after)
      BY <1>3, <1>b, <2>5, <3>1
    <3>3. b \in 1..boot.recovered \/ b \in (boot.recovered + 1)..history.through
      BY <1>0
    <3> QED BY <1>0, <2>3, <2>4, <3>2, <3>3 DEF ReachInv, InPagesToCome
  <2> QED BY <2>3, <2>4, <2>5 DEF ReachInv
<1>4. CASE Restart
  <2>0. history'.at = "idle" /\ UNCHANGED <<state, rows>>
    BY <1>4 DEF Restart, chainVars, indexVars
  <2>1. ASSUME HasIndex, boot' = Paged(EmptyMemory(cursor)), queue' = Enqueued(EmptyQueue, Page(NoBet))
        PROVE  ReachInv'
    <3>1. /\ EmptyMemory(cursor) \in BootType /\ EmptyMemory(cursor).recovered = cursor
          /\ EmptyMemory(cursor).indexed = FALSE /\ EmptyMemory(cursor).after = 0
      BY <1>0, EmptyMemoryHolds
    <3>2. boot'.recovered = cursor
      BY <2>1, <3>1, PagedHolds
    <3>3. ASSUME NEW b \in 1..cursor, b \in Open' PROVE Has(b)' \/ InPagesToCome(b)'
      <4>1. b \in Bets /\ b > 0 /\ rows[b] \in {"absent", "open", "closed"}
        BY <1>0, <1>a DEF KeeperInv, ScanInv
      <4>2. rows[b] # "absent" /\ state[b] # "over"
        BY <2>0, <3>3 DEF KeeperInv, ScanInv, HasRow, Open
      <4>3. rows[b] = "open"
        BY <1>0, <4>1, <4>2 DEF ChainInv
      <4>4. b \in Page(0) \/ (boot'.indexed = FALSE /\ b > boot'.after)
        BY <2>1, <3>1, <4>1, <4>3, PagedHolds
      <4>5. CASE b \in Page(0)
        <5>1. Page(NoBet) \in SUBSET Bets
          BY DEF Page
        <5>2. b \in Waiting(queue')
          BY <2>1, <4>5, <5>1, EmptyQueueHolds, EnqueuedHolds DEF NoBet
        <5> QED BY <5>2 DEF Has
      <4>6. CASE boot'.indexed = FALSE /\ b > boot'.after
        BY <2>0, <2>1, <4>3, <4>6 DEF InPagesToCome
      <4> QED BY <4>4, <4>5, <4>6
    <3> QED BY <2>0, <3>2, <3>3 DEF ReachInv
  <2>2. ASSUME boot' = Paged(EmptyMemory(0)) \/ boot' = EmptyMemory(0)
        PROVE  ReachInv'
    <3>0. 0 \in 0..MaxBet
      BY BoundsAssumption
    <3>1. EmptyMemory(0) \in BootType /\ EmptyMemory(0).recovered = 0
      BY <3>0, EmptyMemoryHolds
    <3>2. boot'.recovered = 0
      BY <2>2, <3>1, PagedHolds
    <3> QED BY <2>0, <3>2 DEF ReachInv
  <2> QED BY <1>4, <2>1, <2>2 DEF Restart
<1> QED BY <1>c, <1>1, <1>2, <1>3, <1>4, ScanMoves

LEMMA RecoveryInit == Init => RecoveryInv
<1> SUFFICES ASSUME Init PROVE RecoveryInv
  OBVIOUS
<1>1. boot = EmptyMemory(0) /\ cursor = 0 /\ history.at = "idle" /\ pass.at = "idle"
  BY DEF Init, NoPass
<1>2. boot \in BootType /\ boot.recovered = 0 /\ ~boot.complete
  <2>1. 0 \in 0..MaxBet
    BY BoundsAssumption
  <2> QED BY <1>1, <2>1, EmptyMemoryHolds
<1>3. state \in [Bets -> States] /\ (\A b \in Bets : ~Placed(b) /\ rows[b] = "absent")
  BY DEF Init, States, Placed
<1>4. ChainInv
  BY <1>3 DEF ChainInv
<1> QED BY <1>1, <1>2, <1>4 DEF RecoveryInv, LatchInv, PlacedInv, ReachInv, Voiding

\* Behind the place of the recovery every open bet is at work or in pages yet to come, and the
\* latch says no more than the scan and the database have shown (checkStartupRecovery).
THEOREM RecoveryIsComplete == Spec => [](KeeperInv /\ RecoveryInv)
<1>1. Init => RecoveryInv
  BY RecoveryInit
<1>2. KeeperInv /\ RecoveryInv /\ [Next]_vars => RecoveryInv'
  BY ChainStep, LatchStep, PlacedStep, ReachStep DEF RecoveryInv
<1> QED BY <1>1, <1>2, KeeperIsTyped, PTL DEF Spec

LEMMA AllAtWork ==
  ASSUME KeeperInv, RecoveryInv, boot.complete, NEW b \in EarlierBets \cap Open
  PROVE  Has(b)
<1>1. /\ boot.head \in Int /\ boot.recovered \in Nat /\ boot.recovered >= boot.head
      /\ HasIndex => boot.indexed
  BY BoundsAssumption DEF RecoveryInv, LatchInv, BootType, Unknown
<1>2. b \in 1..boot.recovered
  BY <1>1, BoundsAssumption DEF EarlierBets, Bets
<1> QED BY <1>1, <1>2 DEF RecoveryInv, ReachInv, InPagesToCome

\* Once the recovery of a start is complete, every open bet placed before it is queued or
\* examined (checkStartupRecovery, scanUnresolvedHistory, requeueIndexedBets).
THEOREM KeeperRecoversBets == Spec => []RecoveredBetsAreAtWork
<1>1. KeeperInv /\ RecoveryInv => RecoveredBetsAreAtWork
  BY AllAtWork DEF RecoveredBetsAreAtWork
<1> QED BY <1>1, RecoveryIsComplete, PTL

\* Only the turn of the pass begins the attempt to void a bet.
LEMMA AttemptBegins ==
  ASSUME KeeperInv, [Next]_vars, pass.at # "attempt", pass'.at = "attempt"
  PROVE  pass.at = "waiting" /\ ~HasUnexaminedBefore(Current)
<1>0. pass \in PassType
  BY DEF KeeperInv, WriterInv, PlaceOK
<1>1. CASE pass' = pass \/ pass' = Requested(pass)
  BY <1>0, <1>1, PassMoves
<1>2. CASE PassBegin
  BY <1>2, PassWaits DEF PassBegin, PassList, Voiding
<1>3. ASSUME NEW p \in PassType, pass' = LoopEnded(p) PROVE FALSE
  BY <1>3, PassMoves
<1>a. CASE PassFail
  BY <1>0, <1>3, <1>a DEF PassFail
<1>4. CASE PassList
  <2> DEFINE p == WokenBy(boot, pass)
  <2>1. p \in PassType
    BY <1>0, PassMoves DEF WokenBy
  <2>2. pass' # LoopEnded(p)
    <3> HIDE DEF p
    <3> QED BY <1>3, <2>1
  <2>3. pass'.at = "waiting"
    BY <1>4, <2>1, <2>2 DEF PassList, PassType
  <2> QED BY <2>3
<1>5. ASSUME NextCandidate PROVE FALSE
  <2>1. pass' # LoopEnded(pass)
    BY <1>0, <1>3
  <2>2. pass'.at = "waiting"
    BY <1>0, <1>5, <2>1 DEF NextCandidate, PassType
  <2> QED BY <2>2
<1>6. CASE VoidJudge \/ VoidMined \/ VoidReceipt \/ VoidFail
  BY <1>0, <1>5, <1>6 DEF VoidJudge, VoidMined, VoidReceipt, VoidFail, Reconcile, PassType
<1>7. CASE PassTurn
  BY <1>0, <1>3, <1>5, <1>7 DEF PassTurn
<1>8. CASE Restart
  BY <1>8 DEF Restart, NoPass
<1>9. CASE Chain \/ Discover \/ Examine \/ UNCHANGED vars
  <2>1. pass' = pass \/ pass' = Requested(pass)
    BY <1>9 DEF Chain, Place, Receive, Flip, SomebodyElse, DelayOver, Discover, LiveEvent, IndexRow, HistoryRead,
       HistoryRows, HistoryCursor, HistoryFail, Requeue, Examine, Wake, DrainTake, DrainRead, DrainJudge,
       DrainMined, DrainReceipt, DrainFail, WokenBy, memoryVars, vars
  <2> QED BY <1>1, <2>1
<1> QED BY <1>a, <1>2, <1>4, <1>6, <1>7, <1>8, <1>9 DEF Next, Void

\* The keeper turns to voiding a bet only when every earlier one that is still open waits
\* after an attempt or is under one (checkStartupRecovery with hasUnexaminedBefore).
THEOREM KeeperTriesEarlierBets == Spec => EarlierBetsWereTried
<1>1. KeeperInv /\ RecoveryInv /\ [Next]_vars =>
        [\A b \in Bets : Attempts(b) =>
           \A a \in EarlierBets \cap Open : a < b =>
              \/ a \in Waiting(queue) \cap queue.tried
              \/ InFlight(a) /\ drain.tried]_vars
  <2> SUFFICES ASSUME KeeperInv, RecoveryInv, [Next]_vars, NEW b \in Bets, Attempts(b),
                      NEW a \in EarlierBets \cap Open, a < b
               PROVE  a \in Waiting(queue) \cap queue.tried \/ (InFlight(a) /\ drain.tried)
    OBVIOUS
  <2>1. pass.at = "waiting" /\ ~HasUnexaminedBefore(b)
    BY AttemptBegins DEF Attempts
  <2>2. Has(a)
    BY <2>1, AllAtWork DEF RecoveryInv, LatchInv
  <2>3. a \in 1..(b - 1)
    BY BoundsAssumption DEF EarlierBets, Bets
  <2> QED BY <2>1, <2>2, <2>3 DEF Has, HasUnexaminedBefore
<1> QED BY <1>1, RecoveryIsComplete, PTL DEF Spec, EarlierBetsWereTried

================================================================================
