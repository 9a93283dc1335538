------------------------------ MODULE SessionProofs ------------------------------
(***************************************************************************)
(* Proofs about SessionStore, for any sessions and any number of requests: *)
(* what the run lock and the order of the steps of a deletion promise, and *)
(* when the index follows the sessions.                                    *)
(*                                                                         *)
(* The argument: a request that needs the run lock has it as long as it    *)
(* has steps left (Kept), only some kinds run the agent and only a         *)
(* deletion takes things away (Fits); under the lock a request has found   *)
(* its session, or will look for it before it needs it - except that a     *)
(* decision runs the agent without meta.json (Looks) - and what it has     *)
(* found out, that nothing is unfinished or that the thread is gone, stays *)
(* true until it ends (Found).  For the index: as long as it is calm, a    *)
(* write once begun goes on in its order (Ordered), alone, and the index   *)
(* is behind by what that one request has begun (Half); since nobody else  *)
(* writes, what it read of the index is still what the index says.         *)
(***************************************************************************)
EXTENDS SessionStore, TLAPS

Runners == DOMAIN AfterRun

\* The steps a request may still take, by its kind.
Fits(kind, todo) ==
    \A i \in 1..Len(todo) :
        /\ todo[i] = "run" => kind \in Runners
        /\ todo[i] \in {"forget", "remove", "scan", "unlink"} => kind = "delete"
        /\ todo[i] \in {"load", "openMeta", "fillMeta"} => kind \notin {"delete", "refresh"}

\* The steps that need the session, and those that see to it that it is there.
Needy(kind) == {"openMeta", "fillMeta"} \cup (IF kind \in {"decide", "resume"} THEN {} ELSE {"run"})
Look        == {"get", "load"}

\* Whoever has to need the session looks for it before.
Looks(kind, todo) ==
    \A i \in 1..Len(todo) :
        todo[i] \in Needy(kind) => \E j \in 1..Len(todo) : j < i /\ todo[j] \in Look

\* What is left of a deletion when its check, and then its load, are over.
Checked == Tail(DeleteSteps)
Loaded  == Tail(Checked)

\* Whoever needs the run lock of a session holds it until its last step.
Kept(r) ==
    op[r].todo # <<>> =>
        /\ op[r].at \in Sessions /\ op[r].kind \in Kinds
        /\ op[r].kind \in Locked => runLock[op[r].at] = r
        /\ Fits(op[r].kind, op[r].todo)

\* What a request under the run lock has found out stays true.
Found(r) ==
    op[r].todo # <<>> =>
        /\ op[r].kind \in Locked \ {"delete"} =>
              meta[op[r].at] # "none" \/ Looks(op[r].kind, op[r].todo)
        /\ op[r].kind = "delete" /\ op[r].todo # DeleteSteps => ~unfinished[op[r].at]
        /\ op[r].kind = "delete" /\ op[r].todo \notin {DeleteSteps, Checked, Loaded} =>
              ~checkpoint[op[r].at]

IInv ==
    /\ \A r \in Requests : Kept(r) /\ Found(r)
    /\ UnfinishedKeepsThread

-----------------------------------------------------------------------------
(* The steps of the handlers                                                *)

LEMMA TailFits ==
    ASSUME NEW kind, NEW todo \in Seq(Steps), todo # <<>>, Fits(kind, todo)
    PROVE  Tail(todo) \in Seq(Steps) /\ Fits(kind, Tail(todo))
  BY DEF Fits

LEMMA TailShorter ==
    ASSUME NEW todo \in Seq(Steps), todo # <<>>
    PROVE  Tail(todo) # todo
<1>1. Len(todo) \in Nat /\ Len(todo) # 0 /\ Len(Tail(todo)) = Len(todo) - 1
  OBVIOUS
<1>2. \A n \in Nat : n - 1 # n
  OBVIOUS
<1> QED
  BY <1>1, <1>2, Zenon

LEMMA ConcatFits ==
    ASSUME NEW kind, NEW s \in Seq(Steps), NEW t \in Seq(Steps), Fits(kind, s), Fits(kind, t)
    PROVE  s \o t \in Seq(Steps) /\ Fits(kind, s \o t)
<1>1. s \o t \in Seq(Steps) /\ Len(s \o t) = Len(s) + Len(t)
  OBVIOUS
<1>2. ASSUME NEW i \in 1..Len(s \o t)
      PROVE  \/ i \in 1..Len(s) /\ (s \o t)[i] = s[i]
             \/ i - Len(s) \in 1..Len(t) /\ (s \o t)[i] = t[i - Len(s)]
  BY <1>1
<1> QED
  BY <1>1, <1>2 DEF Fits

LEMMA SavesFit ==
    /\ SaveSteps \in Seq(Steps) /\ SaveSteps # <<>> /\ Appending \in Seq(Steps) /\ Appending # <<>>
    /\ \A kind : kind \notin {"delete", "refresh"} => Fits(kind, SaveSteps) /\ Fits(kind, Appending)
<1>1. SaveSteps \in Seq(Steps) /\ SaveSteps # <<>> /\ \A k : k \notin {"delete", "refresh"} => Fits(k, SaveSteps)
  BY DEF SaveSteps, Steps, Fits
<1>2. /\ <<"load", "append">> \in Seq(Steps)
      /\ \A k : k \notin {"delete", "refresh"} => Fits(k, <<"load", "append">>)
  BY DEF Steps, Fits
<1>3. ASSUME NEW k, k \notin {"delete", "refresh"} PROVE Fits(k, Appending)
  BY <1>1, <1>2, <1>3, ConcatFits DEF Appending
<1>4. Appending \in Seq(Steps) /\ Appending # <<>>
  BY <1>1, <1>2 DEF Appending
<1> QED
  BY <1>1, <1>3, <1>4

\* What a request has to do is typed and fits its kind.
LEMMA ScriptFits ==
    ASSUME NEW kind \in Kinds
    PROVE  Script[kind] \in Seq(Steps) /\ Script[kind] # <<>> /\ Fits(kind, Script[kind])
<1>1. /\ <<"check", "get">> \in Seq(Steps) /\ <<"get">> \in Seq(Steps)
      /\ <<"append">> \in Seq(Steps) /\ <<"run">> \in Seq(Steps)
      /\ <<"find", "append", "get", "append">> \in Seq(Steps)
      /\ \A k : /\ Fits(k, <<"check", "get">>) /\ Fits(k, <<"get">>) /\ Fits(k, <<"append">>)
                /\ Fits(k, <<"find", "append", "get", "append">>)
                /\ k \in Runners => Fits(k, <<"run">>)
  BY DEF Steps, Fits
<1>2. DeleteSteps \in Seq(Steps) /\ DeleteSteps # <<>> /\ Fits("delete", DeleteSteps)
  BY DEF DeleteSteps, Steps, Fits
<1>3. ArchiveSteps \in Seq(Steps) /\ Fits("archive", ArchiveSteps)
  BY <1>1, SavesFit, ConcatFits DEF ArchiveSteps
<1>4. RestoreSteps \in Seq(Steps) /\ Fits("restore", RestoreSteps)
  BY <1>1, SavesFit, ConcatFits DEF RestoreSteps
<1>5. TurnSteps \in Seq(Steps) /\ Fits("turn", TurnSteps)
  <2>1. "turn" \in Runners
    BY DEF Runners, AfterRun
  <2> QED
    BY <1>1, <2>1, SavesFit, ConcatFits DEF TurnSteps
<1>6. NoticeSteps \in Seq(Steps) /\ Fits("notice", NoticeSteps)
  BY <1>1, SavesFit, ConcatFits DEF NoticeSteps
<1>7. ReceiptSteps \in Seq(Steps) /\ Fits("receipt", ReceiptSteps)
  BY <1>1, SavesFit, ConcatFits DEF ReceiptSteps
<1>8. /\ ArchiveSteps # <<>> /\ RestoreSteps # <<>> /\ TurnSteps # <<>>
      /\ NoticeSteps # <<>> /\ ReceiptSteps # <<>>
  BY DEF ArchiveSteps, RestoreSteps, TurnSteps, NoticeSteps, ReceiptSteps, Appending, SaveSteps
<1>9. /\ <<"find", "append", "run">> \in Seq(Steps) /\ <<"find", "append", "run">> # <<>>
      /\ Fits("decide", <<"find", "append", "run">>) /\ Fits("resume", <<"run">>)
      /\ <<"get", "append">> \in Seq(Steps) /\ <<"get", "append">> # <<>>
      /\ Fits("refresh", <<"get", "append">>)
  BY DEF Steps, Fits, Runners, AfterRun
<1>10. <<"run">> # <<>> /\ Fits("create", SaveSteps)
  BY SavesFit
<1>11. /\ Script["create"] = SaveSteps /\ Script["archive"] = ArchiveSteps
       /\ Script["restore"] = RestoreSteps /\ Script["turn"] = TurnSteps
       /\ Script["decide"] = <<"find", "append", "run">> /\ Script["resume"] = <<"run">>
       /\ Script["notice"] = NoticeSteps /\ Script["refresh"] = <<"get", "append">>
       /\ Script["receipt"] = ReceiptSteps /\ Script["delete"] = DeleteSteps
  BY DEF Script, Handlers
<1>12. kind \in {"create", "archive", "restore", "turn", "decide", "resume", "notice", "refresh",
                "receipt", "delete"}
  BY DEF Kinds, Script, Handlers
<1> QED
  BY <1>1, <1>2, <1>3, <1>4, <1>5, <1>6, <1>7, <1>8, <1>9, <1>10, <1>11, <1>12, SavesFit, Zenon

LEMMA ConcatLength ==
    ASSUME NEW s \in Seq(Steps), NEW t \in Seq(Steps)
    PROVE  /\ s \o t \in Seq(Steps) /\ Len(s \o t) = Len(s) + Len(t)
           /\ \A i \in 1..Len(s) : (s \o t)[i] = s[i]
           /\ \A i \in 1..Len(t) : (s \o t)[Len(s) + i] = t[i]
  OBVIOUS

\* A list that looks before it comes to what is needy.
LEMMA LooksAt ==
    ASSUME NEW kind, NEW todo \in Seq(Steps), NEW k \in 1..Len(todo), todo[k] \in Look,
           \A i \in 1..k : todo[i] \notin Needy(kind)
    PROVE  Looks(kind, todo)
  BY DEF Looks

LEMMA LooksTail ==
    ASSUME NEW kind, NEW todo \in Seq(Steps), todo # <<>>, Looks(kind, todo)
    PROVE  /\ Head(todo) \notin Needy(kind)
           /\ Head(todo) \notin Look => Looks(kind, Tail(todo))
<1>1. /\ Len(todo) \in Nat /\ Len(todo) >= 1 /\ Len(Tail(todo)) = Len(todo) - 1
      /\ Head(todo) = todo[1]
      /\ \A i \in 1..Len(Tail(todo)) : Tail(todo)[i] = todo[i + 1]
  OBVIOUS
<1>2. Head(todo) \notin Needy(kind)
  <2>1. 1 \in 1..Len(todo) /\ ~\E j \in 1..Len(todo) : j < 1
    BY <1>1
  <2> QED
    BY <1>1, <2>1 DEF Looks
<1>3. ASSUME Head(todo) \notin Look, NEW i \in 1..Len(Tail(todo)),
             Tail(todo)[i] \in Needy(kind)
      PROVE  \E j \in 1..Len(Tail(todo)) : j < i /\ Tail(todo)[j] \in Look
  <2>1. i + 1 \in 1..Len(todo) /\ todo[i + 1] \in Needy(kind)
    BY <1>1, <1>3
  <2>2. PICK j \in 1..Len(todo) : j < i + 1 /\ todo[j] \in Look
    BY <2>1 DEF Looks
  <2>3. j # 1
    BY <1>1, <1>3, <2>2
  <2>4. j - 1 \in 1..Len(Tail(todo)) /\ j - 1 < i /\ (j - 1) + 1 = j
    BY <1>1, <2>2, <2>3
  <2>5. Tail(todo)[j - 1] = todo[j]
    BY <1>1, <2>4
  <2> QED
    BY <2>2, <2>4, <2>5
<1> QED
  BY <1>2, <1>3 DEF Looks

\* Who takes a step for nothing instead of one that is neither loses nothing.
LEMMA LooksSpill ==
    ASSUME NEW kind, NEW todo \in Seq(Steps), todo # <<>>, Looks(kind, todo),
           Head(todo) \notin Look, "spill" \notin Needy(kind)
    PROVE  Looks(kind, <<"spill">> \o Tail(todo))
<1> DEFINE new == <<"spill">> \o Tail(todo)
<1>1. /\ Len(todo) \in Nat /\ Len(todo) >= 1 /\ Len(new) = Len(todo)
      /\ Head(todo) = todo[1] /\ new[1] = "spill"
      /\ \A i \in 1..Len(todo) : i # 1 => new[i] = todo[i]
  OBVIOUS
<1> HIDE DEF new
<1>2. ASSUME NEW i \in 1..Len(new), new[i] \in Needy(kind)
      PROVE  \E j \in 1..Len(new) : j < i /\ new[j] \in Look
  <2>1. i # 1
    BY <1>1, <1>2
  <2>2. i \in 1..Len(todo) /\ todo[i] \in Needy(kind)
    BY <1>1, <1>2, <2>1
  <2>3. PICK j \in 1..Len(todo) : j < i /\ todo[j] \in Look
    BY <2>2 DEF Looks
  <2>4. j # 1
    BY <1>1, <2>3
  <2> QED
    BY <1>1, <2>3, <2>4
<1> QED
  BY <1>2 DEF Looks, new

\* Every handler under the lock but the deletion looks for its session.
LEMMA ScriptLooks ==
    ASSUME NEW kind \in Locked \ {"delete"}
    PROVE  Looks(kind, Script[kind])
<1>1. CASE kind \in {"decide", "resume"}
  <2>1. Looks("resume", <<"run">>)
    BY DEF Looks, Needy
  <2>2. Looks("decide", <<"find", "append", "run">>)
    BY DEF Looks, Needy
  <2> QED
    BY <1>1, <2>1, <2>2 DEF Script, Handlers
<1>2. /\ {"get", "load"} \subseteq Look
      /\ \A step \in {"get", "load", "check", "find", "append"} : step \notin Needy(kind)
  BY DEF Look, Needy
<1>3. CASE kind = "turn"
  <2>1. TurnSteps \in Seq(Steps) /\ 1 \in 1..Len(TurnSteps) /\ TurnSteps[1] = "load"
    <3>1. <<"run">> \in Seq(Steps)
      BY DEF Steps
    <3>2. Len(Appending) = 7 /\ Appending[1] = "load"
      BY DEF Appending, SaveSteps
    <3> QED
      BY <3>1, <3>2, SavesFit, ConcatLength DEF TurnSteps
  <2>2. Looks(kind, TurnSteps)
    BY <1>2, <2>1, LooksAt
  <2> QED
    BY <1>3, <2>2 DEF Script, Handlers
<1>4. CASE kind = "archive"
  <2>1. /\ ArchiveSteps \in Seq(Steps) /\ 2 \in 1..Len(ArchiveSteps)
        /\ ArchiveSteps[1] = "check" /\ ArchiveSteps[2] = "get"
    <3>1. <<"check", "get">> \in Seq(Steps) /\ Len(<<"check", "get">>) = 2
      BY DEF Steps
    <3>2. Len(SaveSteps) \in Nat
      BY SavesFit
    <3> QED
      BY <3>1, <3>2, SavesFit, ConcatLength DEF ArchiveSteps
  <2>2. Looks(kind, ArchiveSteps)
    BY <1>2, <2>1, LooksAt
  <2> QED
    BY <1>4, <2>2 DEF Script, Handlers
<1>5. CASE kind = "notice"
  <2>1. /\ NoticeSteps \in Seq(Steps) /\ 3 \in 1..Len(NoticeSteps)
        /\ NoticeSteps[1] = "find" /\ NoticeSteps[2] = "append" /\ NoticeSteps[3] = "get"
    <3>1. /\ <<"find", "append", "get", "append">> \in Seq(Steps)
          /\ Len(<<"find", "append", "get", "append">>) = 4
      BY DEF Steps
    <3>2. Len(SaveSteps) \in Nat
      BY SavesFit
    <3> QED
      BY <3>1, <3>2, SavesFit, ConcatLength DEF NoticeSteps
  <2>2. Looks(kind, NoticeSteps)
    BY <1>2, <1>5, <2>1, LooksAt
  <2> QED
    BY <1>5, <2>2 DEF Script, Handlers
<1> QED
  BY <1>1, <1>3, <1>4, <1>5 DEF Locked

\* What follows a run fits its kind, and looks before it saves.
LEMMA AfterRunFits ==
    ASSUME NEW kind \in Runners, NEW rest \in AfterRun[kind]
    PROVE  rest \in Seq(Steps) /\ Fits(kind, rest) /\ Looks(kind, rest)
<1>1. kind \in {"turn", "decide", "resume"} /\ kind \notin {"delete", "refresh"}
  BY DEF Runners, AfterRun
<1>2. Record \in Seq(Steps) /\ Len(Record) = 1 /\ Record[1] = "append" /\ Fits(kind, Record)
  BY DEF Record, Steps, Fits
<1>3. Looks(kind, Record) /\ Looks(kind, <<>>) /\ <<>> \in Seq(Steps) /\ Fits(kind, <<>>)
  BY DEF Record, Looks, Needy, Fits
<1>4. /\ Appending \in Seq(Steps) /\ Len(Appending) = 7 /\ Appending[1] = "load"
      /\ Fits(kind, Appending)
  BY <1>1, SavesFit DEF Appending, SaveSteps
<1>5. /\ {"get", "load"} \subseteq Look
      /\ \A step \in {"get", "load", "append"} : step \notin Needy(kind)
  BY DEF Look, Needy
<1>6. ASSUME NEW x \in Answers
      PROVE  /\ x \in Seq(Steps) /\ Fits(kind, x) /\ Looks(kind, x)
             /\ x \in {<<>>, Record} \/ (1 \in 1..Len(x) /\ x[1] = "load")
  <2>1. CASE x \in {<<>>, Record}
    BY <1>2, <1>3, <2>1
  <2>2. CASE x \in {Appending, Appending \o Record}
    <3>1. x \in Seq(Steps) /\ Fits(kind, x)
      <4>1. Appending \o Record \in Seq(Steps) /\ Fits(kind, Appending \o Record)
        BY <1>2, <1>4, ConcatFits
      <4> QED
        BY <1>4, <2>2, <4>1
    <3>2. 1 \in 1..Len(x) /\ x[1] = "load"
      BY <1>2, <1>4, <2>2, ConcatLength
    <3> QED
      BY <1>5, <3>1, <3>2, LooksAt
  <2> QED
    BY <2>1, <2>2 DEF Answers
<1>7. ASSUME NEW x \in Answers
      PROVE  Record \o x \in Seq(Steps) /\ Fits(kind, Record \o x) /\ Looks(kind, Record \o x)
  <2> DEFINE y == Record \o x
  <2>1. y \in Seq(Steps) /\ Fits(kind, y)
    BY <1>2, <1>6, ConcatFits
  <2>2. /\ Len(y) = 1 + Len(x) /\ Len(x) \in Nat
        /\ \A i \in 1..Len(x) : y[1 + i] = x[i]
        /\ y[1] = "append"
    BY <1>2, <1>6, ConcatLength
  <2>3. CASE x \in {<<>>, Record}
    <3>1. \A i \in 1..Len(y) : y[i] = "append"
      BY <1>2, <2>2, <2>3
    <3> QED
      BY <1>5, <2>1, <3>1 DEF Looks
  <2>4. CASE 1 \in 1..Len(x) /\ x[1] = "load"
    <3>1. 2 \in 1..Len(y) /\ y[2] = "load" /\ 1..2 = {1, 2}
      BY <2>2, <2>4
    <3> HIDE DEF y
    <3>2. Looks(kind, y)
      BY <1>5, <2>1, <2>2, <3>1, LooksAt
    <3> QED
      BY <2>1, <3>2 DEF y
  <2> QED
    BY <1>6, <2>3, <2>4
<1>8. CASE kind = "resume"
  <2>1. PICK x \in Answers : rest = Record \o x
    BY <1>8 DEF AfterRun
  <2> QED
    BY <1>7, <2>1
<1>9. CASE kind # "resume"
  <2>1. rest \in Answers
    BY <1>1, <1>9 DEF AfterRun
  <2> QED
    BY <1>6, <2>1
<1> QED
  BY <1>8, <1>9

LEMMA AfterRunHead ==
    ASSUME NEW kind \in Runners, NEW rest \in AfterRun[kind]
    PROVE  rest = <<>> \/ Head(rest) # "run"
<1>1. kind \in {"turn", "decide", "resume"}
  BY DEF Runners, AfterRun
<1>2. ASSUME NEW x \in Answers PROVE x \in Seq(Steps) /\ (x = <<>> \/ Head(x) # "run")
  <2>1. x \in Seq(Steps)
    BY <1>2, AfterRunFits DEF Runners, AfterRun
  <2>2. Len(Appending) = 7 /\ Appending[1] = "load" /\ Appending \in Seq(Steps)
    BY SavesFit DEF Appending, SaveSteps
  <2>3. Record \in Seq(Steps) /\ Len(Record) = 1 /\ Record[1] = "append"
    BY DEF Record, Steps
  <2>4. CASE x \in {<<>>, Record, Appending}
    <3>1. Head(Record) = "append"
      BY DEF Record
    <3>2. Head(Appending) = "load"
      BY <2>2
    <3> QED
      BY <2>1, <2>4, <3>1, <3>2, Zenon
  <2>5. CASE x = Appending \o Record
    <3>1. Len(x) >= 1 /\ x[1] = "load"
      BY <2>2, <2>3, <2>5, ConcatLength
    <3> QED
      BY <2>1, <3>1
  <2> QED
    BY <2>1, <2>4, <2>5 DEF Answers
<1>3. CASE kind = "resume"
  <2>1. PICK x \in Answers : rest = Record \o x
    BY <1>3 DEF AfterRun
  <2> QED
    BY <1>2, <2>1 DEF Record
<1>4. CASE kind # "resume"
  BY <1>1, <1>2, <1>4 DEF AfterRun
<1> QED
  BY <1>3, <1>4

\* Where a deletion begins, and where it stands after its first steps.
LEMMA Beginnings ==
    Head(DeleteSteps) = "check" /\ Head(Checked) = "get" /\ Head(Loaded) = "forget"
  BY DEF DeleteSteps, Checked, Loaded

-----------------------------------------------------------------------------
(* How a request goes on                                                    *)

\* A request ends or takes the next step of its list.
GoesOn(r) ==
    \E new \in Ops :
        /\ Becomes(r, new)
        /\ \/ new.todo = <<>>
           \/ new.kind = op[r].kind /\ new.at = op[r].at /\ new.todo = Tail(op[r].todo)

\* A request takes up other steps.
TakesUp(r, more) ==
    \E new \in Ops :
        /\ Becomes(r, new)
        /\ new.kind = op[r].kind /\ new.at = op[r].at /\ new.todo \in more

LEMMA NoOpTyped == NoOp \in Ops /\ NoOp.todo = <<>>
  BY DEF NoOp, Ops, Listing, NoListing, Status

\* Becomes changes one request, and takes a lock away from no other.
LEMMA BecomesOne ==
    ASSUME OpsOK, NEW r \in Requests, NEW new \in Ops, Becomes(r, new)
    PROVE  /\ OpsOK'
           /\ op'[r] = IF new.todo = <<>> THEN NoOp ELSE new
           /\ \A q \in Requests : q # r => op'[q] = op[q]
           /\ \A s \in Sessions, q \in Requests :
                 runLock[s] = q /\ (q # r \/ new.todo # <<>>) => runLock'[s] = q
           /\ calm' \in BOOLEAN
<1>1. op' \in [Requests -> Ops]
  BY NoOpTyped DEF OpsOK, Becomes
<1>2. runLock' \in [Sessions -> Requests \cup {NoOne}]
  BY DEF OpsOK, Becomes
<1>3. /\ op'[r] = IF new.todo = <<>> THEN NoOp ELSE new
      /\ \A q \in Requests : q # r => op'[q] = op[q]
  BY DEF OpsOK, Becomes
<1>4. \A s \in Sessions, q \in Requests :
         runLock[s] = q /\ (q # r \/ new.todo # <<>>) => runLock'[s] = q
  BY DEF OpsOK, Becomes
<1>5. calm' \in BOOLEAN
  BY Zenon DEF Becomes
<1> QED
  BY <1>1, <1>2, <1>3, <1>4, <1>5 DEF OpsOK

LEMMA AdvanceGoesOn ==
    ASSUME OpsOK, NEW r \in Requests, op[r].todo # <<>>, Advance(r) \/ EndRequest(r)
    PROVE  GoesOn(r)
<1>1. CASE Advance(r)
  <2> DEFINE new == [op[r] EXCEPT !.todo = Tail(@)]
  <2>1. new \in Ops /\ new.kind = op[r].kind /\ new.at = op[r].at /\ new.todo = Tail(op[r].todo)
    <3>1. op[r] \in Ops
      BY DEF OpsOK
    <3>2. Tail(op[r].todo) \in Seq(Steps)
      BY <3>1 DEF Ops
    <3> QED
      BY <3>1, <3>2 DEF Ops
  <2> QED
    BY <1>1, <2>1 DEF Advance, GoesOn
<1>2. CASE EndRequest(r)
  BY <1>2, NoOpTyped DEF EndRequest, GoesOn
<1> QED
  BY <1>1, <1>2

\* The first and the rest of what is left.
LEMMA HeadOf ==
    ASSUME OpsOK, NEW r \in Requests, NEW step, At(r, step), Kept(r)
    PROVE  /\ op[r].todo # <<>> /\ op[r].todo \in Seq(Steps) /\ Head(op[r].todo) = step
           /\ Fits(op[r].kind, op[r].todo) /\ op[r].at \in Sessions
           /\ step = "run" => op[r].kind \in Runners
           /\ step \in {"forget", "remove", "scan", "unlink"} => op[r].kind = "delete"
           /\ step \in {"load", "openMeta", "fillMeta"} => op[r].kind \notin {"delete", "refresh"}
<1>1. op[r].todo # <<>> /\ op[r].todo \in Seq(Steps) /\ Head(op[r].todo) = step
  BY DEF At, Idle, OpsOK, Ops
<1>2. Fits(op[r].kind, op[r].todo) /\ op[r].at \in Sessions
  BY <1>1 DEF Kept
<1>3. 1 \in 1..Len(op[r].todo) /\ op[r].todo[1] = step
  BY <1>1
<1> QED
  BY <1>1, <1>2, <1>3 DEF Fits

\* Two requests under the run lock of one session are one.
LEMMA OneLocked ==
    ASSUME OpsOK, NEW r \in Requests, NEW q \in Requests, Kept(r), Kept(q),
           op[r].todo # <<>>, op[q].todo # <<>>, op[r].at = op[q].at,
           op[r].kind \in Locked, op[q].kind \in Locked
    PROVE  r = q
  BY DEF Kept

\* A request that goes on leaves everybody what he needs.
LEMMA GoesOnKept ==
    ASSUME OpsOK, \A q \in Requests : Kept(q),
           NEW r \in Requests, op[r].todo # <<>>, GoesOn(r)
    PROVE  \A q \in Requests : Kept(q)'
<1>1. PICK new \in Ops :
         /\ Becomes(r, new)
         /\ \/ new.todo = <<>>
            \/ new.kind = op[r].kind /\ new.at = op[r].at /\ new.todo = Tail(op[r].todo)
  BY DEF GoesOn
<1>2. ASSUME NEW q \in Requests, q # r PROVE Kept(q)'
  BY <1>1, <1>2, BecomesOne DEF Kept
<1>3. Kept(r)'
  <2>1. CASE new.todo = <<>>
    BY <1>1, <2>1, BecomesOne, NoOpTyped DEF Kept
  <2>2. CASE new.todo # <<>>
    <3>1. op[r].todo \in Seq(Steps) /\ Fits(op[r].kind, op[r].todo)
      BY DEF OpsOK, Ops, Kept
    <3>2. Fits(new.kind, new.todo)
      BY <1>1, <2>2, <3>1, TailFits
    <3>3. op'[r] = new /\ \A s \in Sessions : runLock[s] = r => runLock'[s] = r
      BY <1>1, <2>2, BecomesOne
    <3> QED
      BY <1>1, <2>2, <3>2, <3>3 DEF Kept
  <2> QED
    BY <2>1, <2>2
<1> QED
  BY <1>2, <1>3

LEMMA TakesUpKept ==
    ASSUME OpsOK, \A q \in Requests : Kept(q), NEW r \in Requests, op[r].todo # <<>>,
           NEW more, TakesUp(r, more), \A todo \in more : Fits(op[r].kind, todo)
    PROVE  /\ OpsOK' /\ calm' \in BOOLEAN /\ \A q \in Requests : Kept(q)'
           /\ \A q \in Requests : q # r => op'[q] = op[q]
           /\ op'[r].todo = <<>> \/ (/\ op'[r].kind = op[r].kind /\ op'[r].at = op[r].at
                                    /\ op'[r].todo \in more)
<1>1. PICK new \in Ops :
         /\ Becomes(r, new)
         /\ new.kind = op[r].kind /\ new.at = op[r].at /\ new.todo \in more
  BY DEF TakesUp
<1>2. /\ OpsOK' /\ calm' \in BOOLEAN
      /\ op'[r] = IF new.todo = <<>> THEN NoOp ELSE new
      /\ \A q \in Requests : q # r => op'[q] = op[q]
      /\ \A s \in Sessions, q \in Requests :
            runLock[s] = q /\ (q # r \/ new.todo # <<>>) => runLock'[s] = q
  BY <1>1, BecomesOne
<1>3. Kept(r)'
  <2>1. CASE new.todo = <<>>
    BY <1>2, <2>1, NoOpTyped DEF Kept
  <2>2. CASE new.todo # <<>>
    <3>1. op'[r] = new /\ Fits(new.kind, new.todo)
      BY <1>1, <1>2, <2>2
    <3>2. /\ new.at \in Sessions /\ new.kind \in Kinds
          /\ new.kind \in Locked => runLock[new.at] = r
      BY <1>1 DEF Kept
    <3>3. new.kind \in Locked => runLock'[new.at] = r
      BY <1>2, <2>2, <3>2
    <3> QED
      BY <3>1, <3>2, <3>3 DEF Kept
  <2> QED
    BY <2>1, <2>2
<1>4. ASSUME NEW q \in Requests, q # r PROVE Kept(q)'
  BY <1>2, <1>4 DEF Kept
<1> QED
  BY <1>1, <1>2, <1>3, <1>4, NoOpTyped

\* Past its beginning, a request that goes on knows what it knew.
LEMMA GoesOnFound ==
    ASSUME OpsOK, NEW r \in Requests, Kept(r), Found(r), op[r].todo # <<>>, GoesOn(r),
           Head(op[r].todo) \notin {"check", "forget"},
           Head(op[r].todo) \in Look /\ op'[r].todo # <<>> => meta[op[r].at] # "none",
           meta[op[r].at] # "none" => meta'[op[r].at] # "none",
           op[r].kind = "delete" => UNCHANGED <<checkpoint, unfinished>>
    PROVE  Found(r)'
<1>1. PICK new \in Ops :
         /\ Becomes(r, new)
         /\ \/ new.todo = <<>>
            \/ new.kind = op[r].kind /\ new.at = op[r].at /\ new.todo = Tail(op[r].todo)
  BY DEF GoesOn
<1>2. CASE op'[r].todo = <<>>
  BY <1>2 DEF Found
<1>3. CASE op'[r].todo # <<>>
  <2>1. /\ op'[r].kind = op[r].kind /\ op'[r].at = op[r].at
        /\ op'[r].todo = Tail(op[r].todo)
    BY <1>1, <1>3, BecomesOne, NoOpTyped
  <2>2. op[r].todo \notin {DeleteSteps, Loaded}
    BY Beginnings
  <2>3. op[r].todo = Checked => Tail(op[r].todo) = Loaded
    BY DEF Loaded
  <2>4. ASSUME op[r].kind \in Locked \ {"delete"}
        PROVE  meta'[op[r].at] # "none" \/ Looks(op[r].kind, Tail(op[r].todo))
    <3>1. op[r].todo \in Seq(Steps)
      BY DEF OpsOK, Ops
    <3> QED
      BY <1>3, <2>4, <3>1, LooksTail DEF Found
  <2>5. ASSUME op[r].kind = "delete"
        PROVE  ~unfinished'[op[r].at] /\ (Tail(op[r].todo) # Loaded => ~checkpoint'[op[r].at])
    BY <2>2, <2>3, <2>5 DEF Found
  <2> HIDE DEF Locked
  <2> QED
    BY <2>1, <2>4, <2>5 DEF Found
<1> QED
  BY <1>2, <1>3

\* The others know what they knew when their session has not lost what they found.
LEMMA OthersFound ==
    ASSUME NEW q \in Requests, Found(q), op'[q] = op[q],
           op[q].todo # <<>> /\ op[q].kind \in Locked \ {"delete"} /\ meta[op[q].at] # "none" =>
              meta'[op[q].at] # "none",
           op[q].todo # <<>> /\ op[q].kind = "delete" =>
              /\ unfinished'[op[q].at] => unfinished[op[q].at]
              /\ checkpoint'[op[q].at] => checkpoint[op[q].at]
    PROVE  Found(q)'
  BY DEF Found

-----------------------------------------------------------------------------
(* Types                                                                    *)

\* What a request that goes on may do to the files.
LEMMA GoesOnTyped ==
    ASSUME OpsOK, NEW r \in Requests, op[r].todo # <<>>, GoesOn(r)
    PROVE  OpsOK' /\ calm' \in BOOLEAN
  BY BecomesOne DEF GoesOn

\* Get, Load, GetIndex and FillIndex set more than what is left to do.
LEMMA GetGoesOn ==
    ASSUME OpsOK, FilesOK, NEW r \in Requests, Kept(r), Get(r)
    PROVE  GoesOn(r) /\ (meta[op[r].at] # "none" \/ op'[r].todo = <<>>)
<1> DEFINE s == op[r].at
           put == CASE op[r].kind = "archive" -> "archived"
                    [] op[r].kind = "restore" -> "active"
                    [] OTHER                  -> meta[s]
           new == [op[r] EXCEPT !.put = put, !.todo = Tail(@)]
<1>1. op[r] \in Ops /\ op[r].todo \in Seq(Steps) /\ op[r].todo # <<>> /\ s \in Sessions
  BY HeadOf DEF OpsOK, Get
<1>2. CASE ~Readable(meta[s])
  <2>1. EndRequest(r)
    BY <1>2 DEF Get
  <2> QED
    BY <1>1, <2>1, AdvanceGoesOn, BecomesOne, NoOpTyped DEF EndRequest
<1>3. CASE Readable(meta[s])
  <2>1. Becomes(r, new) /\ meta[s] # "none"
    BY <1>3 DEF Get, Readable, Status
  <2>2. put \in Status
    <3>1. op[r].kind = "archive" => put = "archived"
      OBVIOUS
    <3>2. op[r].kind = "restore" => put = "active"
      OBVIOUS
    <3>3. op[r].kind \notin {"archive", "restore"} => put = meta[s]
      OBVIOUS
    <3>4. meta[s] \in Status
      BY <1>1, <1>3 DEF Readable, FilesOK, MetaFiles, IndexFiles, Status
    <3> QED
      BY <3>1, <3>2, <3>3, <3>4 DEF Status
  <2>3. Tail(op[r].todo) \in Seq(Steps)
    BY <1>1
  <2> HIDE DEF put
  <2>4. new \in Ops /\ new.kind = op[r].kind /\ new.at = s /\ new.todo = Tail(op[r].todo)
    BY <1>1, <2>2, <2>3 DEF Ops
  <2> QED
    BY <2>1, <2>4 DEF GoesOn
<1> QED
  BY <1>2, <1>3

\* The steps of a load that finds an archived session.
Restoring(todo) == SaveSteps \o <<"get">> \o Tail(todo)

LEMMA LoadGoesOn ==
    ASSUME OpsOK, FilesOK, NEW r \in Requests, Kept(r), Load(r)
    PROVE  \/ GoesOn(r) /\ (meta[op[r].at] # "none" \/ op'[r].todo = <<>>)
           \/ TakesUp(r, {Restoring(op[r].todo)}) /\ meta[op[r].at] # "none"
<1> DEFINE s == op[r].at
           todo == IF meta[s] = "archived" THEN Restoring(op[r].todo) ELSE Tail(op[r].todo)
           new == [op[r] EXCEPT !.put = "active", !.todo = todo]
<1>1. op[r] \in Ops /\ op[r].todo \in Seq(Steps) /\ op[r].todo # <<>> /\ s \in Sessions
  BY HeadOf DEF OpsOK, Load
<1>2. CASE ~Readable(meta[s])
  <2>1. EndRequest(r)
    BY <1>2 DEF Load
  <2> QED
    BY <1>1, <2>1, AdvanceGoesOn, BecomesOne, NoOpTyped DEF EndRequest
<1>3. CASE Readable(meta[s])
  <2>1. Becomes(r, new) /\ meta[s] # "none"
    BY <1>3 DEF Load, Readable, Status, Restoring
  <2>2. todo \in Seq(Steps)
    <3>1. Tail(op[r].todo) \in Seq(Steps)
      BY <1>1
    <3>2. <<"get">> \in Seq(Steps)
      BY DEF Steps
    <3>3. Restoring(op[r].todo) \in Seq(Steps)
      BY <3>1, <3>2, SavesFit, ConcatLength DEF Restoring
    <3> QED
      BY <3>1, <3>3
  <2> HIDE DEF todo
  <2>3. new \in Ops /\ new.kind = op[r].kind /\ new.at = s /\ new.todo = todo
    BY <1>1, <2>2 DEF Ops, Status
  <2> HIDE DEF new
  <2>4. CASE meta[s] = "archived"
    <3>1. todo = Restoring(op[r].todo)
      BY <2>4 DEF todo
    <3> QED
      BY <2>1, <2>3, <3>1 DEF TakesUp
  <2>5. CASE meta[s] # "archived"
    <3>1. todo = Tail(op[r].todo)
      BY <2>5 DEF todo
    <3> QED
      BY <2>1, <2>3, <3>1 DEF GoesOn
  <2> QED
    BY <2>4, <2>5
<1> QED
  BY <1>2, <1>3

LEMMA RestoringFits ==
    ASSUME NEW kind, kind \notin {"delete", "refresh"}, NEW todo \in Seq(Steps), todo # <<>>,
           Fits(kind, todo)
    PROVE  Restoring(todo) \in Seq(Steps) /\ Fits(kind, Restoring(todo))
<1>1. <<"get">> \in Seq(Steps) /\ Fits(kind, <<"get">>)
  BY DEF Steps, Fits
<1>2. SaveSteps \o <<"get">> \in Seq(Steps) /\ Fits(kind, SaveSteps \o <<"get">>)
  BY <1>1, SavesFit, ConcatFits
<1>3. Tail(todo) \in Seq(Steps) /\ Fits(kind, Tail(todo))
  BY TailFits
<1> QED
  BY <1>2, <1>3, ConcatFits DEF Restoring

LEMMA RunTakesUp ==
    ASSUME OpsOK, NEW r \in Requests, Kept(r), Run(r)
    PROVE  op[r].kind \in Runners /\ TakesUp(r, AfterRun[op[r].kind])
<1>1. op[r].kind \in Runners /\ op[r] \in Ops
  BY HeadOf DEF Run, OpsOK
<1>2. PICK rest \in AfterRun[op[r].kind] : Becomes(r, [op[r] EXCEPT !.todo = rest])
  BY DEF Run
<1> DEFINE new == [op[r] EXCEPT !.todo = rest]
<1>3. rest \in Seq(Steps)
  BY <1>1, AfterRunFits
<1>4. new \in Ops /\ new.kind = op[r].kind /\ new.at = op[r].at /\ new.todo = rest
  BY <1>1, <1>3 DEF Ops
<1> QED
  BY <1>1, <1>2, <1>4 DEF TakesUp

LEMMA IndexGoesOn ==
    ASSUME OpsOK, FilesOK, NEW r \in Requests, Kept(r), GetIndex(r) \/ FillIndex(r)
    PROVE  GoesOn(r)
<1>1. op[r] \in Ops /\ op[r].todo \in Seq(Steps) /\ op[r].todo # <<>>
  BY HeadOf DEF OpsOK, GetIndex, FillIndex
<1>2. Tail(op[r].todo) \in Seq(Steps)
  BY <1>1
<1>3. CASE GetIndex(r) /\ index.file \in {"empty", "torn"}
  BY <1>1, <1>3, AdvanceGoesOn DEF GetIndex
<1>4. CASE GetIndex(r) /\ index.file \notin {"empty", "torn"}
  <2> DEFINE new == [op[r] EXCEPT !.read = index.shown, !.todo = Tail(@)]
  <2>1. new \in Ops /\ new.kind = op[r].kind /\ new.at = op[r].at /\ new.todo = Tail(op[r].todo)
    BY <1>1, <1>2 DEF Ops, FilesOK
  <2> QED
    BY <1>4, <2>1 DEF GetIndex, GoesOn
<1>5. CASE FillIndex(r)
  <2> DEFINE new == [op[r] EXCEPT !.put = "active", !.read = NoListing, !.todo = Tail(@)]
  <2>1. new \in Ops /\ new.kind = op[r].kind /\ new.at = op[r].at /\ new.todo = Tail(op[r].todo)
    BY <1>1, <1>2 DEF Ops, Status, NoListing, Listing
  <2> QED
    BY <1>5, <2>1 DEF FillIndex, GoesOn
<1> QED
  BY <1>3, <1>4, <1>5

\* Every other step but the two that delete files advances or ends its request.
LEMMA PlainGoesOn ==
    ASSUME OpsOK, NEW r \in Requests, Kept(r),
           \/ Check(r) \/ Find(r) \/ AppendTo(r) \/ Forget(r) \/ OpenMeta(r)
           \/ FillMeta(r) \/ Spill(r) \/ OpenIndex(r) \/ Scan(r)
    PROVE  GoesOn(r)
<1>1. op[r].todo # <<>>
  BY DEF At, Idle, Check, Find, AppendTo, Forget, OpenMeta, FillMeta, Spill, OpenIndex, Scan
<1>2. Advance(r) \/ EndRequest(r)
  BY DEF Check, Find, AppendTo, Forget, OpenMeta, FillMeta, Spill, OpenIndex, Scan
<1> QED
  BY <1>1, <1>2, AdvanceGoesOn

\* Who held a deleted file open takes one step more for nothing.
LEMMA SpilledOne ==
    ASSUME OpsOK, NEW step, NEW who, NEW q \in Requests, Kept(q)
    PROVE  LET new == Spilled(step, who)[q]
           IN  /\ new \in Ops
               /\ \/ new = op[q]
                  \/ /\ q \in who /\ At(q, step)
                     /\ new.kind = op[q].kind /\ new.at = op[q].at
                     /\ new.todo = <<"spill">> \o Tail(op[q].todo)
                     /\ Fits(new.kind, new.todo)
<1> DEFINE new == [op[q] EXCEPT !.todo = <<"spill">> \o Tail(@)]
<1>1. op[q] \in Ops
  BY DEF OpsOK
<1>2. CASE q \in who /\ At(q, step)
  <2>1. op[q].todo \in Seq(Steps) /\ op[q].todo # <<>> /\ Fits(op[q].kind, op[q].todo)
    BY <1>2, HeadOf
  <2>2. Tail(op[q].todo) \in Seq(Steps) /\ Fits(op[q].kind, Tail(op[q].todo))
    BY <2>1, TailFits
  <2>3. <<"spill">> \in Seq(Steps) /\ Fits(op[q].kind, <<"spill">>)
    BY DEF Steps, Fits
  <2>4. /\ <<"spill">> \o Tail(op[q].todo) \in Seq(Steps)
        /\ Fits(op[q].kind, <<"spill">> \o Tail(op[q].todo))
    BY <2>2, <2>3, ConcatFits
  <2>5. /\ new \in Ops /\ new.kind = op[q].kind /\ new.at = op[q].at
        /\ new.todo = <<"spill">> \o Tail(op[q].todo)
    BY <1>1, <2>4 DEF Ops
  <2>6. Spilled(step, who)[q] = new
    BY <1>2 DEF Spilled
  <2> QED
    BY <1>2, <2>4, <2>5, <2>6
<1>3. CASE ~(q \in who /\ At(q, step))
  <2>1. Spilled(step, who)[q] = op[q]
    BY <1>3 DEF Spilled
  <2> QED
    BY <1>1, <2>1
<1> QED
  BY <1>2, <1>3

\* A deletion removes the directory; the others go on, or spill.
LEMMA RemoveOps ==
    ASSUME OpsOK, \A q \in Requests : Kept(q), NEW r \in Requests, Remove(r)
    PROVE  /\ OpsOK' /\ calm' \in BOOLEAN
           /\ \A q \in Requests : Kept(q)'
           /\ op'[r].kind = "delete" /\ op'[r].at = op[r].at /\ op'[r].todo = Tail(op[r].todo)
           /\ \A q \in Requests \ {r} :
                 \/ op'[q] = op[q]
                 \/ /\ op[q].at = op[r].at /\ At(q, "fillMeta")
                    /\ op'[q].kind = op[q].kind /\ op'[q].at = op[q].at
                    /\ op'[q].todo = <<"spill">> \o Tail(op[q].todo)
<1> DEFINE who == {q \in Requests : op[q].at = op[r].at}
           rest == Spilled("fillMeta", who)
           new  == [op[r] EXCEPT !.todo = Tail(@)]
<1>1. /\ op[r] \in Ops /\ op[r].todo \in Seq(Steps) /\ op[r].todo # <<>>
      /\ Head(op[r].todo) = "remove" /\ op[r].kind = "delete"
      /\ Fits(op[r].kind, op[r].todo)
  BY HeadOf DEF OpsOK, Remove
<1>2. Tail(op[r].todo) \in Seq(Steps) /\ Fits(op[r].kind, Tail(op[r].todo))
  BY <1>1, TailFits
<1>3. rest[r] = op[r]
  BY <1>1 DEF Spilled, At
<1>4. DOMAIN rest = Requests
  BY DEF Spilled
<1>5. op' = [rest EXCEPT ![r].todo = Tail(@)] /\ UNCHANGED runLock /\ calm' = (calm /\ OneWrites')
  BY DEF Remove
<1>6. \A q \in Requests : rest[q] \in Ops
  BY SpilledOne
<1>7. new \in Ops /\ new.kind = "delete" /\ new.at = op[r].at /\ new.todo = Tail(op[r].todo)
  BY <1>1, <1>2 DEF Ops
<1>8. op' = [rest EXCEPT ![r] = new]
  BY <1>3, <1>5
<1>9. op'[r] = new /\ \A q \in Requests \ {r} : op'[q] = rest[q]
  BY <1>4, <1>8
<1>10. OpsOK'
  <2>1. op' \in [Requests -> Ops]
    BY <1>4, <1>6, <1>7, <1>8 DEF Spilled
  <2> QED
    BY <1>5, <2>1 DEF OpsOK
<1>11. calm' \in BOOLEAN
  BY <1>5, Zenon
<1>12. ASSUME NEW q \in Requests \ {r}
       PROVE  \/ op'[q] = op[q]
              \/ /\ op[q].at = op[r].at /\ At(q, "fillMeta")
                 /\ op'[q].kind = op[q].kind /\ op'[q].at = op[q].at
                 /\ op'[q].todo = <<"spill">> \o Tail(op[q].todo)
                 /\ Fits(op'[q].kind, op'[q].todo)
  <2>1. \/ rest[q] = op[q]
        \/ /\ q \in who /\ At(q, "fillMeta")
           /\ rest[q].kind = op[q].kind /\ rest[q].at = op[q].at
           /\ rest[q].todo = <<"spill">> \o Tail(op[q].todo)
           /\ Fits(rest[q].kind, rest[q].todo)
    <3> HIDE DEF who
    <3> QED
      BY SpilledOne
  <2> HIDE DEF rest
  <2> QED
    BY <1>9, <2>1
<1>13. Kept(r)'
  BY <1>1, <1>2, <1>5, <1>7, <1>9 DEF Kept
<1>14. ASSUME NEW q \in Requests \ {r} PROVE Kept(q)'
  <2>1. CASE op'[q] = op[q]
    BY <1>5, <2>1 DEF Kept
  <2>2. CASE op'[q] # op[q]
    <3>1. op[q].todo # <<>>
      BY <1>12, <2>2 DEF At, Idle
    <3> QED
      BY <1>5, <1>12, <2>2, <3>1 DEF Kept
  <2> QED
    BY <2>1, <2>2
<1> HIDE DEF new, rest
<1> QED
  BY <1>7, <1>9, <1>10, <1>11, <1>12, <1>13, <1>14

\* The deletion of index.json ends its request; the others go on, or spill.
LEMMA UnlinkOps ==
    ASSUME OpsOK, \A q \in Requests : Kept(q), NEW r \in Requests, Unlink(r)
    PROVE  /\ OpsOK' /\ calm' \in BOOLEAN
           /\ \A q \in Requests : Kept(q)'
           /\ op'[r].todo = <<>>
           /\ \A q \in Requests \ {r} :
                 \/ op'[q] = op[q]
                 \/ /\ At(q, "fillIndex")
                    /\ op'[q].kind = op[q].kind /\ op'[q].at = op[q].at
                    /\ op'[q].todo = <<"spill">> \o Tail(op[q].todo)
<1> DEFINE rest == Spilled("fillIndex", Requests)
<1>1. DOMAIN rest = Requests /\ \A q \in Requests : rest[q] \in Ops
  BY SpilledOne DEF Spilled
<1>2. /\ op' = [rest EXCEPT ![r] = NoOp]
      /\ runLock' = [s \in Sessions |-> IF runLock[s] = r THEN NoOne ELSE runLock[s]]
      /\ calm' = (calm /\ OneWrites')
  BY DEF Unlink
<1>3. op'[r] = NoOp /\ \A q \in Requests \ {r} : op'[q] = rest[q]
  BY <1>1, <1>2
<1>4. OpsOK'
  <2>1. op' \in [Requests -> Ops]
    BY <1>1, <1>2, NoOpTyped DEF Spilled
  <2>2. runLock' \in [Sessions -> Requests \cup {NoOne}]
    BY <1>2 DEF OpsOK
  <2> QED
    BY <2>1, <2>2 DEF OpsOK
<1>5. calm' \in BOOLEAN
  BY <1>2, Zenon
<1>6. ASSUME NEW q \in Requests \ {r}
      PROVE  \/ op'[q] = op[q]
             \/ /\ At(q, "fillIndex")
                /\ op'[q].kind = op[q].kind /\ op'[q].at = op[q].at
                /\ op'[q].todo = <<"spill">> \o Tail(op[q].todo)
                /\ Fits(op'[q].kind, op'[q].todo)
  BY <1>3, SpilledOne
<1> HIDE DEF rest
<1>7. Kept(r)'
  BY <1>3, NoOpTyped DEF Kept
<1>8. ASSUME NEW q \in Requests \ {r} PROVE Kept(q)'
  <2>1. \A s \in Sessions : runLock[s] = q => runLock'[s] = q
    BY <1>2
  <2>2. CASE op'[q] = op[q]
    BY <2>1, <2>2 DEF Kept
  <2>3. CASE op'[q] # op[q]
    <3>1. op[q].todo # <<>>
      BY <1>6, <2>3 DEF At, Idle
    <3> QED
      BY <1>6, <2>1, <2>3, <3>1 DEF Kept
  <2> QED
    BY <2>2, <2>3
<1> QED
  BY <1>3, <1>4, <1>5, <1>6, <1>7, <1>8, NoOpTyped

\* A request that starts has its script and, if it needs it, the lock.
LEMMA StartOps ==
    ASSUME OpsOK, \A q \in Requests : Kept(q),
           NEW r \in Requests, NEW kind \in Kinds, NEW s \in Sessions, Start(r, kind, s)
    PROVE  /\ OpsOK'
           /\ \A q \in Requests : Kept(q)'
           /\ op'[r].kind = kind /\ op'[r].at = s /\ op'[r].todo = Script[kind]
           /\ \A q \in Requests \ {r} : op'[q] = op[q]
<1> DEFINE new == [NoOp EXCEPT !.kind = kind, !.at = s, !.todo = Script[kind]]
<1>1. new \in Ops /\ new.kind = kind /\ new.at = s /\ new.todo = Script[kind]
  BY NoOpTyped, ScriptFits DEF Ops
<1>2. /\ op' = [op EXCEPT ![r] = new]
      /\ kind \in Locked => runLock[s] = NoOne
      /\ runLock' = IF kind \in Locked THEN [runLock EXCEPT ![s] = r] ELSE runLock
  BY DEF Start
<1> HIDE DEF new
<1>3. op'[r] = new /\ \A q \in Requests \ {r} : op'[q] = op[q]
  BY <1>2 DEF OpsOK
<1>4. OpsOK'
  <2>1. op' \in [Requests -> Ops]
    BY <1>1, <1>2 DEF OpsOK
  <2>2. runLock' \in [Sessions -> Requests \cup {NoOne}]
    BY <1>2 DEF OpsOK
  <2> QED
    BY <2>1, <2>2 DEF OpsOK
<1>5. Kept(r)'
  BY <1>1, <1>2, <1>3, ScriptFits DEF Kept, OpsOK
<1>6. ASSUME NEW q \in Requests \ {r} PROVE Kept(q)'
  <2>1. \A t \in Sessions : runLock[t] = q => runLock'[t] = q
    BY <1>2, NoOneAssumption DEF OpsOK
  <2> QED
    BY <1>3, <2>1 DEF Kept
<1> QED
  BY <1>1, <1>3, <1>4, <1>5, <1>6

\* The kinds of request keep what they need, whoever moves.
LEMMA KeptStep ==
    ASSUME TypeOK, \A q \in Requests : Kept(q), Next
    PROVE  OpsOK' /\ calm' \in BOOLEAN /\ \A q \in Requests : Kept(q)'
<1> USE DEF TypeOK
<1>1. ASSUME NEW r \in Requests, Step(r)
      PROVE  OpsOK' /\ calm' \in BOOLEAN /\ \A q \in Requests : Kept(q)'
  <2>1. CASE GoesOn(r) /\ op[r].todo # <<>>
    BY <2>1, GoesOnTyped, GoesOnKept
  <2>2. CASE Load(r) /\ ~GoesOn(r)
    <3>1. /\ op[r].todo # <<>> /\ op[r].todo \in Seq(Steps)
          /\ op[r].kind \notin {"delete", "refresh"} /\ Fits(op[r].kind, op[r].todo)
      BY <2>2, HeadOf DEF Load
    <3>2. TakesUp(r, {Restoring(op[r].todo)})
      BY <2>2, LoadGoesOn
    <3>3. Fits(op[r].kind, Restoring(op[r].todo))
      BY <3>1, RestoringFits
    <3> QED
      BY <3>1, <3>2, <3>3, TakesUpKept
  <2>5. CASE Run(r)
    <3>1. op[r].todo # <<>>
      BY <2>5, HeadOf DEF Run
    <3>2. op[r].kind \in Runners /\ TakesUp(r, AfterRun[op[r].kind])
      BY <2>5, RunTakesUp
    <3>3. \A todo \in AfterRun[op[r].kind] : Fits(op[r].kind, todo)
      BY <3>2, AfterRunFits
    <3> QED
      BY <3>1, <3>2, <3>3, TakesUpKept
  <2>3. CASE Remove(r)
    BY <2>3, RemoveOps
  <2>4. CASE Unlink(r)
    BY <2>4, UnlinkOps
  <2> QED
    <3>1. op[r].todo # <<>>
      BY <1>1 DEF Step, At, Idle, Get, Load, Check, Find, AppendTo, Run, Forget, OpenMeta, FillMeta,
           Spill, GetIndex, OpenIndex, FillIndex, Remove, Scan, Unlink
    <3> QED
      BY <1>1, <2>1, <2>2, <2>3, <2>4, <2>5, <3>1, PlainGoesOn, IndexGoesOn, GetGoesOn DEF Step
<1>2. ASSUME NEW r \in Requests, NEW kind \in Kinds, NEW s \in Sessions, Start(r, kind, s)
      PROVE  OpsOK' /\ calm' \in BOOLEAN /\ \A q \in Requests : Kept(q)'
  BY <1>2, StartOps DEF Start, WorkOK
<1>3. ASSUME NEW s \in Sessions, Settle(s)
      PROVE  OpsOK' /\ calm' \in BOOLEAN /\ \A q \in Requests : Kept(q)'
  BY <1>3 DEF Settle, OpsOK, WorkOK, Kept
<1>4. CASE Crash
  <2>1. OpsOK' /\ \A q \in Requests : Kept(q)'
    BY <1>4, NoOpTyped DEF Crash, OpsOK, Kept
  <2>2. calm' \in BOOLEAN
    BY <1>4, Zenon DEF Crash
  <2> QED
    BY <2>1, <2>2
<1> QED
  BY <1>1, <1>2, <1>3, <1>4 DEF Next

\* Every step leaves the files and the work well typed.
LEMMA FilesStep ==
    ASSUME TypeOK, \A q \in Requests : Kept(q), Next
    PROVE  FilesOK'
<1> USE DEF TypeOK
<1>1. ASSUME NEW r \in Requests, Step(r)
      PROVE  FilesOK'
  <2> USE DEF FilesOK, MetaFiles, Status
  <2>1. CASE UNCHANGED files
    BY <2>1 DEF files
  <2>2. CASE AppendTo(r) \/ Run(r)
    <3>1. /\ \E b \in BOOLEAN : logs' = [logs EXCEPT ![op[r].at] = b]
          /\ UNCHANGED <<meta, index>>
      <4>1. CASE AppendTo(r)
        BY <4>1 DEF AppendTo
      <4>2. CASE Run(r)
        <5>1. \E wrote, recorded \in BOOLEAN :
                 logs' = [logs EXCEPT ![op[r].at] = @ \/ (wrote /\ recorded)]
          BY <4>2 DEF Run
        <5> QED
          BY <4>2, <5>1 DEF Run
      <4> QED
        BY <2>2, <4>1, <4>2
    <3> QED
      BY <3>1
  <2>3. CASE OpenMeta(r)
    BY <2>3 DEF OpenMeta
  <2>4. CASE FillMeta(r)
    <3>1. PICK new \in Filled(meta[op[r].at], op[r].put, "torn") :
             meta' = [meta EXCEPT ![op[r].at] = new]
      BY <2>4 DEF FillMeta
    <3>2. new \in MetaFiles
      BY <3>1 DEF Filled, OpsOK, Ops
    <3> QED
      BY <2>4, <3>1, <3>2 DEF FillMeta
  <2>5. CASE OpenIndex(r) \/ Unlink(r)
    BY <2>5 DEF OpenIndex, Unlink, IndexFiles, NoListing, Listing
  <2>6. CASE FillIndex(r)
    <3>1. NewIndex(r) \in Listing
      <4>1. op[r].read \in Listing /\ op[r].put \in Status
        BY DEF OpsOK, Ops
      <4>2. (IF op[r].kind = "delete" THEN "none" ELSE op[r].put) \in {"none"} \cup Status
        BY <4>1
      <4> HIDE DEF TypeOK, FilesOK, MetaFiles, Status
      <4> QED
        BY <4>1, <4>2 DEF NewIndex, Listing
    <3>2. index' \in [file : IndexFiles, shown : Listing]
      <4>1. NoListing \in Listing
        BY DEF NoListing, Listing
      <4>2. index' \in {[file |-> "kept", shown |-> NewIndex(r)],
                        [file |-> "torn", shown |-> NoListing]}
        <5> DEFINE one == [file |-> "kept", shown |-> NewIndex(r)]
                   two == [file |-> "torn", shown |-> NoListing]
        <5>1. \E before : index' \in Filled(before, one, two)
          BY <2>6 DEF FillIndex
        <5> HIDE DEF one, two
        <5>2. index' \in {one, two}
          BY <5>1 DEF Filled
        <5> QED
          BY <5>2 DEF one, two
      <4> HIDE DEF Status, FilesOK, TypeOK
      <4> QED
        BY <3>1, <4>1, <4>2 DEF IndexFiles
    <3> QED
      BY <2>6, <3>2 DEF FillIndex
  <2>7. CASE Remove(r)
    BY <2>7 DEF Remove
  <2> QED
    BY <1>1, <2>1, <2>2, <2>3, <2>4, <2>5, <2>6, <2>7
       DEF Step, Get, Load, Check, Find, Forget, Spill, GetIndex, Scan
<1>2. ASSUME NEW r \in Requests, NEW kind \in Kinds, NEW s \in Sessions, Start(r, kind, s)
      PROVE  FilesOK'
  BY <1>2 DEF Start, files, FilesOK
<1>3. ASSUME NEW s \in Sessions, Settle(s)
      PROVE  FilesOK'
  BY <1>3 DEF Settle, files, FilesOK
<1>4. CASE Crash
  BY <1>4 DEF Crash, FilesOK, MetaFiles, IndexFiles
<1> QED
  BY <1>1, <1>2, <1>3, <1>4 DEF Next

LEMMA WorkStep ==
    ASSUME TypeOK, \A q \in Requests : Kept(q), Next
    PROVE  WorkOK'
<1> USE DEF TypeOK
<1>1. calm' \in BOOLEAN
  BY KeptStep
<1>2. created' \in SUBSET Sessions
  <2>1. created' = created \/ \E s \in Sessions : created' = created \cup {s}
    BY DEF Next, Step, Start, Get, Load, Check, Find, AppendTo, Run, Forget, OpenMeta, FillMeta,
         Spill, GetIndex, OpenIndex, FillIndex, Remove, Scan, Unlink, Settle, Crash, past
  <2> QED
    BY <2>1 DEF WorkOK
<1>5. ran' \in SUBSET Sessions
  <2>1. ran' = ran \/ \E r \in Requests : Run(r) /\ ran' = ran \cup {op[r].at}
    <3>1. CASE \E r \in Requests : Run(r)
      BY <3>1, Zenon DEF Run
    <3>2. CASE ~\E r \in Requests : Run(r)
      BY <3>2 DEF Next, Step, Start, Get, Load, Check, Find, AppendTo, Forget, OpenMeta, FillMeta,
           Spill, GetIndex, OpenIndex, FillIndex, Remove, Scan, Unlink, Settle, Crash, past
    <3> QED
      BY <3>1, <3>2
  <2>2. ASSUME NEW r \in Requests, Run(r)
        PROVE  op[r].at \in Sessions
    BY <2>2 DEF Run, At, Idle, Kept
  <2> QED
    BY <2>1, <2>2 DEF WorkOK
<1>3. checkpoint' \in [Sessions -> BOOLEAN]
  <2>1. \/ UNCHANGED checkpoint
        \/ \E r \in Requests, b \in BOOLEAN : checkpoint' = [checkpoint EXCEPT ![op[r].at] = @ /\ b]
        \/ \E r \in Requests, b \in BOOLEAN : checkpoint' = [checkpoint EXCEPT ![op[r].at] = @ \/ b]
    BY Zenon DEF Next, Step, Start, Get, Load, Check, Find, AppendTo, Run, Forget, OpenMeta, FillMeta,
         Spill, GetIndex, OpenIndex, FillIndex, Remove, Scan, Unlink, Settle, Crash
  <2> QED
    BY <2>1, Zenon DEF WorkOK
<1>4. unfinished' \in [Sessions -> BOOLEAN]
  <2>1. \/ UNCHANGED unfinished
        \/ \E r \in Requests, wrote, left \in BOOLEAN :
              unfinished' = [unfinished EXCEPT ![op[r].at] = @ \/ (wrote /\ left)]
        \/ \E s \in Sessions : unfinished' = [unfinished EXCEPT ![s] = FALSE]
    BY Zenon DEF Next, Step, Start, Get, Load, Check, Find, AppendTo, Run, Forget, OpenMeta, FillMeta,
         Spill, GetIndex, OpenIndex, FillIndex, Remove, Scan, Unlink, Settle, Crash
  <2> QED
    BY <2>1, Zenon DEF WorkOK
<1> QED
  BY <1>1, <1>2, <1>3, <1>4, <1>5 DEF WorkOK

-----------------------------------------------------------------------------
(* What was found                                                           *)

\* Under the run lock a request knows where it stands.
LEMMA Known ==
    ASSUME OpsOK, NEW r \in Requests, Kept(r), Found(r), NEW step, At(r, step)
    PROVE  /\ op[r].kind \in Locked \ {"delete"} /\ step \in Needy(op[r].kind) =>
                 meta[op[r].at] # "none"
           /\ op[r].kind = "delete" /\ step \notin {"get", "check", "forget"} =>
                 ~unfinished[op[r].at] /\ ~checkpoint[op[r].at]
<1>1. op[r].todo # <<>> /\ Head(op[r].todo) = step /\ op[r].todo \in Seq(Steps)
  BY HeadOf
<1>2. step \notin {"get", "check", "forget"} => op[r].todo \notin {DeleteSteps, Checked, Loaded}
  BY <1>1, Beginnings
<1>3. step \in Needy(op[r].kind) => ~Looks(op[r].kind, op[r].todo)
  BY <1>1, LooksTail
<1> QED
  BY <1>1, <1>2, <1>3 DEF Found

\* A step that goes on and takes nothing away that was found.
LEMMA QuietStep ==
    ASSUME OpsOK, IInv, NEW r \in Requests, op[r].todo # <<>>, GoesOn(r),
           Head(op[r].todo) \notin {"check", "forget"},
           Head(op[r].todo) \in Look /\ op'[r].todo # <<>> => meta[op[r].at] # "none",
           \A s \in Sessions : meta[s] # "none" => meta'[s] # "none",
           UNCHANGED <<checkpoint, unfinished>>
    PROVE  (\A q \in Requests : Found(q)') /\ UnfinishedKeepsThread'
<1>1. Found(r)'
  <2>1. op[r].at \in Sessions
    BY DEF IInv, Kept
  <2> QED
    BY <2>1, GoesOnFound DEF IInv
<1>2. ASSUME NEW q \in Requests, q # r PROVE Found(q)'
  <2>1. op'[q] = op[q]
    BY <1>2, BecomesOne DEF GoesOn
  <2>2. op[q].todo # <<>> => op[q].at \in Sessions
    BY DEF IInv, Kept
  <2> QED
    BY <2>1, <2>2, OthersFound DEF IInv
<1>3. UnfinishedKeepsThread'
  BY DEF IInv, UnfinishedKeepsThread
<1> QED
  BY <1>1, <1>2, <1>3

\* The steps that look for the session find it, or end their request.
LEMMA LookStep ==
    ASSUME OpsOK, FilesOK, IInv, NEW r \in Requests, Get(r) \/ Load(r) \/ Find(r)
    PROVE  (\A q \in Requests : Found(q)') /\ UnfinishedKeepsThread'
<1>1. /\ op[r].todo # <<>> /\ Head(op[r].todo) \in {"get", "load", "find"}
      /\ op[r].at \in Sessions
      /\ UNCHANGED <<meta, checkpoint, unfinished>> /\ Kept(r) /\ Found(r)
  BY HeadOf DEF Get, Load, Find, IInv, files
<1>2. Head(op[r].todo) \in Look /\ op'[r].todo # <<>> => meta[op[r].at] # "none"
  <2>1. CASE Get(r)
    BY <1>1, <2>1, GetGoesOn
  <2>2. CASE Load(r)
    BY <1>1, <2>2, LoadGoesOn
  <2>3. CASE Find(r)
    BY <2>3 DEF Find, At, Look
  <2> QED
    BY <2>1, <2>2, <2>3
<1>3. CASE GoesOn(r)
  BY <1>1, <1>2, <1>3, QuietStep
<1>4. CASE ~GoesOn(r)
  <2>1. Load(r)
    BY <1>1, <1>4, GetGoesOn, PlainGoesOn
  <2>2. /\ TakesUp(r, {Restoring(op[r].todo)}) /\ meta[op[r].at] # "none"
        /\ op[r].kind \notin {"delete", "refresh"}
        /\ op[r].todo \in Seq(Steps) /\ Fits(op[r].kind, op[r].todo)
    BY <1>1, <1>4, <2>1, LoadGoesOn, HeadOf DEF Load
  <2>3. Fits(op[r].kind, Restoring(op[r].todo))
    BY <1>1, <2>2, RestoringFits
  <2>4. /\ \A q \in Requests : q # r => op'[q] = op[q]
        /\ op'[r].todo = <<>> \/ (op'[r].kind = op[r].kind /\ op'[r].at = op[r].at)
    BY <1>1, <2>2, <2>3, TakesUpKept DEF IInv
  <2>5. Found(r)'
    BY <1>1, <2>2, <2>4 DEF Found
  <2>6. ASSUME NEW q \in Requests, q # r PROVE Found(q)'
    BY <1>1, <2>4, <2>6, OthersFound DEF IInv
  <2> QED
    BY <1>1, <2>5, <2>6 DEF IInv, UnfinishedKeepsThread
<1> QED
  BY <1>3, <1>4

\* A check finds nothing unfinished, or ends its request.
LEMMA CheckStep ==
    ASSUME OpsOK, IInv, NEW r \in Requests, Check(r)
    PROVE  (\A q \in Requests : Found(q)') /\ UnfinishedKeepsThread'
<1>1. /\ op[r].todo # <<>> /\ Head(op[r].todo) = "check" /\ op[r].at \in Sessions
      /\ op[r].todo \in Seq(Steps)
      /\ UNCHANGED <<meta, checkpoint, unfinished>> /\ Kept(r) /\ Found(r)
  BY HeadOf DEF Check, IInv, files
<1>2. GoesOn(r)
  BY <1>1, PlainGoesOn
<1>3. PICK new \in Ops :
         /\ Becomes(r, new)
         /\ \/ new.todo = <<>>
            \/ new.kind = op[r].kind /\ new.at = op[r].at /\ new.todo = Tail(op[r].todo)
  BY <1>2 DEF GoesOn
<1>4. Found(r)'
  <2>1. CASE op'[r].todo = <<>>
    BY <2>1 DEF Found
  <2>2. CASE op'[r].todo # <<>>
    <3>1. /\ op'[r].kind = op[r].kind /\ op'[r].at = op[r].at
          /\ op'[r].todo = Tail(op[r].todo)
      BY <1>3, <2>2, BecomesOne, NoOpTyped
    <3>2. ~unfinished[op[r].at]
      <4>1. ~EndRequest(r)
        BY <2>2, BecomesOne, NoOpTyped DEF EndRequest
      <4> QED
        BY <4>1 DEF Check
    <3>3. op[r].todo \notin {Checked, Loaded}
      BY <1>1, Beginnings
    <3>4. op[r].todo = DeleteSteps => Tail(op[r].todo) = Checked
      BY DEF Checked
    <3>5. op[r].kind \in Locked \ {"delete"} =>
             meta[op[r].at] # "none" \/ Looks(op[r].kind, Tail(op[r].todo))
      <4>1. "check" \notin Look
        BY DEF Look
      <4> QED
        BY <1>1, <4>1, LooksTail DEF Found
    <3>6. op[r].kind = "delete" /\ Tail(op[r].todo) # Checked => ~checkpoint[op[r].at]
      BY <1>1, <3>3, <3>4 DEF Found
    <3> HIDE DEF Locked
    <3> QED
      BY <1>1, <3>1, <3>2, <3>5, <3>6 DEF Found
  <2> QED
    BY <2>1, <2>2
<1>5. ASSUME NEW q \in Requests, q # r PROVE Found(q)'
  BY <1>1, <1>3, <1>5, BecomesOne, OthersFound DEF IInv
<1> QED
  BY <1>1, <1>4, <1>5 DEF IInv, UnfinishedKeepsThread

\* A deletion forgets the thread of a session with nothing unfinished.
LEMMA ForgetStep ==
    ASSUME OpsOK, WorkOK, IInv, NEW r \in Requests, Forget(r)
    PROVE  (\A q \in Requests : Found(q)') /\ UnfinishedKeepsThread'
<1>1. /\ op[r].todo # <<>> /\ Head(op[r].todo) = "forget" /\ op[r].at \in Sessions
      /\ op[r].kind = "delete"
      /\ UNCHANGED <<meta, unfinished>> /\ Kept(r) /\ Found(r)
  BY HeadOf DEF Forget, IInv, files
<1>2. ~unfinished[op[r].at]
  BY <1>1, Beginnings DEF Found
<1>3. GoesOn(r)
  BY <1>1, PlainGoesOn
<1>4. \A q \in Requests : q # r => op'[q] = op[q]
  BY <1>3, BecomesOne DEF GoesOn
<1>5. \/ UNCHANGED checkpoint /\ EndRequest(r)
      \/ checkpoint' = [checkpoint EXCEPT ![op[r].at] = FALSE] /\ Advance(r)
  BY DEF Forget
<1>6. \A s \in Sessions : /\ checkpoint'[s] => checkpoint[s]
                          /\ s # op[r].at => checkpoint'[s] = checkpoint[s]
  BY <1>5 DEF WorkOK
<1>7. Found(r)'
  <2>1. CASE op'[r].todo = <<>>
    BY <2>1 DEF Found
  <2>2. CASE op'[r].todo # <<>>
    <3>1. ~EndRequest(r)
      BY <2>2, BecomesOne, NoOpTyped DEF EndRequest
    <3>2. ~checkpoint'[op[r].at]
      BY <1>1, <1>5, <3>1 DEF WorkOK
    <3>3. op'[r].kind = "delete" /\ op'[r].at = op[r].at
      BY <1>1, <1>3, <2>2, BecomesOne, NoOpTyped DEF GoesOn
    <3> QED
      BY <1>1, <1>2, <3>2, <3>3 DEF Found
  <2> QED
    BY <2>1, <2>2
<1>8. ASSUME NEW q \in Requests, q # r PROVE Found(q)'
  BY <1>1, <1>4, <1>6, <1>8, OthersFound DEF IInv, Kept
<1>9. UnfinishedKeepsThread'
  BY <1>1, <1>2, <1>6 DEF IInv, UnfinishedKeepsThread
<1> QED
  BY <1>7, <1>8, <1>9

\* Whoever runs the agent has the lock, so that no deletion has found anything.
LEMMA RunStep ==
    ASSUME OpsOK, WorkOK, IInv, NEW r \in Requests, Run(r)
    PROVE  (\A q \in Requests : Found(q)') /\ UnfinishedKeepsThread'
<1>1. /\ op[r].todo # <<>> /\ op[r].at \in Sessions /\ UNCHANGED meta /\ Kept(r) /\ Found(r)
  BY HeadOf DEF Run, IInv
<1>2. /\ op[r].kind \in Runners /\ TakesUp(r, AfterRun[op[r].kind])
      /\ op[r].kind \in {"turn", "decide", "resume"}
  BY <1>1, RunTakesUp DEF Runners, AfterRun
<1>3. \A todo \in AfterRun[op[r].kind] :
         Fits(op[r].kind, todo) /\ Looks(op[r].kind, todo)
  BY <1>2, AfterRunFits
<1>4. /\ \A q \in Requests : q # r => op'[q] = op[q]
      /\ op'[r].todo = <<>> \/ (/\ op'[r].kind = op[r].kind /\ op'[r].at = op[r].at
                               /\ op'[r].todo \in AfterRun[op[r].kind])
  BY <1>1, <1>2, <1>3, TakesUpKept DEF IInv
<1>5. /\ unfinished'[op[r].at] => unfinished[op[r].at] \/ checkpoint'[op[r].at]
      /\ checkpoint[op[r].at] => checkpoint'[op[r].at]
      /\ \A s \in Sessions : s # op[r].at =>
            checkpoint'[s] = checkpoint[s] /\ unfinished'[s] = unfinished[s]
  <2>1. PICK wrote \in BOOLEAN, left \in BOOLEAN :
           /\ checkpoint' = [checkpoint EXCEPT ![op[r].at] = @ \/ wrote]
           /\ unfinished' = [unfinished EXCEPT ![op[r].at] = @ \/ (wrote /\ left)]
    BY DEF Run
  <2>2. \A s \in Sessions : s # op[r].at =>
            checkpoint'[s] = checkpoint[s] /\ unfinished'[s] = unfinished[s]
    BY <2>1 DEF WorkOK
  <2>3. checkpoint'[op[r].at] = (checkpoint[op[r].at] \/ wrote)
    BY <1>1, <2>1, Zenon DEF WorkOK
  <2>4. unfinished'[op[r].at] = (unfinished[op[r].at] \/ (wrote /\ left))
    BY <1>1, <2>1, Zenon DEF WorkOK
  <2> QED
    BY <2>2, <2>3, <2>4
<1>6. Found(r)'
  BY <1>2, <1>3, <1>4 DEF Found
<1>7. ASSUME NEW q \in Requests, q # r PROVE Found(q)'
  <2>1. op[q].todo # <<>> => op[q].at \in Sessions
    BY DEF IInv, Kept
  <2>2. op[q].todo # <<>> /\ op[q].kind = "delete" => op[q].at # op[r].at
    BY <1>1, <1>2, <1>7, OneLocked DEF IInv, Locked
  <2> QED
    BY <1>1, <1>4, <1>5, <1>7, <2>1, <2>2, OthersFound DEF IInv
<1>8. UnfinishedKeepsThread'
  BY <1>1, <1>5 DEF IInv, UnfinishedKeepsThread
<1> QED
  BY <1>6, <1>7, <1>8

\* A deletion removes a session whose thread is gone, and that nobody uses
\* under the lock.
LEMMA RemoveStep ==
    ASSUME OpsOK, FilesOK, IInv, NEW r \in Requests, Remove(r)
    PROVE  (\A q \in Requests : Found(q)') /\ UnfinishedKeepsThread'
<1>1. /\ op[r].todo # <<>> /\ op[r].at \in Sessions
      /\ op[r].kind = "delete" /\ At(r, "remove")
      /\ UNCHANGED <<checkpoint, unfinished>> /\ Kept(r) /\ Found(r)
  BY HeadOf DEF Remove, IInv
<1>2. ~checkpoint[op[r].at] /\ ~unfinished[op[r].at]
  BY <1>1, Known
<1>3. \A s \in Sessions : s # op[r].at => meta'[s] = meta[s]
  BY DEF Remove, FilesOK
<1>4. /\ op'[r].kind = "delete" /\ op'[r].at = op[r].at
      /\ \A q \in Requests \ {r} :
            \/ op'[q] = op[q]
            \/ /\ At(q, "fillMeta")
               /\ op'[q].kind = op[q].kind /\ op'[q].at = op[q].at
  BY RemoveOps DEF IInv
<1>5. Found(r)'
  BY <1>1, <1>2, <1>4 DEF Found
<1>6. ASSUME NEW q \in Requests \ {r} PROVE Found(q)'
  <2>1. op[q].todo # <<>> => op[q].at \in Sessions
    BY DEF IInv, Kept
  <2>2. op[q].todo # <<>> /\ op[q].kind \in Locked => op[q].at # op[r].at
    BY <1>1, <1>6, OneLocked DEF IInv, Locked
  <2>3. CASE op'[q] = op[q]
    <3>1. op[q].kind \in Locked \ {"delete"} => op[q].kind \in Locked
      OBVIOUS
    <3> QED
      BY <1>1, <1>3, <1>6, <2>1, <2>2, <2>3, <3>1, OthersFound DEF IInv
  <2>4. CASE op'[q] # op[q]
    <3>1. At(q, "fillMeta") /\ op'[q].kind = op[q].kind /\ op'[q].at = op[q].at
      BY <1>4, <2>4
    <3>2. /\ op[q].kind \in Locked \ {"delete"} => meta[op[q].at] # "none"
          /\ op[q].kind # "delete"
      <4>1. "fillMeta" \in Needy(op[q].kind)
        BY DEF Needy
      <4> QED
        BY <3>1, <4>1, Known, HeadOf DEF IInv
    <3>3. op[q].todo # <<>>
      BY <3>1, HeadOf DEF IInv
    <3>4. op[q].kind \in Locked \ {"delete"} => meta'[op[q].at] # "none"
      BY <1>3, <2>1, <2>2, <3>2, <3>3
    <3> QED
      BY <3>1, <3>2, <3>4 DEF Found
  <2> QED
    BY <2>3, <2>4
<1>7. UnfinishedKeepsThread'
  BY <1>1, <1>2, <1>3 DEF IInv, UnfinishedKeepsThread
<1> QED
  BY <1>5, <1>6, <1>7

LEMMA UnlinkStep ==
    ASSUME OpsOK, IInv, NEW r \in Requests, Unlink(r)
    PROVE  (\A q \in Requests : Found(q)') /\ UnfinishedKeepsThread'
<1>1. UNCHANGED <<meta, checkpoint, unfinished>>
  BY DEF Unlink
<1>2. /\ op'[r].todo = <<>>
      /\ \A q \in Requests \ {r} :
            \/ op'[q] = op[q]
            \/ /\ At(q, "fillIndex")
               /\ op'[q].kind = op[q].kind /\ op'[q].at = op[q].at
               /\ op'[q].todo = <<"spill">> \o Tail(op[q].todo)
  BY UnlinkOps DEF IInv
<1>3. ASSUME NEW q \in Requests \ {r} PROVE Found(q)'
  <2>1. CASE op'[q] = op[q]
    BY <1>1, <2>1, OthersFound DEF IInv
  <2>2. CASE op'[q] # op[q]
    <3>1. /\ At(q, "fillIndex") /\ op'[q].kind = op[q].kind /\ op'[q].at = op[q].at
          /\ op'[q].todo = <<"spill">> \o Tail(op[q].todo)
      BY <1>2, <2>2
    <3>2. /\ op[q].todo # <<>> /\ op[q].todo \in Seq(Steps) /\ Head(op[q].todo) = "fillIndex"
      BY <3>1, HeadOf DEF IInv
    <3>3. op[q].kind = "delete" => ~unfinished[op[q].at] /\ ~checkpoint[op[q].at]
      BY <3>1, Known DEF IInv
    <3>4. op[q].kind \in Locked \ {"delete"} =>
             meta[op[q].at] # "none" \/ Looks(op[q].kind, <<"spill">> \o Tail(op[q].todo))
      BY <3>2, LooksSpill DEF IInv, Found, Look, Needy
    <3> HIDE DEF Locked
    <3> QED
      BY <1>1, <3>1, <3>3, <3>4 DEF Found
  <2> QED
    BY <2>1, <2>2
<1> QED
  BY <1>1, <1>2, <1>3 DEF Found, IInv, UnfinishedKeepsThread

LEMMA StartStep ==
    ASSUME OpsOK, IInv, NEW r \in Requests, NEW kind \in Kinds, NEW s \in Sessions,
           Start(r, kind, s)
    PROVE  (\A q \in Requests : Found(q)') /\ UnfinishedKeepsThread'
<1>1. UNCHANGED <<meta, checkpoint, unfinished>>
  BY DEF Start, files
<1>2. /\ op'[r].kind = kind /\ op'[r].todo = Script[kind]
      /\ \A q \in Requests \ {r} : op'[q] = op[q]
  BY StartOps DEF IInv
<1>3. kind = "delete" => Script[kind] = DeleteSteps
  BY DEF Script, Handlers
<1>4. Found(r)'
  BY <1>2, <1>3, ScriptLooks DEF Found
<1>5. ASSUME NEW q \in Requests \ {r} PROVE Found(q)'
  BY <1>1, <1>2, OthersFound DEF IInv
<1> QED
  BY <1>1, <1>4, <1>5 DEF IInv, UnfinishedKeepsThread

-----------------------------------------------------------------------------
(* Theorems                                                                 *)

\* All that was said holds together in every step.
LEMMA InvariantStep ==
    ASSUME TypeOK, IInv, Next
    PROVE  IInv'
<1> USE DEF TypeOK
<1>1. \A q \in Requests : Kept(q)'
  BY KeptStep DEF IInv
<1>2. ASSUME NEW r \in Requests, Step(r)
      PROVE  (\A q \in Requests : Found(q)') /\ UnfinishedKeepsThread'
  <2>1. CASE Get(r) \/ Load(r) \/ Find(r)
    BY <2>1, LookStep
  <2>2. CASE Check(r)
    BY <2>2, CheckStep
  <2>3. CASE Run(r)
    BY <2>3, RunStep
  <2>4. CASE Forget(r)
    BY <2>4, ForgetStep
  <2>5. CASE Remove(r)
    BY <2>5, RemoveStep
  <2>6. CASE Unlink(r)
    BY <2>6, UnlinkStep
  <2>7. CASE \/ AppendTo(r) \/ OpenMeta(r) \/ FillMeta(r) \/ Spill(r) \/ GetIndex(r)
             \/ OpenIndex(r) \/ FillIndex(r) \/ Scan(r)
    <3>1. GoesOn(r) /\ op[r].todo # <<>>
      BY <2>7, PlainGoesOn, IndexGoesOn DEF IInv, AppendTo, OpenMeta, FillMeta, Spill,
         GetIndex, OpenIndex, FillIndex, Scan, At, Idle
    <3>2. Head(op[r].todo) \notin {"get", "load", "find", "check", "forget"}
      BY <2>7 DEF AppendTo, OpenMeta, FillMeta, Spill, GetIndex, OpenIndex, FillIndex,
         Scan, At
    <3>5. Head(op[r].todo) \notin Look
      BY <3>2 DEF Look
    <3>3. \A s \in Sessions : meta[s] # "none" => meta'[s] # "none"
      <4>1. CASE UNCHANGED meta
        BY <4>1
      <4>2. CASE OpenMeta(r)
        BY <4>2 DEF OpenMeta, FilesOK
      <4>3. CASE FillMeta(r)
        <5>1. op[r].put \in Status
          BY DEF OpsOK, Ops
        <5> QED
          BY <4>3, <5>1 DEF FillMeta, FilesOK, Filled, Status
      <4> QED
        BY <2>7, <4>1, <4>2, <4>3 DEF AppendTo, Spill, GetIndex, OpenIndex, FillIndex,
           Scan, files
    <3>4. UNCHANGED <<checkpoint, unfinished>>
      BY <2>7 DEF AppendTo, OpenMeta, FillMeta, Spill, GetIndex, OpenIndex, FillIndex, Scan
    <3> QED
      BY <3>1, <3>2, <3>3, <3>4, <3>5, QuietStep
  <2> QED
    BY <1>2, <2>1, <2>2, <2>3, <2>4, <2>5, <2>6, <2>7 DEF Step
<1>3. ASSUME NEW r \in Requests, NEW kind \in Kinds, NEW s \in Sessions, Start(r, kind, s)
      PROVE  (\A q \in Requests : Found(q)') /\ UnfinishedKeepsThread'
  BY <1>3, StartStep
<1>4. ASSUME NEW s \in Sessions, Settle(s)
      PROVE  (\A q \in Requests : Found(q)') /\ UnfinishedKeepsThread'
  <2>1. UNCHANGED <<meta, checkpoint, op>> /\ unfinished' = [unfinished EXCEPT ![s] = FALSE]
    BY <1>4 DEF Settle, files
  <2>2. \A t \in Sessions : unfinished'[t] => unfinished[t]
    BY <2>1 DEF WorkOK
  <2>3. ASSUME NEW q \in Requests PROVE Found(q)'
    BY <2>1, <2>2, OthersFound DEF IInv, Kept
  <2> QED
    BY <2>1, <2>2, <2>3 DEF IInv, UnfinishedKeepsThread
<1>5. CASE Crash
  <2>1. \A q \in Requests : op'[q].todo = <<>>
    BY <1>5, NoOpTyped DEF Crash
  <2>2. \A s \in Sessions : meta[s] # "none" => meta'[s] # "none"
    BY <1>5 DEF Crash
  <2>3. UNCHANGED <<checkpoint, unfinished>>
    BY <1>5 DEF Crash
  <2> QED
    BY <1>1, <2>1, <2>2, <2>3 DEF Found, IInv, UnfinishedKeepsThread
<1> QED
  BY <1>1, <1>2, <1>3, <1>4, <1>5 DEF Next, IInv

LEMMA IdleStep ==
    ASSUME TypeOK, IInv, UNCHANGED vars
    PROVE  TypeOK' /\ IInv'
<1>1. TypeOK'
  BY DEF vars, files, past, TypeOK, FilesOK, WorkOK, OpsOK
<1>2. IInv'
  BY DEF vars, files, IInv, Kept, Found, UnfinishedKeepsThread
<1> QED
  BY <1>1, <1>2

LEMMA Beginning == Init => TypeOK /\ IInv
<1> SUFFICES ASSUME Init PROVE TypeOK /\ IInv
  OBVIOUS
<1>1. FilesOK
  BY DEF Init, FilesOK, MetaFiles, IndexFiles, Listing, NoListing
<1>2. OpsOK
  BY NoOpTyped DEF Init, OpsOK
<1>3. WorkOK
  BY DEF Init, WorkOK
<1>4. IInv
  BY NoOpTyped DEF Init, IInv, Kept, Found, UnfinishedKeepsThread
<1> QED
  BY <1>1, <1>2, <1>3, <1>4 DEF TypeOK

\* Every reachable state is well typed, and the requests know where they stand.
THEOREM InvariantCorrect == Spec => [](TypeOK /\ IInv)
<1>1. TypeOK /\ IInv /\ [Next]_vars => TypeOK' /\ IInv'
  BY KeptStep, FilesStep, WorkStep, InvariantStep, IdleStep DEF TypeOK, IInv
<1> QED
  BY <1>1, Beginning, PTL DEF Spec

\* Files, locks and what requests have still to do are well typed, whatever
\* requests overlap and wherever the process dies.
THEOREM TypeCorrect == Spec => []TypeOK
  BY InvariantCorrect, PTL

\* Only decisions on an approval whose resume failed leave the agent a thread whose
\* session is gone: delete_session forgets the thread first, under the lock that all
\* who run the agent need, and a turn looks for the session when it has it.
THEOREM NoOrphan == Spec => NoOrphanThread
<1> DEFINE Goal == \A s \in Sessions :
          Orphan(s)' /\ ~Orphan(s) =>
              \E r \in Requests : op[r].at = s /\ op[r].kind \in {"resume", "decide"}
                                    /\ At(r, "run") /\ op'[r] # op[r]
<1>1. ASSUME TypeOK, IInv, Next
      PROVE  Goal
  <2> SUFFICES ASSUME NEW s \in Sessions, checkpoint'[s], meta'[s] = "none",
                      ~(checkpoint[s] /\ meta[s] = "none")
               PROVE  \E r \in Requests : op[r].at = s /\ op[r].kind \in {"resume", "decide"}
                                            /\ At(r, "run") /\ op'[r] # op[r]
    BY DEF Orphan
  <2> USE <1>1 DEF TypeOK
  <2>1. \E r \in Requests : (Run(r) \/ Remove(r)) /\ op[r].at = s
    <3>1. CASE checkpoint[s]
      <4>1. meta[s] # "none"
        BY <3>1
      <4>2. ~Crash
        BY <4>1 DEF Crash
      <4>3. ASSUME NEW r \in Requests, OpenMeta(r) \/ FillMeta(r) PROVE FALSE
        <5>1. op[r].put \in Status
          BY DEF OpsOK, Ops
        <5> QED
          BY <4>1, <4>3, <5>1 DEF OpenMeta, FillMeta, FilesOK, Filled, Status
      <4>4. \E r \in Requests : Remove(r)
        BY <4>1, <4>2, <4>3 DEF Next, Step, Start, Get, Load, Check, Find, AppendTo, Run, Forget,
           Spill, GetIndex, OpenIndex, FillIndex, Scan, Unlink, Settle, files
      <4> QED
        BY <4>1, <4>4 DEF Remove, FilesOK
    <3>2. CASE ~checkpoint[s]
      <4>1. \E r \in Requests : Run(r)
        BY <3>2 DEF Next, Step, Start, Get, Load, Check, Find, AppendTo, Forget, OpenMeta, FillMeta,
           Spill, GetIndex, OpenIndex, FillIndex, Remove, Scan, Unlink, Settle, Crash, WorkOK
      <4> QED
        BY <3>2, <4>1 DEF Run, WorkOK
    <3> QED
      BY <3>1, <3>2
  <2>2. PICK r \in Requests : (Run(r) \/ Remove(r)) /\ op[r].at = s
    BY <2>1
  <2>3. Kept(r) /\ Found(r) /\ OpsOK
    BY DEF IInv
  <2>4. ~Remove(r)
    <3> SUFFICES ASSUME Remove(r) PROVE FALSE
      OBVIOUS
    <3>1. At(r, "remove") /\ UNCHANGED checkpoint
      BY DEF Remove
    <3>2. ~checkpoint[s]
      BY <2>2, <2>3, <3>1, HeadOf, Known
    <3> QED
      BY <3>1, <3>2
  <2>5. At(r, "run") /\ meta[s] = "none"
    BY <2>2, <2>4 DEF Run
  <2>6. op[r].kind \in {"resume", "decide"}
    <3>1. op[r].kind \in {"turn", "decide", "resume"}
      BY <2>2, <2>3, <2>4, RunTakesUp DEF Runners, AfterRun
    <3>2. op[r].kind \notin {"resume", "decide"} => "run" \in Needy(op[r].kind)
      BY DEF Needy
    <3>3. op[r].kind \in Locked \ {"delete"}
      BY <3>1 DEF Locked
    <3> QED
      BY <2>2, <2>3, <2>5, <3>1, <3>2, <3>3, Known
  <2>7. op'[r] # op[r]
    <3>1. op'[r].todo = <<>> \/ op'[r].todo \in AfterRun[op[r].kind]
      BY <2>2, <2>3, <2>4, RunTakesUp, BecomesOne, NoOpTyped DEF TakesUp
    <3>2. op[r].kind \in Runners
      BY <2>6 DEF Runners, AfterRun
    <3>3. \A x \in AfterRun[op[r].kind] : x = <<>> \/ Head(x) # "run"
      BY <3>2, AfterRunHead
    <3> QED
      BY <2>3, <2>5, <3>1, <3>3, HeadOf
  <2> QED
    BY <2>2, <2>5, <2>6, <2>7
<1>2. TypeOK /\ IInv /\ [Next]_vars => [Goal]_vars
  BY <1>1
<1> QED
  BY <1>2, InvariantCorrect, PTL DEF Spec, NoOrphanThread

\* A pending approval or an open task never loses its thread to a deletion:
\* _assert_no_unfinished_items is asked under the run lock.
THEOREM ThreadKept == Spec => []UnfinishedKeepsThread
<1>1. TypeOK /\ IInv => UnfinishedKeepsThread
  BY DEF IInv
<1> QED
  BY <1>1, InvariantCorrect, PTL

\* A deleted session comes back by a request that holds no run lock only: a
\* restore or the receipt of a decision made twice, that had looked at it before.
THEOREM BackByOthers == Spec => BackBehindTheLock
<1> DEFINE Goal == \A s \in Sessions :
          meta[s] = "none" /\ meta'[s] # "none" =>
              \E r \in Requests : op[r].at = s /\ op[r].kind \in {"create", "restore", "receipt"}
                                    /\ op'[r] # op[r]
<1>1. ASSUME TypeOK, IInv, Next
      PROVE  Goal
  <2> SUFFICES ASSUME NEW s \in Sessions, meta[s] = "none", meta'[s] # "none"
               PROVE  \E r \in Requests :
                         /\ op[r].at = s /\ op[r].kind \in {"create", "restore", "receipt"}
                         /\ op'[r] # op[r]
    OBVIOUS
  <2> USE <1>1 DEF TypeOK
  <2>1. ~Crash
    BY DEF Crash
  <2>2. \E r \in Requests : (OpenMeta(r) \/ FillMeta(r)) /\ op[r].at = s
    BY <2>1 DEF Next, Step, Start, Get, Load, Check, Find, AppendTo, Run, Forget, OpenMeta, FillMeta,
       Spill, GetIndex, OpenIndex, FillIndex, Remove, Scan, Unlink, Settle, files, FilesOK
  <2>3. PICK r \in Requests : (OpenMeta(r) \/ FillMeta(r)) /\ op[r].at = s
    BY <2>2
  <2>4. PICK step \in {"openMeta", "fillMeta"} : At(r, step)
    BY <2>3 DEF OpenMeta, FillMeta
  <2>5. Kept(r) /\ Found(r) /\ OpsOK
    BY DEF IInv
  <2>6. op[r].kind \notin Locked \ {"delete"}
    <3>1. step \in Needy(op[r].kind)
      BY DEF Needy
    <3> QED
      BY <2>3, <2>4, <2>5, <3>1, Known
  <2>7. /\ op[r].kind # "delete" /\ op[r].todo # <<>> /\ op[r].todo \in Seq(Steps)
    BY <2>4, <2>5, HeadOf
  <2>8. op[r].kind \in {"create", "restore", "receipt"}
    <3>1. op[r].kind # "refresh"
      BY <2>4, <2>5, HeadOf
    <3> QED
      BY <2>5, <2>6, <2>7, <3>1 DEF Kept, Kinds, Script, Handlers, Locked
  <2>9. op'[r] # op[r]
    <3>1. Tail(op[r].todo) # op[r].todo
      BY <2>7, TailShorter
    <3>2. PICK new \in Ops :
             /\ Becomes(r, new)
             /\ \/ new.todo = <<>>
                \/ new.kind = op[r].kind /\ new.at = op[r].at /\ new.todo = Tail(op[r].todo)
      BY <2>3, <2>5, PlainGoesOn DEF GoesOn
    <3> QED
      BY <2>5, <2>7, <3>1, <3>2, BecomesOne, NoOpTyped
  <2> QED
    BY <2>3, <2>8, <2>9
<1>2. TypeOK /\ IInv /\ [Next]_vars => [Goal]_vars
  BY <1>1
<1> QED
  BY <1>2, InvariantCorrect, PTL DEF Spec, BackBehindTheLock

-----------------------------------------------------------------------------
(* The index                                                                *)

\* The step that has to follow a step of a request that writes, if any.
Then(kind, step) ==
    IF kind = "delete"
    THEN CASE step = "getIndex"  -> "openIndex"
           [] step = "openIndex" -> "fillIndex"
           [] step = "fillIndex" -> "remove"
           [] step = "remove"    -> "scan"
           [] step = "scan"      -> "unlink"
           [] OTHER              -> "any"
    ELSE CASE step = "openMeta"  -> "fillMeta"
           [] step = "fillMeta"  -> "getIndex"
           [] step = "getIndex"  -> "openIndex"
           [] step = "openIndex" -> "fillIndex"
           [] OTHER              -> "any"

\* The steps inside a write: none of them comes without the one before.
Inner(kind) ==
    IF kind = "delete" THEN {"openIndex", "fillIndex", "remove", "scan", "unlink"}
    ELSE {"fillMeta", "getIndex", "openIndex", "fillIndex"}

\* A write, once begun, is carried through in its order; nothing spills.
Ordered(kind, todo) ==
    \A i \in 1..Len(todo) :
        /\ todo[i] # "spill"
        /\ Then(kind, todo[i]) # "any" =>
              i < Len(todo) /\ todo[i + 1] = Then(kind, todo[i])
        /\ Then(kind, todo[i]) = "any" /\ i < Len(todo) => todo[i + 1] \notin Inner(kind)

InOrder(r) == op[r].todo # <<>> => Ordered(op[r].kind, op[r].todo)

\* The index as it should be between the writes, and but for one session.
Whole  == index.file \in {"none", "kept"}
InStep == Whole /\ index.shown = meta
Agrees(shown, s) == \A t \in Sessions \ {s} : shown[t] = meta[t]

\* How far the only request that writes has come.
Half(r) ==
    LET s == op[r].at IN
    /\ At(r, "fillMeta") => Whole /\ meta[s] = "empty" /\ Agrees(index.shown, s)
    /\ At(r, "getIndex") => Whole /\ meta[s] = op[r].put /\ Agrees(index.shown, s)
    /\ At(r, "openIndex") \/ At(r, "fillIndex") =>
          /\ op[r].kind # "delete" => meta[s] = op[r].put
          /\ Agrees(op[r].read, s)
    /\ At(r, "fillIndex") => index.file = "empty"
    /\ At(r, "remove") => Whole /\ index.shown[s] = "none" /\ Agrees(index.shown, s)
    /\ At(r, "scan") => InStep
    /\ At(r, "unlink") => \A t \in Sessions : meta[t] = "none"

\* As long as it is calm, the index is behind by what one request has begun.
IndexInv ==
    calm =>
        /\ OneWrites
        /\ \A r \in Requests : InOrder(r)
        /\ (\A r \in Requests : ~Writing(r)) => InStep
        /\ \A r \in Requests : Writing(r) => Half(r)

\* What follows the first step of a list in order, and that the rest is in order.
LEMMA OrderedTail ==
    ASSUME NEW kind, NEW todo \in Seq(Steps), todo # <<>>, Ordered(kind, todo)
    PROVE  /\ Tail(todo) \in Seq(Steps) /\ Ordered(kind, Tail(todo))
           /\ Head(todo) # "spill"
           /\ Then(kind, Head(todo)) # "any" =>
                 Tail(todo) # <<>> /\ Head(Tail(todo)) = Then(kind, Head(todo))
           /\ Then(kind, Head(todo)) = "any" =>
                 Tail(todo) = <<>> \/ Head(Tail(todo)) \notin Inner(kind)
<1>1. /\ Tail(todo) \in Seq(Steps) /\ Len(Tail(todo)) = Len(todo) - 1
      /\ Len(todo) \in Nat /\ Len(todo) >= 1
      /\ \A i \in 1..Len(Tail(todo)) : Tail(todo)[i] = todo[i + 1] /\ i + 1 \in 1..Len(todo)
  OBVIOUS
<1>2. Ordered(kind, Tail(todo))
  <2> SUFFICES ASSUME NEW i \in 1..Len(Tail(todo))
               PROVE  /\ Tail(todo)[i] # "spill"
                      /\ Then(kind, Tail(todo)[i]) # "any" =>
                            /\ i < Len(Tail(todo))
                            /\ Tail(todo)[i + 1] = Then(kind, Tail(todo)[i])
                      /\ Then(kind, Tail(todo)[i]) = "any" /\ i < Len(Tail(todo)) =>
                            Tail(todo)[i + 1] \notin Inner(kind)
    BY DEF Ordered
  <2>1. Tail(todo)[i] = todo[i + 1] /\ i + 1 \in 1..Len(todo)
    BY <1>1
  <2>2. i < Len(Tail(todo)) <=> i + 1 < Len(todo)
    BY <1>1
  <2>3. i < Len(Tail(todo)) => i + 1 \in 1..Len(Tail(todo)) /\ Tail(todo)[i + 1] = todo[(i + 1) + 1]
    BY <1>1
  <2>4. /\ todo[i + 1] # "spill"
        /\ Then(kind, todo[i + 1]) # "any" =>
              i + 1 < Len(todo) /\ todo[(i + 1) + 1] = Then(kind, todo[i + 1])
        /\ Then(kind, todo[i + 1]) = "any" /\ i + 1 < Len(todo) =>
              todo[(i + 1) + 1] \notin Inner(kind)
    BY <2>1 DEF Ordered
  <2> QED
    BY <2>1, <2>2, <2>3, <2>4
<1>3. Head(todo) = todo[1] /\ 1 \in 1..Len(todo)
  BY <1>1
<1>4. /\ Len(todo) > 1 => Tail(todo) # <<>> /\ Head(Tail(todo)) = todo[1 + 1]
      /\ ~(1 < Len(todo)) => Tail(todo) = <<>>
  <2>1. CASE Len(todo) > 1
    <3>1. Len(Tail(todo)) >= 1 /\ 1 \in 1..Len(Tail(todo))
      BY <1>1, <2>1
    <3>2. Tail(todo) # <<>> /\ Head(Tail(todo)) = Tail(todo)[1]
      <4>1. ASSUME NEW t \in Seq(Steps), Len(t) >= 1 PROVE t # <<>> /\ Head(t) = t[1]
        BY <4>1
      <4> QED
        BY <1>1, <3>1, <4>1
    <3> QED
      BY <1>1, <2>1, <3>1, <3>2
  <2>2. CASE ~(Len(todo) > 1)
    <3>1. Len(Tail(todo)) = 0
      BY <1>1, <2>2
    <3> QED
      BY <1>1, <2>2, <3>1
  <2> QED
    BY <2>1, <2>2
<1>5. /\ todo[1] # "spill"
      /\ Then(kind, todo[1]) # "any" => 1 < Len(todo) /\ todo[1 + 1] = Then(kind, todo[1])
      /\ Then(kind, todo[1]) = "any" /\ 1 < Len(todo) => todo[1 + 1] \notin Inner(kind)
  BY <1>3 DEF Ordered
<1> QED
  BY <1>1, <1>2, <1>3, <1>4, <1>5

\* Two lists in order are in order one after the other, unless the second
\* begins inside a write.
LEMMA ConcatOrdered ==
    ASSUME NEW kind, NEW s \in Seq(Steps), NEW t \in Seq(Steps),
           Ordered(kind, s), Ordered(kind, t), t = <<>> \/ Head(t) \notin Inner(kind)
    PROVE  Ordered(kind, s \o t)
<1>1. /\ s \o t \in Seq(Steps) /\ Len(s \o t) = Len(s) + Len(t)
      /\ Len(s) \in Nat /\ Len(t) \in Nat
  OBVIOUS
<1>2. ASSUME NEW i \in 1..Len(s) PROVE (s \o t)[i] = s[i]
  OBVIOUS
<1>3. ASSUME NEW i \in 1..Len(t) PROVE (s \o t)[Len(s) + i] = t[i]
  OBVIOUS
<1>4. t # <<>> => 1 \in 1..Len(t) /\ Head(t) = t[1]
  OBVIOUS
<1>5. ASSUME NEW i \in 1..Len(s \o t)
      PROVE  /\ (s \o t)[i] # "spill"
             /\ Then(kind, (s \o t)[i]) # "any" =>
                   i < Len(s \o t) /\ (s \o t)[i + 1] = Then(kind, (s \o t)[i])
             /\ Then(kind, (s \o t)[i]) = "any" /\ i < Len(s \o t) =>
                   (s \o t)[i + 1] \notin Inner(kind)
  <2>1. CASE i < Len(s)
    <3>1. i \in 1..Len(s) /\ i + 1 \in 1..Len(s) /\ i < Len(s \o t)
      BY <1>1, <2>1
    <3>2. (s \o t)[i] = s[i] /\ (s \o t)[i + 1] = s[i + 1]
      BY <1>2, <3>1
    <3> QED
      BY <2>1, <3>1, <3>2 DEF Ordered
  <2>2. CASE i = Len(s)
    <3>1. i \in 1..Len(s) /\ ~(i < Len(s))
      BY <1>1, <2>2
    <3>2. (s \o t)[i] = s[i] /\ s[i] # "spill" /\ Then(kind, s[i]) = "any"
      BY <1>2, <3>1 DEF Ordered
    <3>3. i < Len(s \o t) => (s \o t)[i + 1] = t[1] /\ t # <<>>
      BY <1>1, <1>3, <2>2
    <3> QED
      BY <1>4, <3>2, <3>3
  <2>3. CASE i > Len(s)
    <3> DEFINE j == i - Len(s)
    <3>1. j \in 1..Len(t) /\ i = Len(s) + j /\ (i < Len(s \o t) <=> j < Len(t))
      BY <1>1, <2>3
    <3>2. (s \o t)[i] = t[j]
      BY <1>3, <3>1
    <3>3. j < Len(t) => j + 1 \in 1..Len(t) /\ i + 1 = Len(s) + (j + 1)
      BY <1>1, <3>1
    <3>4. j < Len(t) => (s \o t)[i + 1] = t[j + 1]
      BY <1>3, <3>3
    <3>5. /\ t[j] # "spill"
          /\ Then(kind, t[j]) # "any" => j < Len(t) /\ t[j + 1] = Then(kind, t[j])
          /\ Then(kind, t[j]) = "any" /\ j < Len(t) => t[j + 1] \notin Inner(kind)
      BY <3>1 DEF Ordered
    <3> HIDE DEF j
    <3> QED
      BY <3>1, <3>2, <3>4, <3>5
  <2> QED
    BY <1>1, <2>1, <2>2, <2>3
<1> QED
  BY <1>5 DEF Ordered

\* save_session and the upsert after it.
LEMMA SavesInOrder ==
    /\ SaveSteps \in Seq(Steps)
    /\ \A kind \in Kinds \ {"delete"} : Ordered(kind, SaveSteps) /\ Head(SaveSteps) \notin Inner(kind)
<1>1. SaveSteps \in Seq(Steps) /\ Len(SaveSteps) = 5 /\ Head(SaveSteps) = "openMeta"
  BY DEF SaveSteps, Steps
<1>2. 1..5 = {1, 2, 3, 4, 5}
  OBVIOUS
<1>3. /\ SaveSteps[1] = "openMeta" /\ SaveSteps[2] = "fillMeta" /\ SaveSteps[3] = "getIndex"
      /\ SaveSteps[4] = "openIndex" /\ SaveSteps[5] = "fillIndex"
  BY DEF SaveSteps
<1>4. ASSUME NEW kind, kind # "delete" PROVE Ordered(kind, SaveSteps)
  BY <1>1, <1>2, <1>3, <1>4 DEF Ordered, Then, Inner
<1> QED
  BY <1>1, <1>4 DEF Inner

LEMMA AppendingInOrder ==
    \A kind \in Kinds \ {"delete"} : Ordered(kind, Appending)
<1>1. /\ <<"load", "append">> \in Seq(Steps)
      /\ \A k \in Kinds \ {"delete"} : Ordered(k, <<"load", "append">>)
  BY DEF Steps, Ordered, Then, Inner
<1> QED
  BY <1>1, SavesInOrder, ConcatOrdered DEF Appending

\* What a request has to do is in order, and does not begin inside a write.
LEMMA ScriptInOrder ==
    ASSUME NEW kind \in Kinds
    PROVE  Ordered(kind, Script[kind]) /\ Head(Script[kind]) \notin Inner(kind)
<1>1. /\ <<"check", "get">> \in Seq(Steps) /\ <<"get">> \in Seq(Steps)
      /\ <<"append">> \in Seq(Steps) /\ <<"run">> \in Seq(Steps)
      /\ <<"find", "append", "get", "append">> \in Seq(Steps)
      /\ \A k \in Kinds \ {"delete"} :
            /\ Ordered(k, <<"check", "get">>) /\ Ordered(k, <<"get">>)
            /\ Ordered(k, <<"append">>) /\ Ordered(k, <<"run">>)
            /\ Ordered(k, <<"find", "append", "get", "append">>)
            /\ Ordered(k, <<"find", "append", "run">>) /\ Ordered(k, <<"get", "append">>)
  BY DEF Steps, Ordered, Then, Inner
<1>2. \A k : {"get", "load", "check", "find", "append", "run"} \cap Inner(k) = {}
  BY DEF Inner
<1>3. CASE kind = "create"
  BY <1>3, SavesInOrder DEF Script, Handlers
<1>4. CASE kind = "archive"
  <2>1. Ordered(kind, ArchiveSteps)
    BY <1>1, <1>4, SavesInOrder, ConcatOrdered DEF ArchiveSteps
  <2>2. Head(ArchiveSteps) = "check"
    BY DEF ArchiveSteps, SaveSteps
  <2> QED
    BY <1>2, <1>4, <2>1, <2>2 DEF Script, Handlers
<1>5. CASE kind = "restore"
  <2>1. Ordered(kind, RestoreSteps)
    BY <1>1, <1>5, SavesInOrder, ConcatOrdered DEF RestoreSteps
  <2>2. Head(RestoreSteps) = "get"
    BY DEF RestoreSteps, SaveSteps
  <2> QED
    BY <1>2, <1>5, <2>1, <2>2 DEF Script, Handlers
<1>6. CASE kind \in {"turn", "receipt"}
  <2>1. Head(<<"run">>) = "run" /\ Head(<<"append">>) = "append"
    OBVIOUS
  <2>2. Ordered(kind, TurnSteps) /\ Ordered(kind, ReceiptSteps)
    BY <1>1, <1>2, <1>6, <2>1, SavesFit, AppendingInOrder, ConcatOrdered DEF TurnSteps, ReceiptSteps
  <2>3. Head(TurnSteps) = "load" /\ Head(ReceiptSteps) = "load"
    BY DEF TurnSteps, ReceiptSteps, Appending, SaveSteps
  <2> QED
    BY <1>2, <1>6, <2>2, <2>3 DEF Script, Handlers
<1>7. CASE kind = "notice"
  <2>1. Ordered(kind, NoticeSteps)
    BY <1>1, <1>7, SavesInOrder, ConcatOrdered DEF NoticeSteps
  <2>2. Head(NoticeSteps) = "find"
    BY DEF NoticeSteps, SaveSteps
  <2> QED
    BY <1>2, <1>7, <2>1, <2>2 DEF Script, Handlers
<1>8. CASE kind \in {"decide", "resume", "refresh"}
  <2>1. /\ Head(<<"find", "append", "run">>) = "find" /\ Head(<<"run">>) = "run"
        /\ Head(<<"get", "append">>) = "get"
    OBVIOUS
  <2> QED
    BY <1>1, <1>2, <1>8, <2>1 DEF Script, Handlers
<1>9. CASE kind = "delete"
  <2>1. Ordered("delete", DeleteSteps)
    <3>1. Len(DeleteSteps) = 10 /\ 1..10 = {1, 2, 3, 4, 5, 6, 7, 8, 9, 10}
      BY DEF DeleteSteps
    <3>2. /\ DeleteSteps[1] = "check" /\ DeleteSteps[2] = "get" /\ DeleteSteps[3] = "forget"
          /\ DeleteSteps[4] = "get" /\ DeleteSteps[5] = "getIndex"
          /\ DeleteSteps[6] = "openIndex" /\ DeleteSteps[7] = "fillIndex"
          /\ DeleteSteps[8] = "remove" /\ DeleteSteps[9] = "scan" /\ DeleteSteps[10] = "unlink"
      BY DEF DeleteSteps
    <3> QED
      BY <3>1, <3>2 DEF Ordered, Then, Inner
  <2> QED
    BY <1>2, <1>9, <2>1, Beginnings DEF Script, Handlers
<1> QED
  BY <1>3, <1>4, <1>5, <1>6, <1>7, <1>8, <1>9 DEF Kinds, Script, Handlers

\* So is what follows a run.
LEMMA AfterRunInOrder ==
    ASSUME NEW kind \in Runners, NEW rest \in AfterRun[kind]
    PROVE  Ordered(kind, rest) /\ (rest = <<>> \/ Head(rest) \notin Inner(kind))
<1>1. kind \in {"turn", "decide", "resume"} /\ kind \in Kinds \ {"delete"}
  BY DEF Runners, AfterRun, Kinds, Script, Handlers
<1>2. Record \in Seq(Steps) /\ Head(Record) = "append" /\ Ordered(kind, Record)
  BY <1>1 DEF Record, Steps, Ordered, Then, Inner
<1>3. Ordered(kind, <<>>) /\ <<>> \in Seq(Steps)
  BY DEF Ordered
<1>4. Head(Appending) = "load" /\ Appending # <<>> /\ Appending \in Seq(Steps)
  BY SavesFit DEF Appending, SaveSteps
<1>5. {"load", "append"} \cap Inner(kind) = {}
  BY DEF Inner
<1>6. ASSUME NEW x \in Answers
      PROVE  /\ x \in Seq(Steps) /\ Ordered(kind, x)
             /\ x = <<>> \/ Head(x) \notin Inner(kind)
  <2>1. Ordered(kind, Appending) /\ Ordered(kind, Appending \o Record)
    BY <1>1, <1>2, <1>4, <1>5, AppendingInOrder, ConcatOrdered
  <2>2. Appending \o Record \in Seq(Steps) /\ Head(Appending \o Record) = "load"
    BY <1>2, <1>4 DEF Appending, SaveSteps, Record
  <2> QED
    BY <1>2, <1>3, <1>4, <1>5, <2>1, <2>2 DEF Answers
<1>7. ASSUME NEW x \in Answers
      PROVE  Ordered(kind, Record \o x) /\ Head(Record \o x) = "append"
  <2>1. Head(Record \o x) = "append"
    BY <1>6 DEF Record
  <2> QED
    BY <1>2, <1>6, <2>1, ConcatOrdered
<1>8. CASE kind = "resume"
  <2>1. PICK x \in Answers : rest = Record \o x
    BY <1>8 DEF AfterRun
  <2> QED
    BY <1>5, <1>7, <2>1
<1>9. CASE kind # "resume"
  <2>1. rest \in Answers
    BY <1>1, <1>9 DEF AfterRun
  <2> QED
    BY <1>6, <2>1
<1> QED
  BY <1>8, <1>9

\* To write is to be inside a write.
LEMMA WritesInside ==
    ASSUME OpsOK, NEW r \in Requests, Kept(r)
    PROVE  Writing(r) <=> op[r].todo # <<>> /\ Head(op[r].todo) \in Inner(op[r].kind)
<1>1. CASE op[r].todo = <<>>
  BY <1>1 DEF Writing, Idle
<1>2. CASE op[r].todo # <<>>
  <2>1. At(r, Head(op[r].todo))
    BY <1>2 DEF At, Idle
  <2>2. /\ Head(op[r].todo) \in {"remove", "scan", "unlink"} => op[r].kind = "delete"
        /\ Head(op[r].todo) = "fillMeta" => op[r].kind # "delete"
    BY <2>1, HeadOf
  <2> QED
    BY <1>2, <2>2 DEF Writing, Idle, Inner
<1> QED
  BY <1>1, <1>2

\* Where a request that goes on stands then.
LEMMA GoesOnInOrder ==
    ASSUME OpsOK, NEW r \in Requests, Kept(r), InOrder(r), op[r].todo # <<>>, GoesOn(r),
           Kept(r)', OpsOK'
    PROVE  /\ InOrder(r)'
           /\ Then(op[r].kind, Head(op[r].todo)) = "any" => ~Writing(r)'
<1>1. op[r].todo \in Seq(Steps) /\ Ordered(op[r].kind, op[r].todo)
  BY DEF OpsOK, Ops, InOrder
<1>2. PICK new \in Ops :
         /\ Becomes(r, new)
         /\ \/ new.todo = <<>>
            \/ new.kind = op[r].kind /\ new.at = op[r].at /\ new.todo = Tail(op[r].todo)
  BY DEF GoesOn
<1>3. op'[r] = IF new.todo = <<>> THEN NoOp ELSE new
  BY <1>2, BecomesOne
<1>4. Writing(r)' => op'[r].todo # <<>> /\ Head(op'[r].todo) \in Inner(op'[r].kind)
  <2>1. (Writing(r) <=> op[r].todo # <<>> /\ Head(op[r].todo) \in Inner(op[r].kind))'
    BY WritesInside, PTL
  <2> QED
    BY <2>1
<1>5. CASE op'[r].todo = <<>>
  BY <1>4, <1>5 DEF InOrder
<1>6. CASE op'[r].todo # <<>>
  <2>1. op'[r].kind = op[r].kind /\ op'[r].todo = Tail(op[r].todo)
    BY <1>2, <1>3, <1>6, NoOpTyped
  <2> QED
    BY <1>1, <1>4, <1>6, <2>1, OrderedTail DEF InOrder
<1> QED
  BY <1>5, <1>6

\* The next step of a request that is inside a write, or about to begin one.
LEMMA AdvanceTo ==
    ASSUME OpsOK, NEW r \in Requests, Kept(r), InOrder(r), NEW step, At(r, step),
           Then(op[r].kind, step) # "any", NEW new \in Ops, Becomes(r, new),
           new.todo = Tail(op[r].todo)
    PROVE  op'[r] = new /\ \A other : At(r, other)' <=> other = Then(op[r].kind, step)
<1>1. op[r].todo # <<>> /\ op[r].todo \in Seq(Steps) /\ Head(op[r].todo) = step
  BY HeadOf
<1>2. Tail(op[r].todo) # <<>> /\ Head(Tail(op[r].todo)) = Then(op[r].kind, step)
  BY <1>1, OrderedTail DEF InOrder
<1>3. op'[r] = new
  BY <1>2, BecomesOne
<1> QED
  BY <1>2, <1>3 DEF At, Idle

\* The last step of a write, or a request that ends.
LEMMA AdvanceOut ==
    ASSUME OpsOK, NEW r \in Requests, Kept(r), InOrder(r), NEW step, At(r, step),
           Then(op[r].kind, step) = "any", NEW new \in Ops, Becomes(r, new),
           new.kind = op[r].kind, new.at = op[r].at, new.todo = Tail(op[r].todo),
           OpsOK', Kept(r)'
    PROVE  ~Writing(r)'
<1>1. op[r].todo # <<>> /\ Head(op[r].todo) = step
  BY HeadOf
<1>2. GoesOn(r)
  BY DEF GoesOn
<1> QED
  BY <1>1, <1>2, GoesOnInOrder

\* meta.json is written, and only the entry of its session is behind.
LEMMA FillMetaIndex ==
    ASSUME OpsOK, FilesOK, NEW r \in Requests, Kept(r), InOrder(r), Half(r), FillMeta(r)
    PROVE  Half(r)' /\ Writing(r)'
<1> DEFINE s   == op[r].at
           new == [op[r] EXCEPT !.todo = Tail(@)]
<1>1. /\ At(r, "fillMeta") /\ s \in Sessions /\ op[r].kind # "delete"
      /\ op[r] \in Ops /\ op[r].todo # <<>> /\ op[r].todo \in Seq(Steps)
  BY HeadOf DEF FillMeta, OpsOK
<1>2. meta[s] = "empty" /\ Whole /\ Agrees(index.shown, s)
  BY <1>1 DEF Half
<1>3. meta' = [meta EXCEPT ![s] = op[r].put] /\ UNCHANGED index
  BY <1>2 DEF FillMeta, Filled
<1>4. /\ new \in Ops /\ new.kind = op[r].kind /\ new.at = s /\ new.put = op[r].put
      /\ new.todo = Tail(op[r].todo)
  <2>1. Tail(op[r].todo) \in Seq(Steps)
    BY <1>1
  <2> QED
    BY <1>1, <2>1 DEF Ops
<1>5. Becomes(r, new)
  BY DEF FillMeta, Advance
<1>6. Then(op[r].kind, "fillMeta") = "getIndex"
  BY <1>1 DEF Then
<1> HIDE DEF new
<1>7. op'[r] = new /\ \A other : At(r, other)' <=> other = "getIndex"
  BY <1>1, <1>4, <1>5, <1>6, AdvanceTo
<1>8. Whole' /\ meta'[s] = op[r].put /\ \A t \in Sessions \ {s} : index'.shown[t] = meta'[t]
  BY <1>1, <1>2, <1>3 DEF Whole, Agrees, FilesOK
<1> QED
  BY <1>1, <1>4, <1>7, <1>8 DEF Half, Agrees, Writing, At, Idle

\* A save begins at an index that is in step.
LEMMA OpenMetaIndex ==
    ASSUME OpsOK, FilesOK, NEW r \in Requests, Kept(r), InOrder(r), InStep, OpenMeta(r)
    PROVE  Half(r)' /\ Writing(r)'
<1> DEFINE s   == op[r].at
           new == [op[r] EXCEPT !.todo = Tail(@)]
<1>1. /\ At(r, "openMeta") /\ s \in Sessions /\ op[r].kind # "delete"
      /\ op[r] \in Ops /\ op[r].todo # <<>> /\ op[r].todo \in Seq(Steps)
  BY HeadOf DEF OpenMeta, OpsOK
<1>2. meta' = [meta EXCEPT ![s] = "empty"] /\ UNCHANGED index
  BY DEF OpenMeta
<1>3. /\ new \in Ops /\ new.kind = op[r].kind /\ new.at = s /\ new.todo = Tail(op[r].todo)
  <2>1. Tail(op[r].todo) \in Seq(Steps)
    BY <1>1
  <2> QED
    BY <1>1, <2>1 DEF Ops
<1>4. Becomes(r, new)
  BY DEF OpenMeta, Advance
<1>5. Then(op[r].kind, "openMeta") = "fillMeta"
  BY <1>1 DEF Then
<1> HIDE DEF new
<1>6. op'[r] = new /\ \A other : At(r, other)' <=> other = "fillMeta"
  BY <1>1, <1>3, <1>4, <1>5, AdvanceTo
<1>7. Whole' /\ meta'[s] = "empty" /\ \A t \in Sessions \ {s} : index'.shown[t] = meta'[t]
  BY <1>1, <1>2 DEF InStep, Whole, FilesOK
<1> QED
  BY <1>3, <1>6, <1>7 DEF Half, Agrees, Writing, At, Idle

\* What is read of the index is what it shows, and nobody changes it after.
LEMMA GetIndexIndex ==
    ASSUME OpsOK, FilesOK, NEW r \in Requests, Kept(r), InOrder(r), GetIndex(r),
           op[r].kind = "delete" => InStep, Writing(r) => Half(r)
    PROVE  Half(r)' /\ Writing(r)'
<1> DEFINE s   == op[r].at
           new == [op[r] EXCEPT !.read = index.shown, !.todo = Tail(@)]
<1>1. /\ At(r, "getIndex") /\ s \in Sessions
      /\ op[r] \in Ops /\ op[r].todo # <<>> /\ op[r].todo \in Seq(Steps)
  BY HeadOf DEF GetIndex, OpsOK
<1>2. /\ Whole /\ Agrees(index.shown, s)
      /\ op[r].kind # "delete" => meta[s] = op[r].put
  <2>1. CASE op[r].kind = "delete"
    BY <2>1 DEF InStep, Agrees
  <2>2. CASE op[r].kind # "delete"
    <3>1. Writing(r)
      BY <1>1, <2>2 DEF Writing, At
    <3> QED
      BY <1>1, <3>1 DEF Half
  <2> QED
    BY <2>1, <2>2
<1>3. Becomes(r, new) /\ UNCHANGED <<meta, index>>
  BY <1>2 DEF GetIndex, Whole, files
<1>4. /\ new \in Ops /\ new.kind = op[r].kind /\ new.at = s /\ new.put = op[r].put
      /\ new.read = index.shown /\ new.todo = Tail(op[r].todo)
  <2>1. Tail(op[r].todo) \in Seq(Steps)
    BY <1>1
  <2> QED
    BY <1>1, <2>1 DEF Ops, FilesOK
<1>5. Then(op[r].kind, "getIndex") = "openIndex"
  BY DEF Then
<1> HIDE DEF new
<1>6. op'[r] = new /\ \A other : At(r, other)' <=> other = "openIndex"
  BY <1>1, <1>3, <1>4, <1>5, AdvanceTo
<1> QED
  BY <1>2, <1>3, <1>4, <1>6 DEF Half, Agrees, Writing, At, Idle

\* The index is emptied by the one who has just read it.
LEMMA OpenIndexIndex ==
    ASSUME OpsOK, FilesOK, NEW r \in Requests, Kept(r), InOrder(r), Half(r), OpenIndex(r)
    PROVE  Half(r)' /\ Writing(r)'
<1> DEFINE s   == op[r].at
           new == [op[r] EXCEPT !.todo = Tail(@)]
<1>1. /\ At(r, "openIndex") /\ s \in Sessions
      /\ op[r] \in Ops /\ op[r].todo # <<>> /\ op[r].todo \in Seq(Steps)
  BY HeadOf DEF OpenIndex, OpsOK
<1>2. Agrees(op[r].read, s) /\ (op[r].kind # "delete" => meta[s] = op[r].put)
  BY <1>1 DEF Half
<1>3. index'.file = "empty" /\ UNCHANGED meta /\ Becomes(r, new)
  BY DEF OpenIndex, Advance
<1>4. /\ new \in Ops /\ new.kind = op[r].kind /\ new.at = s /\ new.put = op[r].put
      /\ new.read = op[r].read /\ new.todo = Tail(op[r].todo)
  <2>1. Tail(op[r].todo) \in Seq(Steps)
    BY <1>1
  <2> QED
    BY <1>1, <2>1 DEF Ops
<1>5. Then(op[r].kind, "openIndex") = "fillIndex"
  BY DEF Then
<1> HIDE DEF new
<1>6. op'[r] = new /\ \A other : At(r, other)' <=> other = "fillIndex"
  BY <1>1, <1>3, <1>4, <1>5, AdvanceTo
<1> QED
  BY <1>2, <1>3, <1>4, <1>6 DEF Half, Agrees, Writing, At, Idle

\* A save ends in step; a deletion has its files still to remove.
LEMMA FillIndexIndex ==
    ASSUME OpsOK, FilesOK, NEW r \in Requests, Kept(r), InOrder(r), Half(r), FillIndex(r),
           OpsOK', FilesOK', Kept(r)'
    PROVE  (~Writing(r)' => InStep') /\ (Writing(r)' => Half(r)')
<1> DEFINE s   == op[r].at
           new == [op[r] EXCEPT !.put = "active", !.read = NoListing, !.todo = Tail(@)]
           v   == IF op[r].kind = "delete" THEN "none" ELSE op[r].put
<1>1. /\ At(r, "fillIndex") /\ s \in Sessions
      /\ op[r] \in Ops /\ op[r].todo # <<>> /\ op[r].todo \in Seq(Steps)
  BY HeadOf DEF FillIndex, OpsOK
<1>2. /\ Agrees(op[r].read, s) /\ index.file = "empty"
      /\ op[r].kind # "delete" => meta[s] = op[r].put
  BY <1>1 DEF Half
<1>3. index' = [file |-> "kept", shown |-> NewIndex(r)]
  BY <1>2 DEF FillIndex, Filled
<1>4. UNCHANGED meta /\ Becomes(r, new)
  BY DEF FillIndex
<1>5. /\ new \in Ops /\ new.kind = op[r].kind /\ new.at = s /\ new.todo = Tail(op[r].todo)
  <2>1. Tail(op[r].todo) \in Seq(Steps)
    BY <1>1
  <2> QED
    BY <1>1, <2>1 DEF Ops, Status, NoListing, Listing
<1>6. Whole' /\ index'.shown = [op[r].read EXCEPT ![s] = v]
  BY <1>3 DEF NewIndex, Whole
<1>7. op[r].read \in [Sessions -> {"none"} \cup Status]
  BY <1>1 DEF Ops, Listing
<1> HIDE DEF new, v
<1>8. /\ index'.shown[s] = v
      /\ \A t \in Sessions \ {s} : index'.shown[t] = meta[t]
  BY <1>1, <1>2, <1>6, <1>7 DEF Agrees
<1>9. CASE op[r].kind = "delete"
  <2>1. Then(op[r].kind, "fillIndex") = "remove"
    BY <1>9 DEF Then
  <2>2. op'[r] = new /\ \A other : At(r, other)' <=> other = "remove"
    BY <1>1, <1>4, <1>5, <2>1, AdvanceTo
  <2>3. Writing(r)'
    BY <2>2 DEF Writing, At, Idle
  <2> QED
    BY <1>4, <1>5, <1>6, <1>8, <1>9, <2>2, <2>3 DEF Half, Agrees, v
<1>10. CASE op[r].kind # "delete"
  <2>1. Then(op[r].kind, "fillIndex") = "any"
    BY <1>10 DEF Then
  <2>2. ~Writing(r)'
    BY <1>1, <1>4, <1>5, <2>1, AdvanceOut
  <2>3. index'.shown[s] = meta[s]
    BY <1>2, <1>8, <1>10 DEF v
  <2>4. \A t \in Sessions : index'.shown[t] = meta'[t]
    BY <1>4, <1>8, <2>3
  <2>5. index'.shown \in Listing
    BY DEF FilesOK
  <2>6. index'.shown = meta'
    BY <1>4, <2>4, <2>5 DEF FilesOK, Listing
  <2> QED
    BY <1>6, <2>2, <2>6 DEF InStep
<1> QED
  BY <1>9, <1>10

\* With the directory gone the index is in step, while the deletion goes on.
LEMMA RemoveIndex ==
    ASSUME OpsOK, FilesOK, \A q \in Requests : Kept(q), NEW r \in Requests, InOrder(r), Half(r),
           Remove(r)
    PROVE  Half(r)' /\ Writing(r)'
<1> DEFINE s == op[r].at
<1>1. /\ At(r, "remove") /\ s \in Sessions /\ op[r].kind = "delete"
      /\ op[r].todo # <<>> /\ op[r].todo \in Seq(Steps) /\ Head(op[r].todo) = "remove"
  BY HeadOf DEF Remove
<1>2. Whole /\ index.shown[s] = "none" /\ Agrees(index.shown, s)
  BY <1>1 DEF Half
<1>3. meta' = [meta EXCEPT ![s] = "none"] /\ UNCHANGED index
  BY DEF Remove
<1>4. op'[r].kind = "delete" /\ op'[r].at = s /\ op'[r].todo = Tail(op[r].todo)
  BY RemoveOps
<1>5. Tail(op[r].todo) # <<>> /\ Head(Tail(op[r].todo)) = "scan"
  BY <1>1, OrderedTail DEF InOrder, Then
<1>6. Writing(r)' /\ \A other : At(r, other)' <=> other = "scan"
  BY <1>4, <1>5 DEF Writing, At, Idle
<1>7. Whole' /\ index.shown = meta'
  BY <1>1, <1>2, <1>3 DEF Whole, FilesOK, Agrees, Listing
<1> QED
  BY <1>3, <1>6, <1>7 DEF Half, InStep

\* A deletion ends, or it has found no session left.
LEMMA ScanIndex ==
    ASSUME OpsOK, FilesOK, NEW r \in Requests, Kept(r), InOrder(r), Half(r), Scan(r)
    PROVE  (~Writing(r)' => InStep') /\ (Writing(r)' => Half(r)')
<1> DEFINE new == [op[r] EXCEPT !.todo = Tail(@)]
<1>1. /\ At(r, "scan") /\ op[r].kind = "delete"
      /\ op[r] \in Ops /\ op[r].todo # <<>> /\ op[r].todo \in Seq(Steps)
  BY HeadOf DEF Scan, OpsOK
<1>2. InStep /\ UNCHANGED <<meta, index>>
  BY <1>1 DEF Half, Scan, files
<1>3. InStep'
  BY <1>2 DEF InStep, Whole
<1>4. CASE EndRequest(r)
  <2>1. op'[r].todo = <<>>
    BY <1>4, BecomesOne, NoOpTyped DEF EndRequest
  <2> QED
    BY <1>3, <2>1 DEF Writing, Idle
<1>5. CASE Advance(r) /\ \A t \in Sessions : meta[t] = "none"
  <2>1. /\ new \in Ops /\ new.todo = Tail(op[r].todo)
    <3>1. Tail(op[r].todo) \in Seq(Steps)
      BY <1>1
    <3> QED
      BY <1>1, <3>1 DEF Ops
  <2>2. Becomes(r, new)
    BY <1>5 DEF Advance
  <2>3. Then(op[r].kind, "scan") = "unlink"
    BY <1>1 DEF Then
  <2> HIDE DEF new
  <2>4. \A other : At(r, other)' <=> other = "unlink"
    BY <1>1, <2>1, <2>2, <2>3, AdvanceTo
  <2> QED
    BY <1>2, <1>3, <1>5, <2>4 DEF Half
<1> QED
  BY <1>4, <1>5 DEF Scan

\* The index goes when there is nothing for it to show.
LEMMA UnlinkIndex ==
    ASSUME OpsOK, FilesOK, \A q \in Requests : Kept(q), NEW r \in Requests, Half(r), Unlink(r)
    PROVE  ~Writing(r)' /\ InStep'
<1>1. \A t \in Sessions : meta[t] = "none"
  BY DEF Unlink, Half
<1>2. ~Writing(r)'
  BY UnlinkOps DEF Writing, Idle
<1>3. index' = [file |-> "none", shown |-> NoListing] /\ UNCHANGED meta
  BY DEF Unlink
<1>4. NoListing = meta
  BY <1>1 DEF NoListing, FilesOK
<1> QED
  BY <1>2, <1>3, <1>4 DEF InStep, Whole

LEMMA RestoringInOrder ==
    ASSUME NEW kind \in Kinds \ {"delete"}, NEW todo \in Seq(Steps), todo # <<>>,
           Ordered(kind, todo), Then(kind, Head(todo)) = "any"
    PROVE  Ordered(kind, Restoring(todo)) /\ Head(Restoring(todo)) \notin Inner(kind)
<1>1. /\ <<"get">> \in Seq(Steps) /\ Head(<<"get">>) = "get" /\ Ordered(kind, <<"get">>)
      /\ "get" \notin Inner(kind) /\ "openMeta" \notin Inner(kind)
  BY DEF Steps, Ordered, Then, Inner
<1>2. Ordered(kind, SaveSteps \o <<"get">>) /\ SaveSteps \o <<"get">> \in Seq(Steps)
  BY <1>1, SavesInOrder, ConcatOrdered, ConcatLength
<1>3. /\ Tail(todo) \in Seq(Steps) /\ Ordered(kind, Tail(todo))
      /\ Tail(todo) = <<>> \/ Head(Tail(todo)) \notin Inner(kind)
  BY OrderedTail
<1>4. Ordered(kind, (SaveSteps \o <<"get">>) \o Tail(todo))
  BY <1>2, <1>3, ConcatOrdered
<1>5. Head((SaveSteps \o <<"get">>) \o Tail(todo)) = "openMeta"
  BY <1>3 DEF SaveSteps
<1> QED
  BY <1>1, <1>4, <1>5 DEF Restoring

\* The steps in which a request neither writes nor begins to.
LEMMA LooksIndex ==
    ASSUME TypeOK, \A q \in Requests : Kept(q), NEW r \in Requests, InOrder(r), OpsOK', Kept(r)',
           Get(r) \/ Load(r) \/ Check(r) \/ Find(r) \/ AppendTo(r) \/ Run(r) \/ Forget(r)
    PROVE  InOrder(r)' /\ ~Writing(r) /\ ~Writing(r)' /\ UNCHANGED <<meta, index>>
<1> USE DEF TypeOK
<1>1. /\ op[r].todo # <<>> /\ op[r].todo \in Seq(Steps)
      /\ Head(op[r].todo) \in {"get", "load", "check", "find", "append", "run", "forget"}
  BY HeadOf DEF Get, Load, Check, Find, AppendTo, Run, Forget
<1>2. ~Writing(r) /\ Then(op[r].kind, Head(op[r].todo)) = "any"
  BY <1>1 DEF Writing, Then
<1>3. UNCHANGED <<meta, index>>
  BY DEF Get, Load, Check, Find, AppendTo, Run, Forget, files
<1>4. CASE GoesOn(r)
  BY <1>1, <1>2, <1>3, <1>4, GoesOnInOrder
<1>5. CASE ~GoesOn(r)
  <2>1. Load(r) \/ Run(r)
    BY <1>5, PlainGoesOn, GetGoesOn
  <2>2. PICK more :
           /\ TakesUp(r, more)
           /\ \A todo \in more : /\ Fits(op[r].kind, todo) /\ Ordered(op[r].kind, todo)
                                 /\ todo = <<>> \/ Head(todo) \notin Inner(op[r].kind)
    <3>1. CASE Load(r)
      <4>1. TakesUp(r, {Restoring(op[r].todo)})
        BY <1>5, <3>1, LoadGoesOn
      <4>2. op[r].kind \in Kinds \ {"delete", "refresh"} /\ Fits(op[r].kind, op[r].todo)
        BY <1>1, <3>1, HeadOf DEF Load, Kept
      <4>3. Fits(op[r].kind, Restoring(op[r].todo))
        BY <1>1, <4>2, RestoringFits
      <4>4. /\ Ordered(op[r].kind, Restoring(op[r].todo))
            /\ Head(Restoring(op[r].todo)) \notin Inner(op[r].kind)
        BY <1>1, <1>2, <4>2, RestoringInOrder DEF InOrder
      <4> QED
        BY <4>1, <4>3, <4>4
    <3>2. CASE Run(r)
      <4>1. op[r].kind \in Runners /\ TakesUp(r, AfterRun[op[r].kind])
        BY <3>2, RunTakesUp
      <4> QED
        BY <4>1, AfterRunFits, AfterRunInOrder
    <3> QED
      BY <2>1, <3>1, <3>2
  <2>3. op'[r].todo = <<>> \/ (op'[r].kind = op[r].kind /\ op'[r].todo \in more)
    BY <1>1, <2>2, TakesUpKept
  <2>4. InOrder(r)'
    BY <2>2, <2>3 DEF InOrder
  <2>5. ~Writing(r)'
    <3>1. (Writing(r) <=> op[r].todo # <<>> /\ Head(op[r].todo) \in Inner(op[r].kind))'
      BY WritesInside, PTL
    <3> QED
      BY <2>2, <2>3, <3>1
  <2> QED
    BY <1>2, <1>3, <2>4, <2>5
<1> QED
  BY <1>4, <1>5

\* Between the writes, or in the middle of the only one.
LEMMA IndexStep ==
    ASSUME TypeOK, \A q \in Requests : Kept(q), IndexInv, NEW r \in Requests, Step(r),
           TypeOK', \A q \in Requests : Kept(q)'
    PROVE  IndexInv'
<1> SUFFICES ASSUME calm'
             PROVE  /\ OneWrites'
                    /\ \A q \in Requests : InOrder(q)'
                    /\ (\A q \in Requests : ~Writing(q)') => InStep'
                    /\ \A q \in Requests : Writing(q)' => Half(q)'
  BY DEF IndexInv
<1> USE DEF TypeOK
<1>1. calm' = (calm /\ OneWrites')
  BY Zenon DEF Step, Get, Load, Check, Find, AppendTo, Run, Forget, OpenMeta, FillMeta, Spill,
     GetIndex, OpenIndex, FillIndex, Remove, Scan, Unlink, Advance, EndRequest, Becomes
<1>2. calm /\ OneWrites'
  BY <1>1
<1>3. /\ OneWrites
      /\ \A q \in Requests : InOrder(q)
      /\ (\A q \in Requests : ~Writing(q)) => InStep
      /\ \A q \in Requests : Writing(q) => Half(q)
  BY <1>2 DEF IndexInv
<1>4. ~Spill(r)
  <2> SUFFICES ASSUME Spill(r) PROVE FALSE
    OBVIOUS
  <2>1. op[r].todo # <<>> /\ op[r].todo \in Seq(Steps) /\ Head(op[r].todo) = "spill"
    BY HeadOf DEF Spill
  <2> QED
    BY <1>3, <2>1, OrderedTail DEF InOrder
<1>5. ASSUME NEW q \in Requests \ {r} PROVE op'[q] = op[q]
  <2>1. CASE Remove(r) \/ Unlink(r)
    <3>1. Writing(r)
      BY <2>1 DEF Remove, Unlink, At, Writing
    <3>2. ~Writing(q)
      BY <1>3, <3>1 DEF OneWrites
    <3>3. ~At(q, "fillMeta") /\ ~At(q, "fillIndex")
      BY <3>2 DEF At, Writing
    <3> QED
      BY <2>1, <3>3, RemoveOps, UnlinkOps
  <2>2. CASE GoesOn(r)
    BY <2>2, BecomesOne DEF GoesOn
  <2>3. CASE Load(r) \/ Run(r)
    BY <2>3, LoadGoesOn, RunTakesUp, BecomesOne DEF GoesOn, TakesUp
  <2> QED
    BY <1>4, <2>1, <2>2, <2>3, PlainGoesOn, IndexGoesOn, GetGoesOn DEF Step
<1>6. ASSUME NEW q \in Requests \ {r} PROVE (Writing(q)' <=> Writing(q)) /\ InOrder(q)'
  BY <1>3, <1>5 DEF Writing, Idle, InOrder
<1>7. ASSUME InOrder(r)', Writing(r) \/ Writing(r)',
             ~Writing(r)' => InStep', Writing(r)' => Half(r)'
      PROVE  /\ \A q \in Requests : InOrder(q)'
             /\ (\A q \in Requests : ~Writing(q)') => InStep'
             /\ \A q \in Requests : Writing(q)' => Half(q)'
  <2>1. ASSUME NEW q \in Requests \ {r} PROVE ~Writing(q)'
    BY <1>2, <1>3, <1>6, <1>7 DEF OneWrites
  <2> QED
    BY <1>6, <1>7, <2>1
<1>8. ASSUME InOrder(r)', ~Writing(r), ~Writing(r)', UNCHANGED <<meta, index>>
      PROVE  /\ \A q \in Requests : InOrder(q)'
             /\ (\A q \in Requests : ~Writing(q)') => InStep'
             /\ \A q \in Requests : Writing(q)' => Half(q)'
  <2>1. ASSUME NEW q \in Requests, Writing(q)' PROVE Half(q)'
    <3>1. q # r /\ Writing(q) /\ op'[q] = op[q]
      BY <1>5, <1>6, <1>8, <2>1
    <3> QED
      BY <1>3, <1>8, <3>1 DEF Half, At, Idle, Whole, InStep, Agrees
  <2>2. ASSUME \A q \in Requests : ~Writing(q)' PROVE InStep'
    <3>1. \A q \in Requests : ~Writing(q)
      BY <1>6, <1>8, <2>2
    <3> QED
      BY <1>3, <1>8, <3>1 DEF InStep, Whole
  <2> QED
    BY <1>6, <1>8, <2>1, <2>2
<1>9. ASSUME Writing(r)' PROVE Writing(r) \/ InStep
  <2> SUFFICES ASSUME ~Writing(r) PROVE InStep
    OBVIOUS
  <2>1. \A q \in Requests \ {r} : ~Writing(q)
    BY <1>2, <1>6, <1>9 DEF OneWrites
  <2> QED
    BY <1>3, <2>1
<1>10. InOrder(r)'
  <2>1. CASE GoesOn(r)
    <3>1. op[r].todo # <<>>
      BY DEF Step, At, Idle, Get, Load, Check, Find, AppendTo, Run, Forget, OpenMeta, FillMeta,
         Spill, GetIndex, OpenIndex, FillIndex, Remove, Scan, Unlink
    <3> QED
      BY <1>3, <2>1, <3>1, GoesOnInOrder
  <2>2. CASE Load(r) \/ Run(r)
    BY <1>3, <2>2, LooksIndex
  <2>3. CASE Remove(r)
    <3>1. op[r].todo # <<>> /\ op[r].todo \in Seq(Steps)
      BY <2>3, HeadOf DEF Remove
    <3>2. op'[r].kind = op[r].kind /\ op'[r].todo = Tail(op[r].todo)
      BY <2>3, RemoveOps, HeadOf DEF Remove
    <3> QED
      BY <1>3, <3>1, <3>2, OrderedTail DEF InOrder
  <2>4. CASE Unlink(r)
    BY <2>4, UnlinkOps DEF InOrder
  <2> QED
    BY <1>4, <2>1, <2>2, <2>3, <2>4, PlainGoesOn, IndexGoesOn, GetGoesOn DEF Step
<1>11. CASE Get(r) \/ Load(r) \/ Check(r) \/ Find(r) \/ AppendTo(r) \/ Run(r) \/ Forget(r)
  BY <1>2, <1>3, <1>8, <1>11, LooksIndex
<1>12. CASE OpenMeta(r)
  <2>1. ~Writing(r)
    <3>1. op[r].kind # "delete" /\ Head(op[r].todo) = "openMeta"
      BY <1>12, HeadOf DEF OpenMeta
    <3> QED
      BY <3>1 DEF Writing
  <2>2. Writing(r)'
    <3>1. op[r].todo # <<>> /\ op[r].todo \in Seq(Steps) /\ Head(op[r].todo) = "openMeta"
          /\ op[r].kind # "delete"
      BY <1>12, HeadOf DEF OpenMeta
    <3>2. Tail(op[r].todo) # <<>> /\ Head(Tail(op[r].todo)) = "fillMeta"
      BY <1>3, <3>1, OrderedTail DEF InOrder, Then
    <3>3. op'[r].todo = Tail(op[r].todo)
      <4> DEFINE new == [op[r] EXCEPT !.todo = Tail(@)]
      <4>1. Tail(op[r].todo) \in Seq(Steps)
        BY <3>1
      <4>2. new \in Ops /\ new.todo = Tail(op[r].todo)
        BY <4>1 DEF OpsOK, Ops
      <4>3. Becomes(r, new)
        BY <1>12 DEF OpenMeta, Advance
      <4> HIDE DEF new
      <4> QED
        BY <3>2, <4>2, <4>3, BecomesOne
    <3> QED
      BY <3>2, <3>3 DEF Writing, Idle
  <2>3. InStep
    BY <1>9, <2>1, <2>2
  <2>4. Half(r)'
    BY <1>3, <1>12, <2>3, OpenMetaIndex
  <2> QED
    BY <1>2, <1>7, <1>10, <2>2, <2>4
<1>13. CASE GetIndex(r)
  <2>1. CASE index.file \in {"empty", "torn"}
    <3>1. op'[r].todo = <<>> /\ UNCHANGED <<meta, index>>
      BY <1>13, <2>1, BecomesOne, NoOpTyped DEF GetIndex, EndRequest, files
    <3>2. ~Writing(r)'
      BY <3>1 DEF Writing, Idle
    <3>3. ~Writing(r)
      <4> SUFFICES ASSUME Writing(r) PROVE FALSE
        OBVIOUS
      <4>1. Half(r) /\ At(r, "getIndex")
        BY <1>3, <1>13 DEF GetIndex
      <4>2. op[r].kind # "delete"
        BY <4>1 DEF Writing, At
      <4> QED
        BY <2>1, <4>1 DEF Half, Whole
    <3> QED
      BY <1>2, <1>8, <1>10, <3>1, <3>2, <3>3
  <2>2. CASE index.file \notin {"empty", "torn"}
    <3>1. Writing(r)'
      <4> DEFINE new == [op[r] EXCEPT !.read = index.shown, !.todo = Tail(@)]
      <4>1. op[r].todo # <<>> /\ op[r].todo \in Seq(Steps) /\ At(r, "getIndex")
        BY <1>13, HeadOf DEF GetIndex
      <4>2. Tail(op[r].todo) \in Seq(Steps)
        BY <4>1
      <4>3. new \in Ops /\ new.todo = Tail(op[r].todo)
        BY <4>2 DEF OpsOK, Ops, FilesOK
      <4>4. Becomes(r, new)
        BY <1>13, <2>2 DEF GetIndex
      <4>5. Then(op[r].kind, "getIndex") = "openIndex"
        BY DEF Then
      <4> HIDE DEF new
      <4>6. At(r, "openIndex")'
        BY <1>3, <4>1, <4>3, <4>4, <4>5, AdvanceTo
      <4> QED
        BY <4>6 DEF Writing, At
    <3>2. op[r].kind = "delete" => InStep
      <4>1. op[r].kind = "delete" => ~Writing(r)
        BY <1>13 DEF GetIndex, At, Writing
      <4> QED
        BY <1>9, <3>1, <4>1
    <3>3. Half(r)'
      BY <1>3, <1>13, <3>2, GetIndexIndex
    <3> QED
      BY <1>2, <1>7, <1>10, <3>1, <3>3
  <2> QED
    BY <2>1, <2>2
<1>14. CASE FillMeta(r) \/ OpenIndex(r) \/ FillIndex(r) \/ Remove(r) \/ Scan(r) \/ Unlink(r)
  <2>1. Writing(r) /\ Half(r)
    BY <1>3, <1>14 DEF FillMeta, OpenIndex, FillIndex, Remove, Scan, Unlink, At, Writing
  <2>2. CASE FillMeta(r)
    <3>1. Half(r)'
      BY <1>3, <2>1, <2>2, FillMetaIndex
    <3>2. Writing(r)'
      BY <1>3, <2>1, <2>2, FillMetaIndex
    <3> QED
      BY <1>2, <1>7, <1>10, <2>1, <3>1, <3>2
  <2>3. CASE OpenIndex(r)
    BY <1>2, <1>3, <1>7, <1>10, <2>1, <2>3, OpenIndexIndex
  <2>4. CASE FillIndex(r)
    BY <1>2, <1>3, <1>7, <1>10, <2>1, <2>4, FillIndexIndex
  <2>5. CASE Remove(r)
    BY <1>2, <1>3, <1>7, <1>10, <2>1, <2>5, RemoveIndex
  <2>6. CASE Scan(r)
    BY <1>2, <1>3, <1>7, <1>10, <2>1, <2>6, ScanIndex
  <2>7. CASE Unlink(r)
    BY <1>2, <1>3, <1>7, <1>10, <2>1, <2>7, UnlinkIndex
  <2> QED
    BY <1>14, <2>2, <2>3, <2>4, <2>5, <2>6, <2>7
<1> QED
  BY <1>4, <1>11, <1>12, <1>13, <1>14 DEF Step

\* Nobody's step leaves the index further behind than what one has begun.
LEMMA IndexNext ==
    ASSUME TypeOK, \A q \in Requests : Kept(q), IndexInv, Next,
           TypeOK', \A q \in Requests : Kept(q)'
    PROVE  IndexInv'
<1> USE DEF TypeOK
<1>1. ASSUME NEW r \in Requests, Step(r) PROVE IndexInv'
  BY <1>1, IndexStep
<1>2. ASSUME NEW r \in Requests, NEW kind \in Kinds, NEW s \in Sessions, Start(r, kind, s)
      PROVE  IndexInv'
  <2>1. UNCHANGED <<meta, index, calm>> /\ op[r].todo = <<>>
    BY <1>2 DEF Start, files, Idle
  <2>2. /\ op'[r].kind = kind /\ op'[r].todo = Script[kind]
        /\ \A q \in Requests \ {r} : op'[q] = op[q]
    BY <1>2, StartOps
  <2>3. InOrder(r)'
    BY <2>2, ScriptInOrder DEF InOrder
  <2>4. ~Writing(r) /\ ~Writing(r)'
    <3>1. Writing(r)' => op'[r].todo # <<>> /\ Head(op'[r].todo) \in Inner(op'[r].kind)
      <4>1. OpsOK' /\ Kept(r)'
        OBVIOUS
      <4>2. (Writing(r) <=> op[r].todo # <<>> /\ Head(op[r].todo) \in Inner(op[r].kind))'
        BY <4>1, WritesInside, PTL
      <4> QED
        BY <4>2
    <3> QED
      BY <2>1, <2>2, <3>1, ScriptInOrder DEF Writing, Idle
  <2>5. \A q \in Requests : Writing(q)' <=> Writing(q)
    BY <2>2, <2>4 DEF Writing, Idle
  <2>6. \A q \in Requests \ {r} : (InOrder(q) => InOrder(q)') /\ (Half(q) => Half(q)')
    BY <2>1, <2>2 DEF InOrder, Half, At, Idle, Whole, InStep, Agrees
  <2> QED
    BY <2>1, <2>3, <2>4, <2>5, <2>6 DEF IndexInv, OneWrites, InStep, Whole
<1>3. ASSUME NEW s \in Sessions, Settle(s) PROVE IndexInv'
  BY <1>3 DEF Settle, files, IndexInv, OneWrites, Writing, Idle, InOrder, Half, At, Whole, InStep,
     Agrees
<1>4. CASE Crash
  <2> SUFFICES ASSUME calm' PROVE IndexInv'
    BY DEF IndexInv
  <2>1. calm /\ \A r \in Requests : ~Writing(r)
    BY <1>4, Zenon DEF Crash
  <2>2. InStep
    BY <2>1 DEF IndexInv
  <2>3. \A s \in Sessions : meta[s] # "empty"
    BY <2>2 DEF InStep, FilesOK, Listing, Status
  <2>4. meta' = meta /\ index' = index
    BY <1>4, <2>2, <2>3 DEF Crash, InStep, Whole, FilesOK
  <2>5. \A r \in Requests : op'[r].todo = <<>>
    BY <1>4, NoOpTyped DEF Crash
  <2> QED
    BY <2>2, <2>4, <2>5 DEF IndexInv, OneWrites, Writing, Idle, InOrder, InStep, Whole
<1> QED
  BY <1>1, <1>2, <1>3, <1>4 DEF Next

\* As long as nobody dies while writing and no two write at a time, the index
\* shows every session with its status between the writes: what
\* upsert_index_item and remove_index_item read is then never stale.
THEOREM IndexCorrect == Spec => []IndexFollows
<1>1. Init => IndexInv
  BY NoOpTyped DEF Init, IndexInv, OneWrites, Writing, Idle, InOrder, InStep, Whole, NoListing
<1>2. TypeOK /\ IInv /\ IndexInv /\ [Next]_vars /\ TypeOK' /\ IInv' => IndexInv'
  <2>1. CASE Next
    BY <2>1, IndexNext DEF IInv
  <2>2. CASE UNCHANGED vars
    BY <2>2 DEF vars, files, IndexInv, OneWrites, Writing, Idle, InOrder, Half, At, Whole, InStep,
       Agrees
  <2> QED
    BY <2>1, <2>2
<1>3. IndexInv => IndexFollows
  BY DEF IndexInv, IndexFollows, InStep, Whole
<1> QED
  BY <1>1, <1>2, <1>3, InvariantCorrect, PTL DEF Spec

=============================================================================
