----------------------------- MODULE ClientProofs -----------------------------
(***************************************************************************)
(* Theorems about module TransportClient, for any requests, timeouts, tick *)
(* lengths and depth of calls from callbacks.                              *)
(*                                                                         *)
(* Every proof rests on one lemma about the stack (StackSteps): a step     *)
(* leaves the frames below the top where they are, but for what a loop has *)
(* still to visit, and what it puts on top is of a few known kinds.        *)
(*                                                                         *)
(* Types, Accounted and NoOverdue hold for any number of requests.  That   *)
(* a response settles its own request, and that an iterator denotes the    *)
(* entry it was taken for, needs that the id counter does not come round   *)
(* (NoWrap): the code lets a request that gets a live id evict the older   *)
(* one.  Then the next id is the number of requests sent so far, and an    *)
(* entry never changes but by leaving.                                     *)
(*                                                                         *)
(* For timeouts (ClientNotOverdue) the invariant says where the time of an *)
(* open request has gone: it was taken from what is left of it, or it has  *)
(* passed since the last call of CheckTimeouts, or was dropped by one, or  *)
(* the iteration that takes it has yet to come to the entry.               *)
(***************************************************************************)
EXTENDS TransportClient, FiniteSetTheorems, SequenceTheorems, TLAPS

-----------------------------------------------------------------------------
\* Frames and stacks.

\* What the fields of a frame hold, by what the frame is.
LEMMA FrameFacts ==
    ASSUME NEW f \in Frame
    PROVE  /\ f.pc \in {"send", "destroy", "parts", "erase", "step", "check", "clear", "user"}
           /\ f.pc = "parts" => f.parts \in Seq(Parts)
           /\ f.pc \in {"erase", "step"} => f.id \in Ids /\ f.req \in Reqs
           /\ f.pc = "check" => f.todo \subseteq Ids /\ f.diff \in Nat
           /\ f.pc = "clear" => f.todo \subseteq Ids
           /\ f.pc = "user" => f.req \in Reqs
<1> DEFINE A == [pc : {"send", "destroy"}]
           B == [pc : {"parts"}, parts : Seq(Parts)]
           C == [pc : {"erase", "step"}, id : Ids, req : Reqs]
           D == [pc : {"check"}, todo : SUBSET Ids, diff : Nat]
           E == [pc : {"clear"}, todo : SUBSET Ids]
           F == [pc : {"user"}, req : Reqs]
<1>1. f \in A \/ f \in B \/ f \in C \/ f \in D \/ f \in E \/ f \in F
  BY DEF Frame
<1>2. f \in A => f.pc \in {"send", "destroy"}
  OBVIOUS
<1>3. f \in B => f.pc = "parts" /\ f.parts \in Seq(Parts)
  OBVIOUS
<1>4. f \in C => f.pc \in {"erase", "step"} /\ f.id \in Ids /\ f.req \in Reqs
  OBVIOUS
<1>5. f \in D => f.pc = "check" /\ f.todo \subseteq Ids /\ f.diff \in Nat
  OBVIOUS
<1>6. f \in E => f.pc = "clear" /\ f.todo \subseteq Ids
  OBVIOUS
<1>7. f \in F => f.pc = "user" /\ f.req \in Reqs
  OBVIOUS
<1> HIDE DEF A, B, C, D, E, F
<1> QED BY <1>1, <1>2, <1>3, <1>4, <1>5, <1>6, <1>7

\* A frame with less to do is a frame.
LEMMA FrameUpdates ==
    ASSUME NEW f \in Frame
    PROVE  /\ \A ps \in Seq(Parts) : f.pc = "parts" =>
                /\ [f EXCEPT !.parts = ps] \in Frame
                /\ [f EXCEPT !.parts = ps].pc = "parts"
                /\ [f EXCEPT !.parts = ps].parts = ps
           /\ \A is \in SUBSET Ids : f.pc \in {"check", "clear"} =>
                /\ [f EXCEPT !.todo = is] \in Frame
                /\ [f EXCEPT !.todo = is].pc = f.pc
                /\ [f EXCEPT !.todo = is].todo = is
                /\ f.pc = "check" => [f EXCEPT !.todo = is].diff = f.diff
<1>1. f.pc = "parts" => f \in [pc : {"parts"}, parts : Seq(Parts)]
  BY DEF Frame
<1>2. f.pc = "check" => f \in [pc : {"check"}, todo : SUBSET Ids, diff : Nat]
  BY DEF Frame
<1>3. f.pc = "clear" => f \in [pc : {"clear"}, todo : SUBSET Ids]
  BY DEF Frame
<1>4. ASSUME NEW ps \in Seq(Parts), f.pc = "parts"
      PROVE  /\ [f EXCEPT !.parts = ps] \in Frame
             /\ [f EXCEPT !.parts = ps].pc = "parts"
             /\ [f EXCEPT !.parts = ps].parts = ps
  <2>1. [f EXCEPT !.parts = ps] \in [pc : {"parts"}, parts : Seq(Parts)]
    BY <1>1, <1>4
  <2> QED BY <1>1, <1>4, <2>1 DEF Frame
<1>5. ASSUME NEW is \in SUBSET Ids, f.pc = "check"
      PROVE  /\ [f EXCEPT !.todo = is] \in Frame
             /\ [f EXCEPT !.todo = is].pc = f.pc
             /\ [f EXCEPT !.todo = is].todo = is
             /\ [f EXCEPT !.todo = is].diff = f.diff
  <2>1. [f EXCEPT !.todo = is] \in [pc : {"check"}, todo : SUBSET Ids, diff : Nat]
    BY <1>2, <1>5
  <2> QED BY <1>2, <1>5, <2>1 DEF Frame
<1>6. ASSUME NEW is \in SUBSET Ids, f.pc = "clear"
      PROVE  /\ [f EXCEPT !.todo = is] \in Frame
             /\ [f EXCEPT !.todo = is].pc = f.pc
             /\ [f EXCEPT !.todo = is].todo = is
  <2>1. [f EXCEPT !.todo = is] \in [pc : {"clear"}, todo : SUBSET Ids]
    BY <1>3, <1>6
  <2> QED BY <1>3, <1>6, <2>1 DEF Frame
<1> QED BY <1>4, <1>5, <1>6

\* t is s with its last frame replaced by fs.
Replaces(t, s, fs) ==
    /\ t \in Seq(Frame) /\ s \in Seq(Frame) /\ fs \in Seq(Frame)
    /\ Len(s) > 0
    /\ Len(t) = Len(s) - 1 + Len(fs)
    /\ \A k \in 1 .. Len(s) - 1 : t[k] = s[k]
    /\ \A k \in 1 .. Len(fs) : t[Len(s) - 1 + k] = fs[k]

LEMMA ReplaceTop ==
    ASSUME NEW s \in Seq(Frame), NEW fs \in Seq(Frame), s # << >>
    PROVE  Replaces(SubSeq(s, 1, Len(s) - 1) \o fs, s, fs)
<1> DEFINE b == SubSeq(s, 1, Len(s) - 1)
<1>1. Len(s) \in Nat /\ Len(s) > 0 /\ Len(fs) \in Nat
  BY EmptySeq
<1>2. \A k \in 1 .. Len(s) - 1 : s[k] \in Frame
  BY <1>1, ElementOfSeq
<1>3. /\ b \in Seq(Frame) /\ Len(b) = Len(s) - 1
      /\ \A k \in 1 .. Len(s) - 1 : b[k] = s[k]
  <2>1. PICK n \in Nat : n = Len(s) - 1
    BY <1>1
  <2>2. 1 \in Int /\ n \in Int /\ (\A k \in 1 .. n : s[k] \in Frame) /\ b = SubSeq(s, 1, n)
    BY <1>2, <2>1
  <2> HIDE DEF b
  <2>3. b \in Seq(Frame) /\ Len(b) = IF 1 <= n THEN n - 1 + 1 ELSE 0
    BY <2>2, SubSeqProperties
  <2>4. \A k \in 1 .. n - 1 + 1 : b[k] = s[1 + k - 1]
    BY <2>2, SubSeqProperties
  <2>5. Len(b) = n
    BY <2>3
  <2>6. \A k \in 1 .. n : k \in 1 .. n - 1 + 1 /\ 1 + k - 1 = k
    OBVIOUS
  <2>7. \A k \in 1 .. n : b[k] = s[k]
    BY <2>4, <2>6
  <2> QED BY <2>1, <2>3, <2>5, <2>7
<1> HIDE DEF b
<1>4. /\ b \o fs \in Seq(Frame) /\ Len(b \o fs) = Len(b) + Len(fs)
      /\ \A k \in 1 .. Len(b) + Len(fs) :
            (b \o fs)[k] = IF k <= Len(b) THEN b[k] ELSE fs[k - Len(b)]
  BY <1>3, ConcatProperties
<1>5. \A k \in 1 .. Len(s) - 1 : (b \o fs)[k] = s[k]
  BY <1>1, <1>3, <1>4
<1>6. \A k \in 1 .. Len(fs) : (b \o fs)[Len(s) - 1 + k] = fs[k]
  BY <1>1, <1>3, <1>4
<1>7. Replaces(b \o fs, s, fs)
  BY <1>1, <1>3, <1>4, <1>5, <1>6 DEF Replaces
<1> QED BY <1>7 DEF b

\* The last frame taken away.
LEMMA PopTop ==
    ASSUME NEW s \in Seq(Frame), s # << >>
    PROVE  Replaces(SubSeq(s, 1, Len(s) - 1), s, << >>)
<1>1. << >> \in Seq(Frame) /\ Replaces(SubSeq(s, 1, Len(s) - 1) \o << >>, s, << >>)
  BY ReplaceTop, EmptySeq
<1>2. Len(s) \in Nat /\ \A k \in 1 .. Len(s) - 1 : s[k] \in Frame
  BY ElementOfSeq
<1>3. SubSeq(s, 1, Len(s) - 1) \in Seq(Frame)
  BY <1>2, SubSeqProperties
<1> QED BY <1>1, <1>3, ConcatEmptySeq

\* fs is an e, on an x or on nothing, and below a u or nothing.
Piled(fs, x, e, u) ==
    /\ fs \in Seq(Frame) /\ Len(fs) \in 1 .. 3
    /\ \E n \in 0 .. 1 : \A k \in 1 .. Len(fs) :
          fs[k] = IF k <= n THEN x ELSE IF k = n + 1 THEN e ELSE u

\* A frame e between what may be an x and what may be a u.
Joined(fs, a, e, c) == fs = a \o <<e>> \o c
Maybe(a, x) == a \in {<< >>, <<x>>}

LEMMA NewFrames ==
    ASSUME NEW x \in Frame, NEW e \in Frame, NEW u \in Frame,
           NEW a, NEW c, Maybe(a, x), Maybe(c, u),
           NEW fs, Joined(fs, a, e, c)
    PROVE  /\ Piled(fs, x, e, u)
           /\ a = << >> => fs[1] = e
           /\ a # << >> => fs[1] = x
<1>1. a \in Seq(Frame) /\ c \in Seq(Frame) /\ <<e>> \in Seq(Frame)
  <2>1. << >> \in Seq(Frame) /\ <<x>> \in Seq(Frame) /\ <<e>> \in Seq(Frame) /\ <<u>> \in Seq(Frame)
    OBVIOUS
  <2> QED BY <2>1 DEF Maybe
<1>2. Len(a) \in 0 .. 1 /\ Len(c) \in 0 .. 1 /\ Len(<<e>>) = 1 /\ <<e>>[1] = e
  BY DEF Maybe
<1>3. \A k \in 1 .. Len(a) : a[k] = x
  BY DEF Maybe
<1>4. \A k \in 1 .. Len(c) : c[k] = u
  BY DEF Maybe
<1>0. PICK ee \in Seq(Frame) : ee = <<e>>
  BY <1>1
<1>5. PICK ae \in Seq(Frame) : ae = a \o ee
  BY <1>1, ConcatProperties
<1>6. /\ Len(ae) = Len(a) + 1
      /\ \A k \in 1 .. Len(a) + 1 : ae[k] = IF k <= Len(a) THEN a[k] ELSE ee[k - Len(a)]
  BY <1>0, <1>1, <1>2, <1>5, ConcatProperties
<1>7. /\ fs \in Seq(Frame) /\ Len(fs) = Len(ae) + Len(c)
      /\ \A k \in 1 .. Len(ae) + Len(c) : fs[k] = IF k <= Len(ae) THEN ae[k] ELSE c[k - Len(ae)]
  <2>1. fs = ae \o c
    BY <1>0, <1>5 DEF Joined
  <2> QED BY <1>1, <2>1, ConcatProperties
<1>8. ASSUME NEW k \in 1 .. Len(fs)
      PROVE  fs[k] = IF k <= Len(a) THEN x ELSE IF k = Len(a) + 1 THEN e ELSE u
  <2>1. CASE k <= Len(a)
    BY <1>2, <1>3, <1>6, <1>7, <2>1
  <2>2. CASE k = Len(a) + 1
    <3>1. fs[k] = ee[1]
      BY <1>2, <1>6, <1>7, <2>2
    <3> QED BY <1>0, <1>2, <2>2, <3>1
  <2>3. CASE k > Len(a) + 1
    <3>1. k - Len(ae) \in 1 .. Len(c) /\ fs[k] = c[k - Len(ae)]
      BY <1>2, <1>6, <1>7, <2>3
    <3> QED BY <1>2, <1>4, <2>3, <3>1
  <2> QED BY <1>2, <2>1, <2>2, <2>3
<1>9. Len(fs) \in 1 .. 3
  BY <1>2, <1>6, <1>7
<1>10. Piled(fs, x, e, u)
  BY <1>2, <1>7, <1>8, <1>9 DEF Piled
<1>11. (a = << >> => fs[1] = e) /\ (a # << >> => fs[1] = x)
  <2>1. a = << >> => Len(a) = 0
    BY DEF Maybe
  <2>2. a # << >> => Len(a) = 1
    BY DEF Maybe
  <2> QED BY <1>8, <1>9, <2>1, <2>2
<1> QED BY <1>10, <1>11

\* The frame on top, when there is one.
LEMMA TopFacts ==
    ASSUME TypeOK, stack # << >>
    PROVE  /\ Len(stack) \in Nat /\ Len(stack) > 0 /\ DOMAIN stack = 1 .. Len(stack)
           /\ Top \in Frame /\ Top = stack[Len(stack)]
           /\ Below \in Seq(Frame)
           /\ Replaces(Below, stack, << >>)
           /\ \A fs \in Seq(Frame) : Replaces(Below \o fs, stack, fs)
<1>1. PICK s \in Seq(Frame) : s = stack
  BY DEF TypeOK
<1>2. Len(s) \in Nat /\ Len(s) > 0 /\ DOMAIN s = 1 .. Len(s) /\ s[Len(s)] \in Frame
  BY <1>1, EmptySeq, LenProperties, ElementOfSeq
<1>3. Replaces(SubSeq(s, 1, Len(s) - 1), s, << >>)
  BY <1>1, PopTop
<1>4. \A fs \in Seq(Frame) : Replaces(SubSeq(s, 1, Len(s) - 1) \o fs, s, fs)
  BY <1>1, ReplaceTop
<1>5. SubSeq(s, 1, Len(s) - 1) \in Seq(Frame)
  BY <1>3 DEF Replaces
<1> QED BY <1>1, <1>2, <1>3, <1>4, <1>5 DEF Top, Below

\* Settling a promise keeps all the others.
LEMMA SettleFacts ==
    ASSUME TypeOK, NEW r \in Reqs, NEW o \in Settled, Settle(r, o)
    PROVE  /\ outcome' \in [Reqs -> {"new", "open"} \cup Settled]
           /\ \A q \in Reqs : outcome'[q] = IF q = r /\ outcome[r] = "open" THEN o ELSE outcome[q]
BY DEF TypeOK, Settle

\* What may arrive in answer to some messages.
LEMMA AnswersFacts ==
    ASSUME NEW ms \in SUBSET Msgs, NEW ps \in Answers(ms)
    PROVE  /\ ps \in Seq(Parts) /\ ps # << >>
           /\ \A k \in DOMAIN ps : ps[k].msg \in ms
<1>1. CASE \E p \in [msg : ms, kind : Kinds] : ps = <<p>>
  BY <1>1 DEF Parts
<1>2. CASE \E p \in [msg : ms, kind : {"result"}], q \in [msg : ms, kind : {"error"}] : ps = <<p, q>>
  <2>1. PICK p \in [msg : ms, kind : {"result"}], q \in [msg : ms, kind : {"error"}] : ps = <<p, q>>
    BY <1>2
  <2>2. p \in Parts /\ q \in Parts /\ p.msg \in ms /\ q.msg \in ms
    BY DEF Parts, Kinds
  <2> QED BY <2>1, <2>2
<1> QED BY <1>1, <1>2 DEF Answers

LEMMA TailLeft ==
    ASSUME NEW S, NEW s \in Seq(S), s # << >>, Len(s) # 1
    PROVE  Tail(s) # << >>
<1>1. Len(s) \in Nat \ {0} /\ Tail(s) \in Seq(S) /\ Len(Tail(s)) = Len(s) - 1
  BY EmptySeq, HeadTailProperties
<1>2. Len(Tail(s)) # 0
  BY <1>1
<1> QED BY <1>2, EmptySeq

\* The parts that are left after the first.
LEMMA RestFacts ==
    ASSUME TypeOK, At("parts"), Top.parts # << >>
    PROVE  \E x \in Frame :
              /\ x.pc = "parts" /\ x.parts = Tail(Top.parts)
              /\ Rest \in {<< >>, <<x>>}
              /\ Head(Top.parts) \in Parts
<1>1. Top \in Frame /\ Top.pc = "parts"
  BY TopFacts DEF At
<1>2. PICK f \in Frame : f = Top
  BY <1>1
<1>3. f.parts \in Seq(Parts) /\ Tail(f.parts) \in Seq(Parts) /\ Head(f.parts) \in Parts
  BY <1>1, <1>2, FrameFacts, HeadTailProperties
<1>4. PICK x \in Frame : x = [f EXCEPT !.parts = Tail(f.parts)]
  BY <1>1, <1>2, <1>3, FrameUpdates
<1>5. x.pc = "parts" /\ x.parts = Tail(f.parts)
  BY <1>1, <1>2, <1>3, <1>4, FrameUpdates
<1> QED BY <1>2, <1>3, <1>4, <1>5 DEF Rest

LEMMA CallbackFacts ==
    ASSUME NEW r \in Reqs
    PROVE  \E u \in Frame : u.pc = "user" /\ Callback(r) \in {<< >>, <<u>>}
<1>1. [pc |-> "user", req |-> r] \in Frame
  BY DEF Frame
<1> QED BY <1>1 DEF Callback

-----------------------------------------------------------------------------
\* Types.

\* A frame for responses has some left.
PartsLeft == \A n \in DOMAIN stack : stack[n].pc = "parts" => stack[n].parts # << >>

\* While it is destroyed, and only then, a transport is inside of ~Impl.
GoneFrames ==
    \A n \in DOMAIN stack :
        /\ gone => stack[n].pc \in {"destroy", "user"}
        /\ stack[n].pc = "destroy" => gone

\* An entry is of a request that was sent.
OnlySent == \A i \in Ids : pending[i] # None => outcome[pending[i]] # "new"

ShapeInv == TypeOK /\ PartsLeft /\ GoneFrames /\ OnlySent

LEMMA NotGone ==
    ASSUME ShapeInv, stack # << >>, Top.pc \notin {"destroy", "user"}
    PROVE  ~gone
<1>1. Len(stack) \in DOMAIN stack /\ Top = stack[Len(stack)]
  BY TopFacts DEF ShapeInv
<1> QED BY <1>1 DEF ShapeInv, GoneFrames

LEMMA PartsOnTop ==
    ASSUME ShapeInv, At("parts")
    PROVE  /\ stack # << >> /\ Top \in Frame /\ Top.parts # << >> /\ Top.parts \in Seq(Parts)
           /\ Head(Top.parts) \in Parts
           /\ Head(Top.parts).msg.id \in Ids /\ Head(Top.parts).msg.req \in Reqs
<1>1. stack # << >> /\ Top.pc = "parts" /\ TypeOK
  BY DEF At, ShapeInv
<1>2. Top \in Frame /\ Len(stack) \in DOMAIN stack /\ Top = stack[Len(stack)]
  BY <1>1, TopFacts
<1>3. Top.parts # << >>
  BY <1>1, <1>2 DEF ShapeInv, PartsLeft
<1>4. Top.parts \in Seq(Parts) /\ Head(Top.parts) \in Parts
  BY <1>1, <1>2, <1>3, FrameFacts, HeadTailProperties
<1> QED BY <1>1, <1>2, <1>3, <1>4 DEF Parts, Msgs

\* What the handling of a response makes of the stack.
LEMMA HandleRespStack ==
    ASSUME ShapeInv, HandleResp
    PROVE  \E x, e, u \in Frame, fs \in Seq(Frame) :
              /\ Replaces(stack', stack, fs) /\ Piled(fs, x, e, u)
              /\ x.pc = "parts" /\ x.parts = Tail(Top.parts)
              /\ Len(fs) >= 1 /\ (fs[1] = x => Len(Top.parts) # 1)
              /\ e.pc = "erase" /\ e.id = Head(Top.parts).msg.id /\ e.req = pending[e.id]
              /\ u.pc = "user"
<1>1. TypeOK /\ At("parts") /\ stack # << >> /\ Top.parts # << >>
  BY PartsOnTop DEF HandleResp, ShapeInv
<1>2. PICK i \in Ids : i = Head(Top.parts).msg.id
  BY PartsOnTop, <1>1
<1>3. PICK r \in Reqs : r = pending[i]
  BY <1>1, <1>2 DEF HandleResp, TypeOK
<1>4. PICK x \in Frame : /\ x.pc = "parts" /\ x.parts = Tail(Top.parts)
                         /\ Rest \in {<< >>, <<x>>}
  BY <1>1, RestFacts
<1>5. PICK u \in Frame : u.pc = "user" /\ Callback(r) \in {<< >>, <<u>>}
  BY CallbackFacts
<1>6. PICK e \in Frame : e = [pc |-> "erase", id |-> i, req |-> r]
  BY DEF Frame
<1>7. PICK a \in {<< >>, <<x>>} : a = Rest
  BY <1>4
<1>8. PICK c \in {<< >>, <<u>>} : c = Callback(r)
  BY <1>5
<1>9. PICK fs : fs = a \o <<e>> \o c /\ Joined(fs, a, e, c)
  BY DEF Joined
<1>10. Piled(fs, x, e, u) /\ (a = << >> => fs[1] = e)
  <2>1. Maybe(a, x) /\ Maybe(c, u)
    BY DEF Maybe
  <2> QED BY <1>9, <2>1, NewFrames
<1>11. fs \in Seq(Frame) /\ Len(fs) >= 1
  BY <1>10 DEF Piled
<1>13. stack' = Below \o fs
  <2>1. stack' = Below \o Rest \o <<[pc |-> "erase", id |-> i, req |-> r]>> \o Callback(r)
    BY <1>2, <1>3 DEF HandleResp
  <2>2. PICK b \in Seq(Frame) : b = Below
    BY <1>1, TopFacts
  <2>3. a \in Seq(Frame) /\ <<e>> \in Seq(Frame) /\ c \in Seq(Frame)
    <3>1. << >> \in Seq(Frame) /\ <<x>> \in Seq(Frame) /\ <<e>> \in Seq(Frame) /\ <<u>> \in Seq(Frame)
      OBVIOUS
    <3> QED BY <3>1
  <2>4. b \o a \o <<e>> \o c = b \o (a \o <<e>> \o c)
    <3>1. PICK ee \in Seq(Frame) : ee = <<e>>
      BY <2>3
    <3>2. b \o a \o ee \o c = b \o (a \o ee \o c)
      <4>1. (b \o a) \o ee = b \o (a \o ee)
        BY <2>3, ConcatAssociative
      <4>2. a \o ee \in Seq(Frame)
        BY <2>3, ConcatProperties
      <4>3. (b \o (a \o ee)) \o c = b \o ((a \o ee) \o c)
        BY <2>3, <4>2, ConcatAssociative, SMTT(30)
      <4> QED BY <4>1, <4>3
    <3> QED BY <3>1, <3>2
  <2>5. stack' = b \o a \o <<e>> \o c
    BY <2>1, <2>2, <1>6, <1>7, <1>8
  <2> QED BY <2>2, <2>4, <2>5, <1>9
<1>14. Replaces(stack', stack, fs)
  BY <1>1, <1>11, <1>13, TopFacts
<1>15. e.pc = "erase" /\ e.id = i /\ e.req = r
  BY <1>6
<1>16. fs[1] = x => Len(Top.parts) # 1
  <2>1. SUFFICES ASSUME Len(Top.parts) = 1 PROVE fs[1] # x
    OBVIOUS
  <2>2. a = << >>
    BY <1>7, <2>1 DEF Rest
  <2>3. fs[1] = e
    BY <1>10, <2>2
  <2> QED BY <1>4, <1>15, <2>3
<1> QED BY <1>2, <1>3, <1>4, <1>5, <1>10, <1>11, <1>14, <1>15, <1>16

\* A response that is rejected is dropped.
LEMMA RejectRespStack ==
    ASSUME ShapeInv, RejectResp
    PROVE  \E x \in Frame, fs \in Seq(Frame) :
              /\ Replaces(stack', stack, fs)
              /\ x.pc = "parts" /\ x.parts = Tail(Top.parts)
              /\ fs = << >> \/ (fs = <<x>> /\ Len(Top.parts) # 1)
<1>1. TypeOK /\ At("parts") /\ stack # << >> /\ Top.parts # << >>
  BY PartsOnTop DEF RejectResp, ShapeInv
<1>2. PICK x \in Frame : /\ x.pc = "parts" /\ x.parts = Tail(Top.parts)
                         /\ Rest \in {<< >>, <<x>>}
  BY <1>1, RestFacts
<1>3. PICK fs \in {<< >>, <<x>>} : fs = Rest
  BY <1>2
<1>4. fs \in Seq(Frame)
  <2>1. << >> \in Seq(Frame) /\ <<x>> \in Seq(Frame)
    OBVIOUS
  <2> QED BY <2>1
<1>5. Replaces(stack', stack, fs)
  BY <1>1, <1>3, <1>4, TopFacts DEF RejectResp
<1>6. fs = <<x>> => Len(Top.parts) # 1
  BY <1>3 DEF Rest
<1> QED BY <1>2, <1>3, <1>4, <1>5, <1>6

\* The frame of an iteration that has one entry less to visit.
LEMMA VisitedFacts ==
    ASSUME TypeOK, At("check") \/ At("clear"), NEW i
    PROVE  /\ Visited(i) \in Frame /\ Visited(i).pc = Top.pc
           /\ Visited(i).todo = Top.todo \ {i}
           /\ Top.pc = "check" => Visited(i).diff = Top.diff
<1>1. PICK f \in Frame : f = Top
  BY TopFacts DEF At
<1>2. f.pc \in {"check", "clear"} /\ f.todo \subseteq Ids
  BY <1>1, FrameFacts DEF At
<1>3. f.todo \ {i} \in SUBSET Ids
  BY <1>2
<1>4. Visited(i) = [f EXCEPT !.todo = f.todo \ {i}]
  BY <1>1 DEF Visited
<1>5. PICK is \in SUBSET Ids : is = f.todo \ {i}
  BY <1>3
<1>6. PICK g : g = [f EXCEPT !.todo = is]
  OBVIOUS
<1>7. g \in Frame /\ g.pc = f.pc /\ g.todo = is /\ (f.pc = "check" => g.diff = f.diff)
  BY <1>2, <1>6, FrameUpdates
<1> QED BY <1>1, <1>4, <1>5, <1>6, <1>7
\* A loop has come to the entry i of r, which it goes on to erase or to leave.
Interrupted(pc, i, r) ==
    stack' = Below \o <<Visited(i), [pc |-> pc, id |-> i, req |-> r]>> \o Callback(r)

\* What such a step makes of the stack.
LEMMA InterruptedStack ==
    ASSUME TypeOK, NEW i \in Ids, At("check") \/ At("clear"), NEW r \in Reqs,
           NEW pc \in {"erase", "step"}, Interrupted(pc, i, r)
    PROVE  \E x, e, u \in Frame, fs \in Seq(Frame) :
              /\ Replaces(stack', stack, fs) /\ Piled(fs, x, e, u)
              /\ fs[1] = x
              /\ x = Visited(i)
              /\ e.pc = pc /\ e.id = i /\ e.req = r
              /\ u.pc = "user"
<1>1. PICK x \in Frame : x = Visited(i)
  BY VisitedFacts
<1>2. PICK e \in Frame : e = [pc |-> pc, id |-> i, req |-> r]
  BY DEF Frame
<1>3. PICK u \in Frame : u.pc = "user" /\ Callback(r) \in {<< >>, <<u>>}
  BY CallbackFacts
<1>4. PICK c \in {<< >>, <<u>>} : c = Callback(r)
  BY <1>3
<1>5. PICK b \in Seq(Frame) : b = Below
  BY TopFacts DEF At
<1>6. /\ <<x, e>> \in Seq(Frame) /\ Len(<<x, e>>) = 2 /\ <<x, e>>[1] = x /\ <<x, e>>[2] = e
      /\ c \in Seq(Frame) /\ Len(c) \in 0 .. 1 /\ \A k \in 1 .. Len(c) : c[k] = u
  <2>1. << >> \in Seq(Frame) /\ <<u>> \in Seq(Frame) /\ <<x, e>> \in Seq(Frame)
    OBVIOUS
  <2>2. Len(c) \in 0 .. 1 /\ \A k \in 1 .. Len(c) : c[k] = u
    OBVIOUS
  <2> QED BY <2>1, <2>2
<1>7. PICK xe \in Seq(Frame) : xe = <<x, e>>
  BY <1>6
<1>8. PICK fs : fs = xe \o c
  OBVIOUS
<1>9. /\ fs \in Seq(Frame) /\ Len(fs) = Len(xe) + Len(c)
      /\ \A k \in 1 .. Len(xe) + Len(c) : fs[k] = IF k <= Len(xe) THEN xe[k] ELSE c[k - Len(xe)]
  BY <1>6, <1>8, ConcatProperties
<1>10. Len(xe) = 2 /\ xe[1] = x /\ xe[2] = e
  BY <1>6, <1>7
<1>11. ASSUME NEW k \in 1 .. Len(fs)
       PROVE  fs[k] = IF k <= 1 THEN x ELSE IF k = 1 + 1 THEN e ELSE u
  <2>1. CASE k = 1
    BY <1>6, <1>9, <1>10, <2>1
  <2>2. CASE k = 2
    BY <1>6, <1>9, <1>10, <2>2
  <2>3. CASE k > 2
    <3>1. k - Len(xe) \in 1 .. Len(c) /\ fs[k] = c[k - Len(xe)]
      BY <1>6, <1>9, <1>10, <2>3
    <3> QED BY <1>6, <2>3, <3>1
  <2> QED BY <2>1, <2>2, <2>3
<1>12. Len(fs) \in 2 .. 3
  <2>1. PICK n \in 0 .. 1 : n = Len(c)
    BY <1>6
  <2>2. Len(fs) = 2 + n
    BY <1>9, <1>10, <2>1
  <2> QED BY <2>2
<1>13. Piled(fs, x, e, u) /\ fs[1] = x
  BY <1>9, <1>11, <1>12 DEF Piled
<1>14. stack' = Below \o fs
  <2>1. (b \o xe) \o c = b \o (xe \o c)
    BY <1>6, ConcatAssociative
  <2>2. stack' = b \o xe \o c
    BY <1>1, <1>2, <1>4, <1>5, <1>7 DEF Interrupted
  <2> QED BY <1>5, <1>8, <2>1, <2>2
<1>15. Replaces(stack', stack, fs)
  BY <1>9, <1>14, TopFacts DEF At
<1> QED BY <1>1, <1>2, <1>3, <1>9, <1>13, <1>15

\* Every frame of a stack whose top was replaced is one from below or a new one.
LEMMA FramesOf ==
    ASSUME NEW t, NEW s, NEW fs, Replaces(t, s, fs), NEW n \in DOMAIN t
    PROVE  \/ n \in 1 .. Len(s) - 1 /\ n \in DOMAIN s /\ t[n] = s[n]
           \/ \E k \in 1 .. Len(fs) : n = Len(s) - 1 + k /\ t[n] = fs[k]
<1>1. /\ t \in Seq(Frame) /\ s \in Seq(Frame) /\ fs \in Seq(Frame)
      /\ Len(t) = Len(s) - 1 + Len(fs) /\ Len(s) > 0
  BY DEF Replaces
<1>2. n \in 1 .. Len(t) /\ Len(s) \in Nat /\ Len(fs) \in Nat /\ DOMAIN s = 1 .. Len(s)
  BY <1>1
<1>3. CASE n <= Len(s) - 1
  <2>1. n \in 1 .. Len(s) - 1 /\ n \in 1 .. Len(s)
    BY <1>1, <1>2, <1>3
  <2> QED BY <1>2, <2>1 DEF Replaces
<1>4. CASE n > Len(s) - 1
  <2>1. PICK k \in 1 .. Len(fs) : n = Len(s) - 1 + k
    <3>1. n - (Len(s) - 1) \in 1 .. Len(fs) /\ n = Len(s) - 1 + (n - (Len(s) - 1))
      BY <1>1, <1>2, <1>4
    <3> QED BY <3>1
  <2>2. t[Len(s) - 1 + k] = fs[k]
    BY DEF Replaces
  <2> QED BY <2>1, <2>2
<1> QED BY <1>2, <1>3, <1>4

\* A frame is put on the stack, those below may change what they have to do.
LEMMA PushFacts ==
    ASSUME NEW s \in Seq(Frame), NEW g \in Frame, NEW b \in Seq(Frame), Len(b) = Len(s), NEW t, t = b \o <<g>>
    PROVE  /\ t \in Seq(Frame) /\ Len(t) = Len(s) + 1 /\ Len(s) \in Nat
           /\ \A n \in 1 .. Len(s) : t[n] = b[n]
           /\ t[Len(s) + 1] = g
<1>0. <<g>> \in Seq(Frame)
  OBVIOUS
<1>1. PICK gs \in Seq(Frame) : gs = <<g>>
  BY <1>0
<1>2. Len(gs) = 1 /\ gs[1] = g /\ Len(s) \in Nat
  BY <1>1
<1>3. PICK m \in Nat : m = Len(s)
  BY <1>2
<1>4. /\ t \in Seq(Frame) /\ Len(t) = m + 1
      /\ \A i \in 1 .. m + 1 : t[i] = IF i <= m THEN b[i] ELSE gs[i - m]
  <2>1. t = b \o gs
    BY <1>1
  <2> QED BY <1>2, <1>3, <2>1, ConcatProperties
<1>5. \A n \in 1 .. m : t[n] = b[n]
  BY <1>4
<1>6. t[m + 1] = g
  <2>1. m + 1 \in 1 .. m + 1 /\ ~(m + 1 <= m) /\ (m + 1) - m = 1
    OBVIOUS
  <2> QED BY <1>2, <1>4, <2>1
<1> QED BY <1>3, <1>4, <1>5, <1>6

\* What an insertion does to the frames below.
Inserted(f, new, rehash, x) ==
    /\ AfterInsert(f, new, rehash, x) \in Frame
    /\ AfterInsert(f, new, rehash, x).pc = f.pc
    /\ f.pc \notin {"check", "clear"} => AfterInsert(f, new, rehash, x) = f
    /\ f.pc = "check" => AfterInsert(f, new, rehash, x).diff = f.diff
    /\ f.pc = "check" /\ ~rehash => f.todo \subseteq AfterInsert(f, new, rehash, x).todo

LEMMA AfterInsertFacts ==
    ASSUME NEW f \in Frame, NEW new \in SUBSET Ids, NEW rehash \in BOOLEAN, NEW x \in SUBSET Ids
    PROVE  Inserted(f, new, rehash, x)
<1>1. CASE f.pc \notin {"check", "clear"}
  BY <1>1 DEF AfterInsert, Inserted
<1>2. CASE f.pc \in {"check", "clear"}
  <2>1. f.todo \subseteq Ids
    BY <1>2, FrameFacts
  <2>2. PICK is \in SUBSET Ids : is = IF rehash THEN x ELSE f.todo \cup (x \cap new)
    BY <2>1
  <2>3. AfterInsert(f, new, rehash, x) = [f EXCEPT !.todo = is]
    BY <1>2, <2>2 DEF AfterInsert
  <2>4. /\ [f EXCEPT !.todo = is] \in Frame /\ [f EXCEPT !.todo = is].pc = f.pc
        /\ [f EXCEPT !.todo = is].todo = is
        /\ f.pc = "check" => [f EXCEPT !.todo = is].diff = f.diff
    BY <1>2, FrameUpdates
  <2> QED BY <1>2, <2>2, <2>3, <2>4 DEF Inserted
<1> QED BY <1>1, <1>2

\* The requests of one call of SendMethod or SendBatch.
Batch(rs) ==
    /\ rs \in Seq(Reqs) /\ Len(rs) \in 1 .. 2 /\ DOMAIN rs = 1 .. Len(rs)
    /\ \A k, l \in 1 .. Len(rs) : k # l => rs[k] # rs[l]

LEMMA Batches ==
    ASSUME NEW r \in Reqs, NEW q \in Reqs
    PROVE  Batch(<<r>>) /\ (r # q => Batch(<<r, q>>))
<1>1. <<r>> \in Seq(Reqs) /\ <<r, q>> \in Seq(Reqs)
  OBVIOUS
<1>2. Len(<<r>>) = 1 /\ DOMAIN <<r>> = 1 .. 1 /\ \A k, l \in 1 .. 1 : k = l
  OBVIOUS
<1>3. /\ Len(<<r, q>>) = 2 /\ DOMAIN <<r, q>> = 1 .. 2 /\ <<r, q>>[1] = r /\ <<r, q>>[2] = q
      /\ \A k, l \in 1 .. 2 : k # l => (k = 1 /\ l = 2) \/ (k = 2 /\ l = 1)
  OBVIOUS
<1>4. Batch(<<r>>)
  BY <1>1, <1>2 DEF Batch
<1>5. r # q => Batch(<<r, q>>)
  BY <1>1, <1>3 DEF Batch
<1> QED BY <1>4, <1>5

LEMMA IdFacts ==
    ASSUME id \in Ids, NEW k \in Nat \ {0}
    PROVE  IdOf(k) \in Ids /\ IdAfter(k) \in Ids
<1>1. PICK m \in Nat \ {0} : m = IdSpace
  BY ClockAssumption
<1>2. \A n \in Nat : n % m \in 0 .. m - 1
  OBVIOUS
<1>3. id + k - 1 \in Nat /\ id + k \in Nat
  BY <1>1 DEF Ids
<1> QED BY <1>1, <1>2, <1>3 DEF IdOf, IdAfter, Ids

LEMMA BatchIds ==
    ASSUME id \in Ids, NEW rs, Batch(rs)
    PROVE  /\ \A k \in DOMAIN rs : IdOf(k) \in Ids /\ rs[k] \in Reqs
           /\ NewIds(rs) \subseteq Ids
           /\ {[id |-> IdOf(k), req |-> rs[k]] : k \in DOMAIN rs} \subseteq Msgs
<1>1. ASSUME NEW k \in DOMAIN rs
      PROVE  IdOf(k) \in Ids /\ rs[k] \in Reqs
  <2>1. rs \in Seq(Reqs) /\ k \in 1 .. Len(rs)
    BY DEF Batch
  <2>2. k \in Nat \ {0} /\ rs[k] \in Reqs
    BY <2>1
  <2> QED BY <2>2, IdFacts
<1>2. NewIds(rs) \subseteq Ids
  BY <1>1 DEF NewIds
<1>3. {[id |-> IdOf(k), req |-> rs[k]] : k \in DOMAIN rs} \subseteq Msgs
  BY <1>1 DEF Msgs
<1> QED BY <1>1, <1>2, <1>3

\* What sending makes of the stack.
LEMMA SendStack ==
    ASSUME TypeOK, NEW rs, NEW t, Batch(rs), Send(rs, t)
    PROVE  \E g \in Frame, new \in SUBSET Ids, rehash \in BOOLEAN, x \in SUBSET Ids :
              /\ g.pc = "send"
              /\ missed' = IF rehash /\ Checking THEN missed \cup {pending[i] : i \in Used} ELSE missed
              /\ new = NewIds(rs)
              /\ stack' \in Seq(Frame) /\ Len(stack) \in Nat /\ Len(stack') = Len(stack) + 1
              /\ \A n \in 1 .. Len(stack) :
                    stack[n] \in Frame /\ stack'[n] = AfterInsert(stack[n], new, rehash, x)
              /\ stack'[Len(stack) + 1] = g
<1>1. id \in Ids /\ Used \subseteq Ids
  BY DEF TypeOK, Used
<1>2. PICK new \in SUBSET Ids : new = NewIds(rs)
  BY <1>1, BatchIds
<1>4. PICK g \in Frame : g = [pc |-> "send"]
  BY DEF Frame
<1>5. PICK rehash \in BOOLEAN, x \in SUBSET Ids :
        /\ stack' = [n \in DOMAIN stack |-> AfterInsert(stack[n], new, rehash, x)] \o <<g>>
        /\ missed' = IF rehash /\ Checking THEN missed \cup {pending[i] : i \in Used} ELSE missed
  BY <1>1, <1>2, <1>4 DEF Send
<1>6. PICK s \in Seq(Frame) : s = stack
  BY DEF TypeOK
<1>7. PICK m \in Nat : m = Len(s) /\ DOMAIN s = 1 .. m
  BY <1>6
<1>8. \A n \in 1 .. m : s[n] \in Frame
  BY <1>7, ElementOfSeq
<1>9. PICK b : b = [n \in 1 .. m |-> AfterInsert(s[n], new, rehash, x)]
  OBVIOUS
<1>10. \A n \in 1 .. m : AfterInsert(s[n], new, rehash, x) \in Frame
  <2> TAKE n \in 1 .. m
  <2>1. s[n] \in Frame
    BY <1>8
  <2>2. Inserted(s[n], new, rehash, x)
    BY <2>1, AfterInsertFacts
  <2> QED BY <2>2 DEF Inserted
<1>11. b \in Seq(Frame) /\ Len(b) = m /\ \A n \in 1 .. m : b[n] = AfterInsert(s[n], new, rehash, x)
  BY <1>9, <1>10
<1>12. PICK tt : tt = b \o <<g>>
  OBVIOUS
<1>13. /\ tt \in Seq(Frame) /\ Len(tt) = m + 1
       /\ \A n \in 1 .. m : tt[n] = b[n]
       /\ tt[m + 1] = g
  BY <1>7, <1>11, <1>12, PushFacts
<1>14. stack' = tt
  BY <1>5, <1>6, <1>7, <1>9, <1>12
<1>15. g.pc = "send"
  BY <1>4
<1>16. /\ stack' \in Seq(Frame) /\ Len(stack) \in Nat /\ Len(stack') = Len(stack) + 1
       /\ stack'[Len(stack) + 1] = g
  BY <1>6, <1>7, <1>13, <1>14
<1>17. \A n \in 1 .. Len(stack) : stack[n] \in Frame /\ stack'[n] = AfterInsert(stack[n], new, rehash, x)
  BY <1>6, <1>7, <1>8, <1>11, <1>13, <1>14
<1> QED BY <1>2, <1>5, <1>15, <1>16, <1>17

-----------------------------------------------------------------------------
\* What a step does to the stack.

Holder(f) == f.pc \in {"erase", "step"}

\* The n-th frame is as it was.
Same(n) == n \in DOMAIN stack /\ stack'[n] = stack[n]

\* The message a response is about is on the wire, or was being handled.
Known(m) ==
    \/ m \in wire
    \/ \E n \in DOMAIN stack : /\ stack[n].pc = "parts"
                               /\ \E k \in DOMAIN stack[n].parts : m = stack[n].parts[k].msg

\* What a step may put on the stack.
Fresh(f) ==
    /\ gone' => f.pc \in {"destroy", "user"}
    /\ f.pc = "destroy" => gone'
    /\ f.pc = "parts" => f.parts # << >> /\ \A k \in DOMAIN f.parts : Known(f.parts[k].msg)
    /\ Holder(f) => /\ pending'[f.id] = f.req
                    /\ outcome'[f.req] \in Settled
                    /\ f.pc = "erase" => overtaken' \/ ~Held(f.id)

StackStep ==
    /\ stack' \in Seq(Frame)
    /\ \A n \in DOMAIN stack' : Same(n) \/ Fresh(stack'[n])
    /\ \A n \in DOMAIN stack' : n < Len(stack) => Same(n) \/ ~Holder(stack'[n])
    /\ \A m, n \in DOMAIN stack' :
          Len(stack) <= m /\ m < n => ~(Holder(stack'[m]) /\ Holder(stack'[n]))

\* The top is replaced by some frames.
LEMMA ReplaceStep ==
    ASSUME NEW fs, Replaces(stack', stack, fs),
           \A k \in 1 .. Len(fs) : Fresh(fs[k]),
           \A j, k \in 1 .. Len(fs) : j < k => ~(Holder(fs[j]) /\ Holder(fs[k]))
    PROVE  StackStep
<1>1. PICK t, s : t = stack' /\ s = stack /\ Replaces(t, s, fs)
  OBVIOUS
<1>2. t \in Seq(Frame) /\ s \in Seq(Frame) /\ fs \in Seq(Frame)
  BY <1>1 DEF Replaces
<1>3. PICK l \in Nat : l = Len(s)
  BY <1>2
<1>4. PICK h \in Nat : h = Len(fs)
  BY <1>2
<1>5. ASSUME NEW n \in DOMAIN t
      PROVE  \/ n \in 1 .. l - 1 /\ Same(n)
             \/ \E k \in 1 .. h : n = l - 1 + k /\ t[n] = fs[k]
  BY <1>1, <1>3, <1>4, <1>5, FramesOf DEF Same
<1>6. ASSUME NEW n \in DOMAIN t
      PROVE  Same(n) \/ Fresh(t[n])
  BY <1>4, <1>5, <1>6
<1>7. ASSUME NEW n \in DOMAIN t, n < l
      PROVE  Same(n)
  BY <1>5, <1>7
<1>8. ASSUME NEW m \in DOMAIN t, NEW n \in DOMAIN t, l <= m, m < n
      PROVE  ~(Holder(t[m]) /\ Holder(t[n]))
  <2>1. PICK j \in 1 .. h : m = l - 1 + j /\ t[m] = fs[j]
    BY <1>5, <1>8
  <2>2. PICK k \in 1 .. h : n = l - 1 + k /\ t[n] = fs[k]
    BY <1>5, <1>8
  <2>3. j < k
    BY <1>8, <2>1, <2>2
  <2> QED BY <1>4, <2>1, <2>2, <2>3
<1> QED BY <1>1, <1>2, <1>3, <1>6, <1>7, <1>8 DEF StackStep

\* The top is left.
LEMMA PopStep ==
    ASSUME TypeOK, stack # << >>, stack' = Below
    PROVE  StackStep
<1>1. Replaces(stack', stack, << >>)
  BY TopFacts
<1>2. \A k \in 1 .. Len(<< >>) : FALSE
  BY EmptySeq
<1> QED BY <1>1, <1>2, ReplaceStep

\* A frame is put on top.
LEMMA PushStep ==
    ASSUME TypeOK, NEW f \in Frame, stack' = Append(stack, f), Fresh(f), ~Holder(f)
    PROVE  StackStep
<1>1. PICK s \in Seq(Frame) : s = stack
  BY DEF TypeOK
<1>2. PICK t : t = Append(s, f)
  OBVIOUS
<1>3. PICK l \in Nat : l = Len(s)
  BY <1>1
<1>4. /\ t \in Seq(Frame) /\ Len(t) = l + 1 /\ DOMAIN t = 1 .. l + 1 /\ DOMAIN s = 1 .. l
      /\ \A n \in 1 .. l : t[n] = s[n]
      /\ t[l + 1] = f
  BY <1>2, <1>3, AppendProperties, LenProperties
<1>5. stack' = t
  BY <1>1, <1>2
<1>6. \A n \in 1 .. l : Same(n)
  BY <1>1, <1>4, <1>5 DEF Same
<1>7. \A n \in DOMAIN t : Same(n) \/ Fresh(t[n])
  BY <1>4, <1>6
<1>8. \A n \in DOMAIN t : n < l => Same(n)
  BY <1>4, <1>6
<1>9. \A m, n \in DOMAIN t : l <= m /\ m < n => ~Holder(t[n])
  BY <1>4
<1> QED BY <1>1, <1>3, <1>4, <1>5, <1>7, <1>8, <1>9 DEF StackStep

LEMMA StayStep == ASSUME TypeOK, stack' = stack PROVE StackStep
<1>1. \A n \in DOMAIN stack' : Same(n)
  BY DEF Same
<1>2. Len(stack) \in Nat /\ DOMAIN stack = 1 .. Len(stack)
  BY DEF TypeOK
<1>3. \A m, n \in DOMAIN stack' : ~(Len(stack) <= m /\ m < n)
  BY <1>2
<1> QED BY <1>1, <1>3 DEF StackStep, TypeOK

LEMMA EmptyStep == ASSUME stack' = << >> PROVE StackStep
<1>1. stack' \in Seq(Frame) /\ DOMAIN stack' = {}
  OBVIOUS
<1> QED BY <1>1 DEF StackStep

\* The parts that are left are about messages the frame has held before.
LEMMA RestKnown ==
    ASSUME ShapeInv, At("parts"), Len(Top.parts) # 1, ~gone, gone' = gone,
           NEW x \in Frame, x.pc = "parts", x.parts = Tail(Top.parts)
    PROVE  Fresh(x)
<1>1. /\ Len(stack) \in DOMAIN stack /\ Top = stack[Len(stack)] /\ Top.pc = "parts"
      /\ Top.parts # << >> /\ Top.parts \in Seq(Parts)
  BY PartsOnTop, TopFacts DEF ShapeInv, At
<1>2. PICK ps \in Seq(Parts) : ps = Top.parts
  BY <1>1
<1>3. Tail(ps) # << >>
  BY <1>1, <1>2, TailLeft
<1>4. /\ Len(ps) \in Nat \ {0} /\ Tail(ps) \in Seq(Parts) /\ Len(Tail(ps)) = Len(ps) - 1
      /\ \A k \in 1 .. Len(Tail(ps)) : Tail(ps)[k] = ps[k + 1]
  BY <1>1, <1>2, EmptySeq, HeadTailProperties
<1>5. ASSUME NEW k \in DOMAIN Tail(ps)
      PROVE  k + 1 \in DOMAIN ps /\ Tail(ps)[k] = ps[k + 1]
  <2>1. k \in 1 .. Len(ps) - 1 /\ DOMAIN ps = 1 .. Len(ps)
    BY <1>4
  <2>2. k + 1 \in 1 .. Len(ps)
    BY <1>4, <2>1
  <2> QED BY <1>4, <2>1, <2>2
<1>6. ASSUME NEW k \in DOMAIN x.parts
      PROVE  Known(x.parts[k].msg)
  <2>1. k + 1 \in DOMAIN ps /\ x.parts[k] = ps[k + 1]
    BY <1>2, <1>5
  <2>2. k + 1 \in DOMAIN stack[Len(stack)].parts /\ x.parts[k].msg = stack[Len(stack)].parts[k + 1].msg
    BY <1>1, <1>2, <2>1
  <2> QED BY <1>1, <2>2 DEF Known
<1> QED BY <1>2, <1>3, <1>6 DEF Fresh, Holder

\* The promise of an entry that was settled is settled.
LEMMA SettledAfter ==
    ASSUME ShapeInv, NEW i \in Ids, pending[i] # None, NEW o \in Settled, Settle(pending[i], o)
    PROVE  pending[i] \in Reqs /\ outcome'[pending[i]] \in Settled
<1>1. PICK r \in Reqs : r = pending[i]
  BY DEF ShapeInv, TypeOK
<1>2. outcome[r] \in {"open"} \cup Settled
  BY <1>1 DEF ShapeInv, TypeOK, OnlySent
<1>3. outcome'[r] = IF outcome[r] = "open" THEN o ELSE outcome[r]
  BY <1>1, SettleFacts DEF ShapeInv
<1> QED BY <1>1, <1>2, <1>3

LEMMA LoopOnTop ==
    ASSUME ShapeInv, At("check") \/ At("clear")
    PROVE  /\ stack # << >> /\ Top \in Frame /\ Top.pc \in {"check", "clear"} /\ ~gone
           /\ Top.todo \subseteq Ids /\ (At("check") => Top.diff \in Nat)
           /\ \A i \in Top.todo : Visited(i) \in Frame /\ Visited(i).pc = Top.pc
<1>1. stack # << >> /\ Top.pc \in {"check", "clear"} /\ TypeOK
  BY DEF At, ShapeInv
<1>2. Top \in Frame
  BY <1>1, TopFacts
<1>3. ~gone
  BY <1>1, NotGone
<1>4. Top.todo \subseteq Ids /\ (At("check") => Top.diff \in Nat)
  BY <1>1, <1>2, FrameFacts DEF At
<1>5. \A i \in Top.todo : Visited(i) \in Frame /\ Visited(i).pc = Top.pc
  BY <1>1, VisitedFacts
<1> QED BY <1>1, <1>2, <1>3, <1>4, <1>5

LEMMA RejectRespStep == ASSUME ShapeInv, RejectResp PROVE StackStep
<1>1. At("parts") /\ stack # << >> /\ TypeOK /\ Top.parts # << >> /\ Top.parts \in Seq(Parts)
  BY PartsOnTop DEF RejectResp, ShapeInv
<1>2. ~gone /\ gone' = gone
  BY <1>1, NotGone DEF At, RejectResp
<1>3. PICK x \in Frame, fs \in Seq(Frame) :
              /\ Replaces(stack', stack, fs)
              /\ x.pc = "parts" /\ x.parts = Tail(Top.parts)
              /\ fs = << >> \/ (fs = <<x>> /\ Len(Top.parts) # 1)
  BY RejectRespStack
<1>4. Len(Top.parts) # 1 => Fresh(x)
  BY <1>1, <1>2, <1>3, RestKnown
<1>5. \A k \in 1 .. Len(fs) : Fresh(fs[k])
  <2>1. CASE fs = << >>
    BY <2>1
  <2>2. CASE fs = <<x>> /\ Len(Top.parts) # 1
    BY <1>4, <2>2
  <2> QED BY <1>3, <2>1, <2>2
<1>6. \A j, k \in 1 .. Len(fs) : ~(j < k)
  <2>1. CASE fs = << >>
    BY <2>1
  <2>2. CASE fs = <<x>>
    BY <2>2
  <2> QED BY <1>3, <2>1, <2>2
<1> QED BY <1>3, <1>5, <1>6, ReplaceStep

LEMMA HandleRespStep == ASSUME ShapeInv, HandleResp PROVE StackStep
<1>1. At("parts") /\ stack # << >> /\ TypeOK /\ Top.parts # << >> /\ Top.parts \in Seq(Parts)
      /\ Head(Top.parts).msg.id \in Ids
  BY PartsOnTop DEF HandleResp, ShapeInv
<1>2. ~gone /\ gone' = gone
  BY <1>1, NotGone DEF At, HandleResp
<1>3. PICK x, e, u \in Frame, fs \in Seq(Frame) :
              /\ Replaces(stack', stack, fs) /\ Piled(fs, x, e, u)
              /\ x.pc = "parts" /\ x.parts = Tail(Top.parts)
              /\ Len(fs) >= 1 /\ (fs[1] = x => Len(Top.parts) # 1)
              /\ e.pc = "erase" /\ e.id = Head(Top.parts).msg.id /\ e.req = pending[e.id]
              /\ u.pc = "user"
  BY HandleRespStack
<1>4. PICK n \in 0 .. 1 : \A k \in 1 .. Len(fs) :
          fs[k] = IF k <= n THEN x ELSE IF k = n + 1 THEN e ELSE u
  BY <1>3 DEF Piled
<1>5. Fresh(u)
  BY <1>3 DEF Fresh, Holder
<1>6. Fresh(e)
  <2>1. PICK i \in Ids : i = e.id /\ i = Head(Top.parts).msg.id
    BY <1>1, <1>3
  <2>2. PICK o \in Settled : Settle(pending[i], o)
    BY <2>1 DEF HandleResp, Settled
  <2>3. pending[i] # None /\ pending' = pending
    BY <2>1 DEF HandleResp, table
  <2>4. outcome'[pending[i]] \in Settled
    BY <2>2, <2>3, SettledAfter
  <2>5. overtaken' \/ ~Held(i)
    BY <2>1 DEF HandleResp
  <2> QED BY <1>2, <1>3, <2>1, <2>3, <2>4, <2>5 DEF Fresh
<1>7. Len(fs) \in 1 .. 3
  BY <1>3 DEF Piled
<1>8. ASSUME n = 1 PROVE Fresh(x)
  <2>1. fs[1] = x
    BY <1>4, <1>7, <1>8
  <2> QED BY <1>1, <1>2, <1>3, <2>1, RestKnown
<1>9. \A k \in 1 .. Len(fs) : Fresh(fs[k])
  <2> TAKE k \in 1 .. Len(fs)
  <2>1. k <= n => n = 1
    BY <1>7
  <2> QED BY <1>4, <1>5, <1>6, <1>8, <2>1
<1>10. \A j, k \in 1 .. Len(fs) : j < k => ~(Holder(fs[j]) /\ Holder(fs[k]))
  <2>1. ~Holder(x) /\ ~Holder(u)
    BY <1>3 DEF Holder
  <2>2. \A k \in 1 .. Len(fs) : Holder(fs[k]) => k = n + 1
    BY <1>4, <2>1
  <2> QED BY <1>7, <2>2
<1> QED BY <1>3, <1>9, <1>10, ReplaceStep

\* A loop goes on to the next entry, with a callback or without.
LEMMA InterruptedStep ==
    ASSUME ShapeInv, At("check") \/ At("clear"), gone' = gone,
           NEW i \in Top.todo, pending[i] # None, NEW pc \in {"erase", "step"}, pending' = pending,
           NEW o \in Settled, Settle(pending[i], o), Interrupted(pc, i, pending[i]),
           pc = "erase" => overtaken' \/ ~Held(i)
    PROVE  StackStep
<1>1. i \in Ids /\ ~gone /\ Visited(i) \in Frame /\ Visited(i).pc \in {"check", "clear"}
  BY LoopOnTop
<1>2. PICK r \in Reqs : r = pending[i] /\ outcome'[r] \in Settled
  BY <1>1, SettledAfter
<1>3. PICK x, e, u \in Frame, fs \in Seq(Frame) :
              /\ Replaces(stack', stack, fs) /\ Piled(fs, x, e, u)
              /\ fs[1] = x
              /\ x = Visited(i)
              /\ e.pc = pc /\ e.id = i /\ e.req = r
              /\ u.pc = "user"
  <2>1. TypeOK /\ Interrupted(pc, i, r)
    BY <1>2 DEF ShapeInv
  <2> QED BY <1>1, <2>1, InterruptedStack
<1>4. PICK n \in 0 .. 1 : \A k \in 1 .. Len(fs) :
          fs[k] = IF k <= n THEN x ELSE IF k = n + 1 THEN e ELSE u
  BY <1>3 DEF Piled
<1>5. Len(fs) \in 1 .. 3
  BY <1>3 DEF Piled
<1>6. Fresh(x) /\ Fresh(u) /\ ~Holder(x) /\ ~Holder(u)
  BY <1>1, <1>3 DEF Fresh, Holder
<1>7. Fresh(e)
  BY <1>1, <1>2, <1>3 DEF Fresh
<1>8. \A k \in 1 .. Len(fs) : Fresh(fs[k])
  BY <1>4, <1>6, <1>7
<1>9. \A j, k \in 1 .. Len(fs) : j < k => ~(Holder(fs[j]) /\ Holder(fs[k]))
  <2>1. \A k \in 1 .. Len(fs) : Holder(fs[k]) => k = n + 1
    BY <1>4, <1>6
  <2> QED BY <1>5, <2>1
<1> QED BY <1>3, <1>8, <1>9, ReplaceStep

LEMMA VisitStep ==
    ASSUME ShapeInv, At("check") \/ At("clear"), gone' = gone,
           NEW i \in Top.todo, stack' = Below \o <<Visited(i)>>
    PROVE  StackStep
<1>1. PICK x \in Frame : x = Visited(i) /\ x.pc \in {"check", "clear"} /\ ~gone
  BY LoopOnTop
<1>2. PICK fs \in Seq(Frame) : fs = <<x>> /\ Len(fs) = 1 /\ fs[1] = x
  <2>1. <<x>> \in Seq(Frame) /\ Len(<<x>>) = 1 /\ <<x>>[1] = x
    OBVIOUS
  <2> QED BY <2>1
<1>3. Replaces(stack', stack, fs)
  BY <1>1, <1>2, TopFacts DEF ShapeInv, At
<1>4. Fresh(x) /\ ~Holder(x)
  BY <1>1 DEF Fresh, Holder
<1>5. \A k \in 1 .. Len(fs) : Fresh(fs[k]) /\ ~Holder(fs[k])
  BY <1>2, <1>4
<1> QED BY <1>3, <1>5, ReplaceStep

LEMMA DeductStep == ASSUME ShapeInv, Deduct PROVE StackStep
<1>1. PICK i \in Top.todo : stack' = Below \o <<Visited(i)>>
  BY DEF Deduct
<1> QED BY <1>1, VisitStep DEF Deduct

LEMMA TimeoutHappenedStep == ASSUME ShapeInv, TimeoutHappened PROVE StackStep
<1>1. PICK i \in Top.todo :
        /\ Expired(i, Top.diff)
        /\ Settle(pending[i], "timeout")
        /\ stack' = Below \o <<Visited(i), [pc |-> "erase", id |-> i, req |-> pending[i]]>>
                    \o Callback(pending[i])
        /\ overtaken' = (overtaken \/ Held(i))
  BY DEF TimeoutHappened
<1>2. pending[i] # None /\ pending' = pending /\ gone' = gone /\ At("check")
  BY <1>1 DEF TimeoutHappened, Expired, table
<1>3. Interrupted("erase", i, pending[i])
  BY <1>1 DEF Interrupted
<1>4. "timeout" \in Settled /\ (overtaken' \/ ~Held(i))
  BY <1>1 DEF Settled
<1> QED BY <1>1, <1>2, <1>3, <1>4, InterruptedStep

LEMMA CancelStep == ASSUME ShapeInv, Cancel PROVE StackStep
<1>1. PICK i \in Top.todo :
        IF pending[i] = None
        THEN stack' = Below \o <<Visited(i)>> /\ UNCHANGED outcome
        ELSE /\ Settle(pending[i], "cancelled")
             /\ stack' = Below \o <<Visited(i), [pc |-> "step", id |-> i, req |-> pending[i]]>>
                         \o Callback(pending[i])
  BY DEF Cancel
<1>2. pending' = pending /\ gone' = gone /\ At("clear")
  BY DEF Cancel, table
<1>3. CASE pending[i] = None
  BY <1>1, <1>2, <1>3, VisitStep
<1>4. CASE pending[i] # None
  <2>1. Interrupted("step", i, pending[i]) /\ Settle(pending[i], "cancelled")
    BY <1>1, <1>4 DEF Interrupted
  <2>2. "cancelled" \in Settled /\ "step" \in {"erase", "step"} /\ "step" # "erase"
    BY DEF Settled
  <2> QED BY <1>2, <1>4, <2>1, <2>2, InterruptedStep
<1> QED BY <1>3, <1>4

LEMMA ReceiveStep == ASSUME ShapeInv, Receive PROVE StackStep
<1>1. TypeOK /\ ~gone /\ gone' = gone /\ wire \in SUBSET Msgs
  BY DEF Receive, UserRuns, MayCall, ShapeInv, TypeOK
<1>2. PICK ps \in Answers(wire) : stack' = Append(stack, [pc |-> "parts", parts |-> ps])
  BY DEF Receive
<1>3. ps \in Seq(Parts) /\ ps # << >> /\ \A k \in DOMAIN ps : ps[k].msg \in wire
  <2>1. PICK ms \in SUBSET Msgs : ms = wire
    BY <1>1
  <2>2. ps \in Answers(ms)
    BY <2>1
  <2> QED BY <2>1, <2>2, AnswersFacts
<1>4. PICK f \in Frame : f = [pc |-> "parts", parts |-> ps]
  BY <1>3 DEF Frame
<1>5. f.pc = "parts" /\ f.parts = ps
  BY <1>4
<1>6. Fresh(f) /\ ~Holder(f)
  BY <1>1, <1>3, <1>5 DEF Fresh, Holder, Known
<1> QED BY <1>1, <1>2, <1>4, <1>6, PushStep

LEMMA CheckFrame ==
    ASSUME TypeOK, CheckTimeouts
    PROVE  \E f \in Frame : /\ f.pc = "check" /\ f.todo = Used /\ f.diff = elapsed \div TicksPerMs
                            /\ stack' = Append(stack, f)
<1>1. PICK is \in SUBSET Ids : is = Used
  BY DEF Used
<1>2. PICK d \in Nat : d = elapsed \div TicksPerMs
  <2>1. PICK m \in Nat \ {0} : m = TicksPerMs
    BY ClockAssumption
  <2>2. \A n \in Nat : n \div m \in Nat
    OBVIOUS
  <2> QED BY <2>1, <2>2 DEF TypeOK
<1>3. PICK f \in Frame : f = [pc |-> "check", todo |-> is, diff |-> d]
  BY DEF Frame
<1>4. f.pc = "check" /\ f.todo = is /\ f.diff = d
  BY <1>3
<1> QED BY <1>1, <1>2, <1>3, <1>4 DEF CheckTimeouts

LEMMA CheckTimeoutsStep == ASSUME ShapeInv, CheckTimeouts PROVE StackStep
<1>1. TypeOK /\ ~gone /\ gone' = gone
  BY DEF CheckTimeouts, UserRuns, MayCall, ShapeInv
<1>2. PICK f \in Frame : f.pc = "check" /\ stack' = Append(stack, f)
  BY <1>1, CheckFrame
<1>3. Fresh(f) /\ ~Holder(f)
  BY <1>1, <1>2 DEF Fresh, Holder
<1> QED BY <1>1, <1>2, <1>3, PushStep

LEMMA ClearAllPendingStep == ASSUME ShapeInv, ClearAllPending PROVE StackStep
<1>1. TypeOK /\ ~gone /\ gone' = gone
  BY DEF ClearAllPending, UserRuns, MayCall, ShapeInv
<1>2. PICK is \in SUBSET Ids : is = Used
  BY DEF Used
<1>3. PICK f \in Frame : f = [pc |-> "clear", todo |-> is]
  BY DEF Frame
<1>4. f.pc = "clear" /\ stack' = Append(stack, f)
  BY <1>2, <1>3 DEF ClearAllPending
<1>5. Fresh(f) /\ ~Holder(f)
  BY <1>1, <1>4 DEF Fresh, Holder
<1> QED BY <1>1, <1>4, <1>5, PushStep

\* The callback of a promise that is broken goes on the stack.
LEMMA BrokenFacts ==
    ASSUME TypeOK, NEW i \in Ids, pending[i] # None
    PROVE  \E u \in Frame : u.pc = "user" /\ BrokenCallback(i) \in {<< >>, <<u>>}
<1>1. pending[i] \in Reqs /\ BrokenCallback(i) = Callback(pending[i])
  BY DEF BrokenCallback, TypeOK
<1> QED BY <1>1, CallbackFacts

LEMMA BreakStep == ASSUME ShapeInv, Break PROVE StackStep
<1>1. TypeOK
  BY DEF ShapeInv
<1>2. PICK i \in Used : stack' = stack \o BrokenCallback(i)
  BY DEF Break
<1>3. i \in Ids /\ pending[i] # None
  BY <1>1 DEF Used, TypeOK
<1>4. PICK u \in Frame : u.pc = "user" /\ BrokenCallback(i) \in {<< >>, <<u>>}
  BY <1>1, <1>3, BrokenFacts
<1>5. CASE BrokenCallback(i) = << >>
  <2>1. stack' = stack
    BY <1>1, <1>2, <1>5, ConcatEmptySeq DEF TypeOK
  <2> QED BY <1>1, <2>1, StayStep
<1>6. CASE BrokenCallback(i) = <<u>>
  <2>1. PICK s \in Seq(Frame) : s = stack
    BY <1>1 DEF TypeOK
  <2>2. s \o <<u>> = Append(s, u)
    OBVIOUS
  <2>3. stack' = Append(stack, u)
    BY <1>2, <1>6, <2>1, <2>2
  <2>4. Fresh(u) /\ ~Holder(u)
    BY <1>4 DEF Fresh, Holder
  <2> QED BY <1>1, <2>3, <2>4, PushStep
<1> QED BY <1>4, <1>5, <1>6

LEMMA DestroyStep == ASSUME ShapeInv, Destroy PROVE StackStep
<1>1. TypeOK /\ stack = << >> /\ stack' = <<[pc |-> "destroy"]>>
  BY DEF Destroy, ShapeInv
<1>2. PICK f \in Frame : f = [pc |-> "destroy"]
  BY DEF Frame
<1>3. stack' = Append(stack, f)
  BY <1>1, <1>2
<1>4. Fresh(f) /\ ~Holder(f)
  BY <1>2 DEF Fresh, Holder, Destroy
<1> QED BY <1>1, <1>3, <1>4, PushStep

LEMMA AstrayFacts ==
    ASSUME NEW f \in Frame, NEW x \in SUBSET Ids
    PROVE  /\ Astray(f, x) \in Frame
           /\ Astray(f, x) = f \/ Astray(f, x).pc \in {"check", "clear"}
<1>1. CASE f.pc \in {"check", "clear"}
  <2>1. Astray(f, x) = [f EXCEPT !.todo = x]
    BY <1>1 DEF Astray
  <2>2. [f EXCEPT !.todo = x] \in Frame /\ [f EXCEPT !.todo = x].pc = f.pc
    BY <1>1, FrameUpdates
  <2> QED BY <1>1, <2>1, <2>2
<1>2. CASE f.pc \notin {"check", "clear"}
  BY <1>2 DEF Astray
<1> QED BY <1>1, <1>2

\* The frames below the top after a loop of theirs has lost its way.
LEMMA DanglingStep == ASSUME ShapeInv, Dangling PROVE StackStep
<1>1. TypeOK /\ stack # << >> /\ Top.pc \in {"erase", "step"}
  BY DEF Dangling, At, ShapeInv
<1>2. ~gone
  BY <1>1, NotGone
<1>3. CASE stack' = << >>
  BY <1>3, EmptyStep
<1>4. ASSUME NEW i \in Ids, NEW x \in SUBSET Ids, gone' = gone,
             stack' = [n \in DOMAIN Below |-> IF n = Len(Below) THEN Astray(stack[n], x) ELSE stack[n]]
                        \o IF At("erase") THEN BrokenCallback(i) ELSE << >>
      PROVE  StackStep
  <2>1. PICK s \in Seq(Frame) : s = stack
    BY <1>1 DEF TypeOK
  <2>2. PICK l \in Nat \ {0} : l = Len(s) /\ DOMAIN s = 1 .. l
    BY <1>1, <2>1, EmptySeq
  <2>3. Len(Below) = l - 1 /\ DOMAIN Below = 1 .. l - 1
    <3>1. Below \in Seq(Frame) /\ Replaces(Below, s, << >>)
      BY <1>1, <2>1, TopFacts
    <3>2. Len(Below) = Len(s) - 1 + Len(<< >>) /\ Len(<< >>) = 0
      BY <3>1 DEF Replaces
    <3> QED BY <2>2, <3>1, <3>2
  <2>4. PICK b : b = [n \in 1 .. l - 1 |-> IF n = l - 1 THEN Astray(s[n], x) ELSE s[n]]
    OBVIOUS
  <2>5. \A n \in 1 .. l - 1 : /\ s[n] \in Frame /\ b[n] \in Frame
                              /\ b[n] = s[n] \/ b[n].pc \in {"check", "clear"}
    <3> TAKE n \in 1 .. l - 1
    <3>1. s[n] \in Frame
      BY <2>2, ElementOfSeq
    <3>2. b[n] = IF n = l - 1 THEN Astray(s[n], x) ELSE s[n]
      BY <2>4
    <3> QED BY <3>1, <3>2, AstrayFacts
  <2>6. b \in Seq(Frame) /\ Len(b) = l - 1
    BY <2>2, <2>4, <2>5
  <2>7. PICK c : c = IF At("erase") THEN BrokenCallback(i) ELSE << >>
    OBVIOUS
  <2>8. stack' = b \o c
    BY <1>4, <2>1, <2>3, <2>4, <2>7
  <2>9. c = << >> \/ \E u \in Frame : u.pc = "user" /\ c = <<u>>
    <3>1. CASE pending[i] = None
      BY <2>7, <3>1 DEF BrokenCallback
    <3>2. CASE pending[i] # None
      BY <1>1, <2>7, <3>2, BrokenFacts
    <3> QED BY <3>1, <3>2
  <2>10. PICK t : t = stack'
    OBVIOUS
  <2>11. /\ t \in Seq(Frame) /\ Len(t) \in {l - 1, l}
         /\ \A n \in 1 .. l - 1 : t[n] = b[n]
         /\ Len(t) = l => t[l] \in Frame /\ t[l].pc = "user"
    <3>1. CASE c = << >>
      <4>1. t = b
        BY <2>6, <2>8, <2>10, <3>1, ConcatEmptySeq
      <4> QED BY <2>2, <2>6, <4>1
    <3>2. ASSUME NEW u \in Frame, u.pc = "user", c = <<u>>
          PROVE  /\ t \in Seq(Frame) /\ Len(t) \in {l - 1, l}
                 /\ \A n \in 1 .. l - 1 : t[n] = b[n]
                 /\ Len(t) = l => t[l] \in Frame /\ t[l].pc = "user"
      <4>1. t = b \o <<u>>
        BY <2>8, <2>10, <3>2
      <4>2. /\ t \in Seq(Frame) /\ Len(t) = Len(b) + 1
            /\ \A n \in 1 .. Len(b) : t[n] = b[n]
            /\ t[Len(b) + 1] = u
        <5>1. PICK bb \in Seq(Frame) : bb = b
          BY <2>6
        <5>2. t = bb \o <<u>> /\ Len(bb) = Len(bb)
          BY <4>1, <5>1
        <5> QED BY <5>1, <5>2, PushFacts
      <4>3. l - 1 + 1 = l
        BY <2>2
      <4> QED BY <2>6, <3>2, <4>2, <4>3
    <3> QED BY <2>9, <3>1, <3>2
  <2>12. ASSUME NEW n \in DOMAIN t
         PROVE  \/ n < l /\ (Same(n) \/ t[n].pc \in {"check", "clear"})
                \/ n = l /\ t[n].pc = "user"
    <3>1. n \in 1 .. Len(t)
      BY <2>11
    <3>2. n \in 1 .. l - 1 \/ n = l
      BY <2>2, <2>11, <3>1
    <3>3. CASE n \in 1 .. l - 1
      BY <2>1, <2>2, <2>5, <2>10, <2>11, <3>3 DEF Same
    <3>4. CASE n = l
      BY <2>2, <2>11, <3>1, <3>4
    <3> QED BY <3>2, <3>3, <3>4
  <2>13. ASSUME NEW f, f.pc \in {"check", "clear", "user"} PROVE Fresh(f) /\ ~Holder(f)
    BY <1>2, <1>4, <2>13 DEF Fresh, Holder
  <2>14. \A n \in DOMAIN t : Same(n) \/ Fresh(t[n])
    BY <2>12, <2>13
  <2>15. \A n \in DOMAIN t : n < l => Same(n) \/ ~Holder(t[n])
    BY <2>2, <2>12, <2>13
  <2>16. \A m, n \in DOMAIN t : ~(l <= m /\ m < n)
    BY <2>2, <2>12
  <2> QED BY <2>1, <2>2, <2>10, <2>11, <2>14, <2>15, <2>16 DEF StackStep
<1>5. \/ stack' = << >>
      \/ \E i \in Ids, x \in SUBSET Ids :
            /\ stack' = [n \in DOMAIN Below |-> IF n = Len(Below) THEN Astray(stack[n], x) ELSE stack[n]]
                        \o IF At("erase") THEN BrokenCallback(i) ELSE << >>
            /\ gone' = gone
  BY DEF Dangling
<1> QED BY <1>3, <1>4, <1>5

LEMMA SendStep ==
    ASSUME ShapeInv, NEW rs, NEW t, Batch(rs), Send(rs, t)
    PROVE  StackStep
<1>1. TypeOK /\ ~gone /\ gone' = gone
  BY DEF Send, UserRuns, MayCall, ShapeInv
<1>2. PICK g \in Frame, new \in SUBSET Ids, rehash \in BOOLEAN, x \in SUBSET Ids :
              /\ g.pc = "send"
              /\ missed' = IF rehash /\ Checking THEN missed \cup {pending[i] : i \in Used} ELSE missed
              /\ new = NewIds(rs)
              /\ stack' \in Seq(Frame) /\ Len(stack) \in Nat /\ Len(stack') = Len(stack) + 1
              /\ \A n \in 1 .. Len(stack) :
                    stack[n] \in Frame /\ stack'[n] = AfterInsert(stack[n], new, rehash, x)
              /\ stack'[Len(stack) + 1] = g
  BY <1>1, SendStack
<1>3. DOMAIN stack = 1 .. Len(stack) /\ DOMAIN stack' = 1 .. Len(stack) + 1
  BY <1>1, <1>2 DEF TypeOK
<1>4. ASSUME NEW f, f.pc \in {"check", "clear", "send"} PROVE Fresh(f) /\ ~Holder(f)
  BY <1>1, <1>4 DEF Fresh, Holder
<1>5. ASSUME NEW n \in 1 .. Len(stack)
      PROVE  Same(n) \/ stack'[n].pc \in {"check", "clear"}
  <2>1. PICK f \in Frame : f = stack[n] /\ stack'[n] = AfterInsert(f, new, rehash, x)
    BY <1>2
  <2>2. /\ AfterInsert(f, new, rehash, x).pc = f.pc
        /\ f.pc \notin {"check", "clear"} => AfterInsert(f, new, rehash, x) = f
    <3>1. Inserted(f, new, rehash, x)
      BY AfterInsertFacts
    <3> QED BY <3>1 DEF Inserted
  <2> QED BY <1>3, <2>1, <2>2 DEF Same
<1>6. PICK l \in Nat : l = Len(stack)
  BY <1>2
<1>7. \A n \in DOMAIN stack' : n \in 1 .. l \/ n = l + 1
  BY <1>3, <1>6
<1>8. \A n \in DOMAIN stack' : Same(n) \/ Fresh(stack'[n])
  BY <1>2, <1>4, <1>5, <1>6, <1>7
<1>9. \A n \in DOMAIN stack' : n < l => Same(n) \/ ~Holder(stack'[n])
  BY <1>4, <1>5, <1>6, <1>7
<1>10. \A m, n \in DOMAIN stack' : l <= m /\ m < n => ~Holder(stack'[n])
  <2> TAKE m, n \in DOMAIN stack'
  <2> HAVE l <= m /\ m < n
  <2>1. n = l + 1
    BY <1>7
  <2> QED BY <1>2, <1>4, <1>6, <2>1
<1> QED BY <1>2, <1>6, <1>8, <1>9, <1>10 DEF StackStep

Sends == \E rs, t : t \in Timeouts /\ Batch(rs) /\ Send(rs, t)

\* The steps there are.
LEMMA NextCases ==
    ASSUME [Next]_vars
    PROVE  \/ Sends \/ SendReturns \/ Receive \/ RejectResp \/ HandleResp \/ CallbackReturns
           \/ Erase \/ Step \/ Dangling \/ Tick \/ CheckTimeouts \/ Deduct \/ TimeoutHappened
           \/ ClearAllPending \/ Cancel \/ LoopEnds \/ Destroy \/ Break \/ Destroyed \/ CallDying
           \/ UNCHANGED vars
<1>1. ASSUME NEW r \in Reqs, NEW t \in Timeouts, Send(<<r>>, t) PROVE Sends
  BY <1>1, Batches DEF Sends
<1>2. ASSUME NEW r \in Reqs, NEW q \in Reqs, NEW t \in Timeouts, r # q /\ Send(<<r, q>>, t) PROVE Sends
  BY <1>2, Batches DEF Sends
<1> QED BY <1>1, <1>2 DEF Next, UserStep, LibraryStep

LEMMA StackSteps == ASSUME ShapeInv, [Next]_vars PROVE StackStep
<1>1. TypeOK
  BY DEF ShapeInv
<1>2. CASE Sends
  BY <1>2, SendStep DEF Sends
<1>3. CASE SendReturns \/ CallbackReturns \/ Erase \/ Step \/ LoopEnds \/ Destroyed
  <2>1. stack # << >> /\ stack' = Below
    BY <1>3 DEF SendReturns, CallbackReturns, Erase, Step, LoopEnds, Destroyed, At
  <2> QED BY <1>1, <2>1, PopStep
<1>4. CASE Receive \/ CheckTimeouts \/ ClearAllPending \/ Break \/ Destroy
  BY <1>4, ReceiveStep, CheckTimeoutsStep, ClearAllPendingStep, BreakStep, DestroyStep
<1>5. CASE RejectResp \/ HandleResp \/ Deduct \/ TimeoutHappened \/ Cancel \/ Dangling
  BY <1>5, RejectRespStep, HandleRespStep, DeductStep, TimeoutHappenedStep, CancelStep, DanglingStep
<1>6. CASE Tick \/ UNCHANGED vars
  <2>1. stack' = stack
    BY <1>6 DEF Tick, vars
  <2> QED BY <1>1, <2>1, StayStep
<1>7. CASE CallDying
  <2>1. stack' = stack \/ stack' = << >>
    BY <1>7 DEF CallDying
  <2> QED BY <1>1, <2>1, StayStep, EmptyStep
<1> QED BY <1>2, <1>3, <1>4, <1>5, <1>6, <1>7, NextCases

-----------------------------------------------------------------------------
\* What a step does to the table and the promises.

LEMMA DropFacts ==
    ASSUME TypeOK, NEW i \in Ids, DropEntry(i)
    PROVE  /\ pending' \in [Ids -> Reqs \cup {None}]
           /\ left' \in [Reqs -> Nat \cup {NoTimeout}]
           /\ outcome' \in [Reqs -> {"new", "open"} \cup Settled]
           /\ \A j \in Ids : pending'[j] = IF j = i THEN None ELSE pending[j]
           /\ \A r \in Reqs : outcome'[r] = IF pending[i] = r /\ outcome[r] = "open" THEN "broken" ELSE outcome[r]
           /\ \A r \in Reqs : pending[i] # r => left'[r] = left[r]
<1>1. pending' \in [Ids -> Reqs \cup {None}] /\ \A j \in Ids : pending'[j] = IF j = i THEN None ELSE pending[j]
  BY DEF DropEntry, TypeOK
<1>2. left' \in [Reqs -> Nat \cup {NoTimeout}] /\ \A r \in Reqs : pending[i] # r => left'[r] = left[r]
  BY DEF DropEntry, TypeOK
<1>3. /\ outcome' \in [Reqs -> {"new", "open"} \cup Settled]
      /\ \A r \in Reqs : outcome'[r] = IF pending[i] = r /\ outcome[r] = "open" THEN "broken" ELSE outcome[r]
  BY DEF DropEntry, TypeOK, Settled
<1> QED BY <1>1, <1>2, <1>3

\* Every step but the sending of requests only takes away: an entry leaves with
\* its promise settled, and a promise is settled once.
Wears ==
    /\ id' = id /\ wire' = wire /\ limit' = limit
    /\ pending' \in [Ids -> Reqs \cup {None}]
    /\ outcome' \in [Reqs -> {"new", "open"} \cup Settled]
    /\ \A i \in Ids : \/ pending'[i] = pending[i]
                      \/ pending'[i] = None /\ outcome'[pending[i]] # "open"
    /\ \A r \in Reqs : \/ outcome'[r] = outcome[r]
                       \/ outcome[r] = "open" /\ outcome'[r] \in Settled

LEMMA KeepWears ==
    ASSUME ShapeInv, UNCHANGED <<id, pending, outcome, wire, limit>>
    PROVE  Wears
BY DEF ShapeInv, TypeOK, Wears

LEMMA DropWears ==
    ASSUME ShapeInv, NEW i \in Ids, DropEntry(i), UNCHANGED <<id, wire, limit>>
    PROVE  Wears
<1>1. TypeOK
  BY DEF ShapeInv
<1>2. /\ pending' \in [Ids -> Reqs \cup {None}]
      /\ outcome' \in [Reqs -> {"new", "open"} \cup Settled]
      /\ \A j \in Ids : pending'[j] = IF j = i THEN None ELSE pending[j]
      /\ \A r \in Reqs : outcome'[r] = IF pending[i] = r /\ outcome[r] = "open" THEN "broken" ELSE outcome[r]
  BY <1>1, DropFacts
<1>3. \A r \in Reqs : outcome'[r] = outcome[r] \/ (outcome[r] = "open" /\ outcome'[r] \in Settled)
  BY <1>2 DEF Settled
<1>4. ASSUME NEW j \in Ids, pending'[j] # pending[j]
      PROVE  pending'[j] = None /\ outcome'[pending[j]] # "open"
  <2>1. j = i /\ pending'[j] = None /\ pending[i] \in Reqs
    BY <1>1, <1>2, <1>4 DEF TypeOK
  <2>2. outcome'[pending[i]] # "open"
    BY <1>2, <2>1
  <2> QED BY <2>1, <2>2
<1> QED BY <1>2, <1>3, <1>4 DEF Wears

LEMMA SettleWears ==
    ASSUME ShapeInv, NEW i \in Ids, pending[i] # None, NEW o \in Settled, Settle(pending[i], o),
           UNCHANGED <<id, pending, wire, limit>>
    PROVE  Wears
<1>1. PICK r \in Reqs : r = pending[i]
  BY DEF ShapeInv, TypeOK
<1>2. /\ outcome' \in [Reqs -> {"new", "open"} \cup Settled]
      /\ \A q \in Reqs : outcome'[q] = IF q = r /\ outcome[r] = "open" THEN o ELSE outcome[q]
  BY <1>1, SettleFacts DEF ShapeInv
<1> QED BY <1>2 DEF ShapeInv, TypeOK, Wears

LEMMA StepWears == ASSUME ShapeInv, [Next]_vars PROVE Sends \/ Wears
<1>1. TypeOK
  BY DEF ShapeInv
<1>2. CASE SendReturns \/ Receive \/ RejectResp \/ CallbackReturns \/ Step \/ Tick \/ CheckTimeouts
  <2>1. UNCHANGED <<id, pending, outcome, wire, limit>>
    BY <1>2 DEF SendReturns, Receive, RejectResp, CallbackReturns, Step, Tick, CheckTimeouts, table, history
  <2> QED BY <2>1, KeepWears
<1>3. CASE Deduct \/ ClearAllPending \/ LoopEnds \/ Destroy \/ Destroyed \/ CallDying \/ UNCHANGED vars
  <2>1. UNCHANGED <<id, pending, outcome, wire, limit>>
    BY <1>3 DEF Deduct, ClearAllPending, LoopEnds, Destroy, Destroyed, CallDying, table, history, vars
  <2> QED BY <2>1, KeepWears
<1>4. CASE HandleResp
  <2>1. PICK i \in Ids : i = Head(Top.parts).msg.id
    BY <1>4, PartsOnTop DEF HandleResp
  <2>2. PICK o \in Settled : Settle(pending[i], o)
    BY <1>4, <2>1 DEF HandleResp, Settled
  <2>3. pending[i] # None /\ UNCHANGED <<id, pending, wire, limit>>
    BY <1>4, <2>1 DEF HandleResp, table
  <2> QED BY <2>2, <2>3, SettleWears
<1>5. CASE TimeoutHappened
  <2>1. PICK i \in Top.todo : Expired(i, Top.diff) /\ Settle(pending[i], "timeout")
    BY <1>5 DEF TimeoutHappened
  <2>2. i \in Ids
    BY <1>5, <2>1, LoopOnTop DEF TimeoutHappened
  <2>3. pending[i] # None /\ UNCHANGED <<id, pending, wire, limit>> /\ "timeout" \in Settled
    BY <1>5, <2>1 DEF TimeoutHappened, Expired, table, Settled
  <2> QED BY <2>1, <2>2, <2>3, SettleWears
<1>6. CASE Cancel
  <2>1. PICK i \in Top.todo : IF pending[i] = None THEN UNCHANGED outcome ELSE Settle(pending[i], "cancelled")
    BY <1>6 DEF Cancel
  <2>2. i \in Ids
    BY <1>6, <2>1, LoopOnTop DEF Cancel
  <2>3. UNCHANGED <<id, pending, wire, limit>> /\ "cancelled" \in Settled
    BY <1>6 DEF Cancel, table, history, Settled
  <2>4. CASE pending[i] = None
    BY <2>1, <2>3, <2>4, KeepWears
  <2>5. CASE pending[i] # None
    BY <2>1, <2>2, <2>3, <2>5, SettleWears
  <2> QED BY <2>4, <2>5
<1>7. CASE Erase
  <2>1. Top \in Frame /\ Top.pc = "erase"
    BY <1>1, <1>7, TopFacts DEF Erase, At
  <2>2. PICK i \in Ids : i = Top.id
    BY <2>1, FrameFacts
  <2>3. DropEntry(i) /\ UNCHANGED <<id, wire, limit>>
    BY <1>7, <2>2 DEF Erase, history
  <2> QED BY <2>3, DropWears
<1>8. CASE Break
  <2>1. PICK i \in Used : DropEntry(i)
    BY <1>8 DEF Break
  <2>2. i \in Ids
    BY DEF Used
  <2>3. UNCHANGED <<id, wire, limit>>
    BY <1>8 DEF Break, history
  <2> QED BY <2>1, <2>2, <2>3, DropWears
<1>9. CASE Dangling
  <2>1. UNCHANGED <<id, wire, limit>>
    BY <1>9 DEF Dangling, history
  <2>2. UNCHANGED <<pending, outcome>> \/ \E i \in Ids : DropEntry(i)
    BY <1>9 DEF Dangling
  <2>3. CASE UNCHANGED <<pending, outcome>>
    BY <2>1, <2>3, KeepWears
  <2> QED BY <2>1, <2>2, <2>3, DropWears
<1> QED BY <1>2, <1>3, <1>4, <1>5, <1>6, <1>7, <1>8, <1>9, NextCases

\* What the sending of requests does to the table and the promises.
Added(rs, t) ==
    /\ id' \in Ids /\ id' = IdAfter(Len(rs))
    /\ pending' \in [Ids -> Reqs \cup {None}]
    /\ left' \in [Reqs -> Nat \cup {NoTimeout}]
    /\ limit' \in [Reqs -> Nat \cup {NoTimeout}]
    /\ outcome' \in [Reqs -> {"new", "open"} \cup Settled]
    /\ \A i \in Ids : \/ i \notin NewIds(rs) /\ pending'[i] = pending[i]
                      \/ \E k \in DOMAIN rs : i = IdOf(k) /\ pending'[i] = rs[k]
    /\ \A r \in Reqs :
        IF r \in Elems(rs)
        THEN outcome[r] = "new" /\ outcome'[r] = "open" /\ left'[r] = t /\ limit'[r] = t
        ELSE /\ left'[r] = left[r] /\ limit'[r] = limit[r]
             /\ outcome'[r] = IF outcome[r] = "open" /\ \E i \in NewIds(rs) : pending[i] = r
                              THEN "evicted" ELSE outcome[r]
    /\ Elems(rs) \subseteq Reqs /\ NewIds(rs) \subseteq Ids

LEMMA SendAdds ==
    ASSUME ShapeInv, NEW rs, NEW t \in Timeouts, Batch(rs), Send(rs, t)
    PROVE  Added(rs, t)
<1>1. TypeOK /\ id \in Ids
  BY DEF ShapeInv, TypeOK
<1>2. id' \in Ids /\ id' = IdAfter(Len(rs))
  <2>1. Len(rs) \in 1 .. 2
    BY DEF Batch
  <2>2. PICK n \in 1 .. 2 : n = Len(rs)
    BY <2>1
  <2>3. n \in Nat \ {0}
    OBVIOUS
  <2>5. IdAfter(n) \in Ids
    BY <1>1, <2>3, IdFacts
  <2>4. id' = IdAfter(n)
    BY <2>2 DEF Send, AddPending
  <2> QED BY <2>2, <2>4, <2>5
<1>3. ASSUME NEW i \in NewIds(rs)
      PROVE  \E k \in DOMAIN rs : i = IdOf(k) /\ rs[k] \in Reqs
                                  /\ rs[CHOOSE l \in DOMAIN rs : i = IdOf(l)] = rs[k]
  <2>1. PICK k \in DOMAIN rs : k = CHOOSE l \in DOMAIN rs : i = IdOf(l)
    BY DEF NewIds
  <2>2. i = IdOf(k)
    BY <2>1 DEF NewIds
  <2>3. rs[k] \in Reqs
    BY <1>1, BatchIds
  <2> QED BY <2>1, <2>2, <2>3
<1>4. pending' = [i \in Ids |-> IF i \in NewIds(rs) THEN rs[CHOOSE k \in DOMAIN rs : i = IdOf(k)]
                                ELSE pending[i]]
  BY DEF Send, AddPending
<1>5. ASSUME NEW i \in Ids
      PROVE  /\ pending'[i] \in Reqs \cup {None}
             /\ \/ i \notin NewIds(rs) /\ pending'[i] = pending[i]
                \/ \E k \in DOMAIN rs : i = IdOf(k) /\ pending'[i] = rs[k]
  <2>1. CASE i \in NewIds(rs)
    BY <1>3, <1>4, <2>1
  <2>2. CASE i \notin NewIds(rs)
    BY <1>1, <1>4, <2>2 DEF TypeOK
  <2> QED BY <2>1, <2>2
<1>6. pending' \in [Ids -> Reqs \cup {None}]
  BY <1>4, <1>5
<1>7. Elems(rs) \subseteq Reqs
  BY <1>1, BatchIds DEF Elems
<1>8. left' \in [Reqs -> Nat \cup {NoTimeout}] /\ limit' \in [Reqs -> Nat \cup {NoTimeout}]
  BY <1>1, TimeoutsAssumption DEF Send, TypeOK
<1>9. outcome' \in [Reqs -> {"new", "open"} \cup Settled]
  BY <1>1 DEF Send, AddPending, TypeOK, Settled
<1>10. ASSUME NEW r \in Reqs
       PROVE  IF r \in Elems(rs)
              THEN outcome[r] = "new" /\ outcome'[r] = "open" /\ left'[r] = t /\ limit'[r] = t
              ELSE /\ left'[r] = left[r] /\ limit'[r] = limit[r]
                   /\ outcome'[r] = IF outcome[r] = "open" /\ \E i \in NewIds(rs) : pending[i] = r
                                    THEN "evicted" ELSE outcome[r]
  BY DEF Send, AddPending
<1>11. NewIds(rs) \subseteq Ids
  BY <1>1, BatchIds
<1> QED BY <1>2, <1>5, <1>6, <1>7, <1>8, <1>9, <1>10, <1>11 DEF Added

-----------------------------------------------------------------------------
\* Types.

LEMMA InitShape == Init => ShapeInv
<1> SUFFICES ASSUME Init PROVE ShapeInv
  OBVIOUS
<1>1. gone \in BOOLEAN /\ undef \in BOOLEAN /\ overtaken \in BOOLEAN
  BY DEF Init
<1>2. stack \in Seq(Frame) /\ DOMAIN stack = {}
  BY DEF Init
<1>3. id \in Ids
  BY ClockAssumption DEF Init, Ids
<1>4. TypeOK
  BY <1>1, <1>2, <1>3 DEF Init, TypeOK
<1> QED BY <1>2, <1>4 DEF Init, ShapeInv, PartsLeft, GoneFrames, OnlySent

\* What an entry that a visit of CheckTimeouts finds is, if it has time left.
LEMMA ExpiredFacts ==
    ASSUME ShapeInv, Deduct
    PROVE  \E i \in Top.todo :
              /\ i \in Ids /\ Top.diff \in Nat /\ stack' = Below \o <<Visited(i)>>
              /\ left' = IF pending[i] # None /\ left[pending[i]] # NoTimeout
                         THEN [left EXCEPT ![pending[i]] = @ - Top.diff] ELSE left
              /\ pending[i] # None /\ left[pending[i]] # NoTimeout =>
                    pending[i] \in Reqs /\ left[pending[i]] \in Nat /\ left[pending[i]] > Top.diff
<1>1. PICK i \in Top.todo :
        /\ ~Expired(i, Top.diff)
        /\ left' = IF pending[i] # None /\ left[pending[i]] # NoTimeout
                   THEN [left EXCEPT ![pending[i]] = @ - Top.diff] ELSE left
        /\ stack' = Below \o <<Visited(i)>>
  BY DEF Deduct
<1>2. i \in Ids /\ Top.diff \in Nat
  BY LoopOnTop DEF Deduct
<1>3. ASSUME pending[i] # None, left[pending[i]] # NoTimeout
      PROVE  pending[i] \in Reqs /\ left[pending[i]] \in Nat /\ left[pending[i]] > Top.diff
  <2>1. pending[i] \in Reqs
    BY <1>2, <1>3 DEF ShapeInv, TypeOK
  <2>2. left[pending[i]] \in Nat
    BY <1>3, <2>1 DEF ShapeInv, TypeOK
  <2>3. ~(left[pending[i]] <= Top.diff)
    BY <1>1, <1>3 DEF Expired
  <2> QED BY <1>2, <2>1, <2>2, <2>3
<1> QED BY <1>1, <1>2, <1>3

LEMMA LeftType == ASSUME ShapeInv, [Next]_vars PROVE left' \in [Reqs -> Nat \cup {NoTimeout}]
<1>1. TypeOK /\ left \in [Reqs -> Nat \cup {NoTimeout}]
  BY DEF ShapeInv, TypeOK
<1>2. CASE Sends
  BY <1>2, SendAdds DEF Sends, Added
<1>3. CASE SendReturns \/ Receive \/ RejectResp \/ HandleResp \/ CallbackReturns \/ Step \/ Tick
           \/ CheckTimeouts \/ TimeoutHappened \/ ClearAllPending \/ Cancel
  BY <1>1, <1>3 DEF SendReturns, Receive, RejectResp, HandleResp, CallbackReturns, Step, Tick,
                    CheckTimeouts, TimeoutHappened, ClearAllPending, Cancel, table
<1>4. CASE LoopEnds \/ Destroy \/ Destroyed \/ CallDying \/ UNCHANGED vars
  BY <1>1, <1>4 DEF LoopEnds, Destroy, Destroyed, CallDying, vars, table
<1>5. CASE Deduct
  <2>1. PICK i \in Top.todo :
              /\ Top.diff \in Nat
              /\ left' = IF pending[i] # None /\ left[pending[i]] # NoTimeout
                         THEN [left EXCEPT ![pending[i]] = @ - Top.diff] ELSE left
              /\ pending[i] # None /\ left[pending[i]] # NoTimeout =>
                    pending[i] \in Reqs /\ left[pending[i]] \in Nat /\ left[pending[i]] > Top.diff
    BY <1>5, ExpiredFacts
  <2>2. CASE pending[i] # None /\ left[pending[i]] # NoTimeout
    <3>1. PICK r \in Reqs, d \in Nat, l \in Nat : r = pending[i] /\ d = Top.diff /\ l = left[r] /\ l > d
      BY <2>1, <2>2
    <3>2. l - d \in Nat
      BY <3>1
    <3>3. left' = [left EXCEPT ![r] = l - d]
      BY <2>1, <2>2, <3>1
    <3> QED BY <1>1, <3>2, <3>3
  <2> QED BY <1>1, <2>1, <2>2
<1>6. CASE Erase
  <2>1. Top \in Frame /\ Top.pc = "erase"
    BY <1>1, <1>6, TopFacts DEF Erase, At
  <2>2. PICK i \in Ids : i = Top.id
    BY <2>1, FrameFacts
  <2> QED BY <1>1, <1>6, <2>2, DropFacts DEF Erase
<1>7. CASE Break
  <2>1. PICK i \in Ids : DropEntry(i)
    BY <1>7 DEF Break, Used
  <2> QED BY <1>1, <2>1, DropFacts
<1>8. CASE Dangling
  <2>1. left' = left \/ \E i \in Ids : DropEntry(i)
    BY <1>8 DEF Dangling
  <2> QED BY <1>1, <2>1, DropFacts
<1> QED BY <1>2, <1>3, <1>4, <1>5, <1>6, <1>7, <1>8, NextCases

\* The rest of what the state consists of.
Counts ==
    /\ elapsed \in Nat
    /\ gone \in BOOLEAN /\ undef \in BOOLEAN /\ overtaken \in BOOLEAN
    /\ wire \subseteq Msgs
    /\ limit \in [Reqs -> Nat \cup {NoTimeout}]
    /\ age \in [Reqs -> Nat]
    /\ answeredBy \in [Reqs -> Reqs \cup {None}]
    /\ lost \in [Reqs -> Nat] /\ missed \subseteq Reqs

LEMMA DropsFacts ==
    ASSUME TypeOK, NEW r \in Reqs
    PROVE  Drops(r) \in Nat
<1>1. PICK m \in Nat \ {0} : m = TicksPerMs
  BY ClockAssumption
<1>2. PICK n \in Nat : n = elapsed % m
  <2>1. \A k \in Nat : k % m \in Nat
    OBVIOUS
  <2> QED BY <2>1 DEF TypeOK
<1>3. lost[r] \in Nat /\ MaxAge \in Nat
  BY ClockAssumption DEF TypeOK
<1> QED BY <1>1, <1>2, <1>3 DEF Drops

\* The requests in the table.
LEMMA UsedReqs == TypeOK => {pending[i] : i \in Used} \subseteq Reqs
BY DEF TypeOK, Used

LEMMA CountsStep == ASSUME ShapeInv, [Next]_vars PROVE Counts'
<1>1. Counts /\ TypeOK
  BY DEF ShapeInv, TypeOK, Counts
<1>2. CASE Sends
  <2>1. PICK rs, t : t \in Timeouts /\ Batch(rs) /\ Send(rs, t) /\ Added(rs, t)
    BY <1>2, SendAdds DEF Sends
  <2>2. wire' \subseteq Msgs
    <3>1. {[id |-> IdOf(k), req |-> rs[k]] : k \in DOMAIN rs} \subseteq Msgs
      BY <1>1, <2>1, BatchIds DEF TypeOK
    <3> QED BY <1>1, <2>1, <3>1 DEF Send, Counts
  <2>3. missed' \subseteq Reqs
    <3>1. missed' = missed \/ missed' = missed \cup {pending[i] : i \in Used}
      BY <2>1 DEF Send
    <3> QED BY <1>1, <3>1, UsedReqs DEF Counts
  <2>4. UNCHANGED <<elapsed, gone, undef, age, answeredBy, overtaken, lost>>
    BY <2>1 DEF Send
  <2> QED BY <1>1, <2>1, <2>2, <2>3, <2>4 DEF Added, Counts
<1>3. CASE SendReturns \/ Receive \/ RejectResp \/ CallbackReturns \/ Step \/ Deduct
           \/ ClearAllPending \/ Cancel \/ LoopEnds \/ UNCHANGED vars
  BY <1>1, <1>3 DEF Counts, SendReturns, Receive, RejectResp, CallbackReturns, Step, Deduct,
                    ClearAllPending, Cancel, LoopEnds, history, vars
<1>4. CASE Erase \/ Break \/ Destroy \/ Destroyed \/ CallDying \/ Dangling
  BY <1>1, <1>4 DEF Counts, Erase, Break, Destroy, Destroyed, CallDying, Dangling, history
<1>5. CASE HandleResp
  <2>1. PICK p \in Parts : p = Head(Top.parts) /\ p.msg.req \in Reqs
    BY <1>5, PartsOnTop DEF HandleResp
  <2>2. answeredBy' = answeredBy \/ \E r : answeredBy' = [answeredBy EXCEPT ![r] = p.msg.req]
    BY <1>5, <2>1 DEF HandleResp
  <2>3. answeredBy' \in [Reqs -> Reqs \cup {None}]
    BY <1>1, <2>1, <2>2 DEF Counts
  <2>4. overtaken' \in BOOLEAN /\ UNCHANGED <<elapsed, wire, gone, undef, limit, age, lost, missed>>
    BY <1>5 DEF HandleResp
  <2> QED BY <1>1, <2>3, <2>4 DEF Counts
<1>6. CASE TimeoutHappened
  <2>1. overtaken' \in BOOLEAN /\ UNCHANGED <<elapsed, wire, gone, undef, limit, age, answeredBy, lost, missed>>
    BY <1>6 DEF TimeoutHappened
  <2> QED BY <1>1, <2>1 DEF Counts
<1>7. CASE Tick
  <2>1. elapsed' \in Nat /\ age' \in [Reqs -> Nat]
    BY <1>1, <1>7 DEF Tick, Counts
  <2> QED BY <1>1, <1>7, <2>1 DEF Tick, Counts
<1>8. CASE CheckTimeouts
  <2>1. lost' \in [Reqs -> Nat]
    BY <1>1, <1>8, DropsFacts DEF CheckTimeouts
  <2>2. missed' \subseteq Reqs
    BY <1>1, <1>8, UsedReqs DEF CheckTimeouts, Counts
  <2>3. elapsed' = 0 /\ UNCHANGED <<wire, gone, undef, limit, age, answeredBy, overtaken>>
    BY <1>8 DEF CheckTimeouts
  <2> QED BY <1>1, <2>1, <2>2, <2>3 DEF Counts
<1> QED BY <1>2, <1>3, <1>4, <1>5, <1>6, <1>7, <1>8, NextCases

\* A transport is destroyed when the thread is inside of none of its calls.
LEMMA GoneStep ==
    ASSUME [Next]_vars
    PROVE  \/ gone' = gone
           \/ stack = << >>
           \/ stack' = << >>
BY NextCases DEF Sends, Send, SendReturns, Receive, RejectResp, HandleResp, CallbackReturns, Erase, Step,
                 Dangling, Tick, CheckTimeouts, Deduct, TimeoutHappened, ClearAllPending, Cancel,
                 LoopEnds, Destroy, Break, Destroyed, CallDying, vars

\* What the frames of a stack hold goes on to hold.
LEMMA FramesShape ==
    ASSUME ShapeInv, [Next]_vars, StackStep
    PROVE  PartsLeft' /\ GoneFrames'
<1>1. PICK s \in Seq(Frame) : s = stack' /\ DOMAIN s = DOMAIN stack'
  BY DEF StackStep
<1>2. ASSUME NEW n \in DOMAIN s, s[n].pc = "parts"
      PROVE  s[n].parts # << >>
  BY <1>1, <1>2 DEF StackStep, Same, Fresh, ShapeInv, PartsLeft
<1>3. ASSUME NEW n \in DOMAIN s
      PROVE  (gone' => s[n].pc \in {"destroy", "user"}) /\ (s[n].pc = "destroy" => gone')
  <2>1. CASE Fresh(s[n])
    BY <1>3, <2>1 DEF Fresh
  <2>2. CASE Same(n)
    <3>1. n \in DOMAIN stack /\ s[n] = stack[n]
      BY <1>1, <2>2 DEF Same
    <3>2. stack # << >> /\ stack' # << >>
      BY <1>1, <3>1
    <3>3. gone' = gone
      BY <3>2, GoneStep
    <3> QED BY <1>3, <3>1, <3>3 DEF ShapeInv, GoneFrames
  <2> QED BY <1>1, <2>1, <2>2 DEF StackStep
<1> QED BY <1>1, <1>2, <1>3 DEF PartsLeft, GoneFrames

LEMMA StepShape == ShapeInv /\ [Next]_vars => ShapeInv'
<1> SUFFICES ASSUME ShapeInv, [Next]_vars PROVE ShapeInv'
  OBVIOUS
<1>1. StackStep /\ Counts' /\ left' \in [Reqs -> Nat \cup {NoTimeout}]
  BY StackSteps, CountsStep, LeftType
<1>2. CASE Sends
  <2>1. PICK rs, t : Added(rs, t) /\ Elems(rs) = {rs[k] : k \in DOMAIN rs}
    BY <1>2, SendAdds DEF Sends, Elems
  <2>2. TypeOK'
    BY <1>1, <2>1 DEF Added, StackStep, Counts, TypeOK
  <2>3. ASSUME NEW i \in Ids, pending'[i] # None
        PROVE  outcome'[pending'[i]] # "new"
    <3>1. CASE pending'[i] = pending[i]
      <4>1. pending[i] \in Reqs /\ outcome[pending[i]] # "new"
        BY <2>3, <3>1 DEF ShapeInv, TypeOK, OnlySent
      <4> QED BY <2>1, <3>1, <4>1 DEF Added
    <3>2. CASE pending'[i] \in Elems(rs)
      BY <2>1, <3>2 DEF Added
    <3> QED BY <2>1, <3>1, <3>2 DEF Added
  <2> QED BY <1>1, <2>2, <2>3, FramesShape DEF ShapeInv, OnlySent
<1>3. CASE Wears
  <2>1. TypeOK'
    BY <1>1, <1>3 DEF Wears, StackStep, Counts, TypeOK, ShapeInv
  <2>2. ASSUME NEW i \in Ids, pending'[i] # None
        PROVE  outcome'[pending'[i]] # "new"
    <3>1. pending'[i] = pending[i]
      BY <1>3, <2>2 DEF Wears
    <3>2. pending[i] \in Reqs /\ outcome[pending[i]] # "new"
      BY <2>2, <3>1 DEF ShapeInv, TypeOK, OnlySent
    <3> QED BY <1>3, <3>1, <3>2 DEF Wears, Settled
  <2> QED BY <1>1, <2>1, <2>2, FramesShape DEF ShapeInv, OnlySent
<1> QED BY <1>2, <1>3, StepWears

\* The types of the state hold in every reachable state, whatever the callbacks
\* of the transport's promises do to its table.
THEOREM ClientTypeOK == Spec => []TypeOK
<1>1. Init => ShapeInv
  BY InitShape
<1>2. ShapeInv /\ [Next]_vars => ShapeInv'
  BY StepShape
<1>3. ShapeInv => TypeOK
  BY DEF ShapeInv
<1> QED BY <1>1, <1>2, <1>3, PTL DEF Spec

-----------------------------------------------------------------------------
\* No request is forgotten.

\* What an iterator stands at was settled before the call it is held across.
HoldsSettled ==
    \A n \in DOMAIN stack : Holder(stack[n]) => stack[n].req \in Reqs /\ outcome[stack[n].req] \in Settled

AccountInv == ShapeInv /\ Accounted /\ HoldsSettled

\* Two requests of a batch get two ids.
LEMMA IdsDiffer ==
    ASSUME TypeOK, NEW rs, Batch(rs), Len(rs) <= IdSpace,
           NEW k \in DOMAIN rs, NEW l \in DOMAIN rs, IdOf(k) = IdOf(l)
    PROVE  k = l
<1>1. PICK m \in Nat \ {0} : m = IdSpace
  BY ClockAssumption
<1>2. id \in 0 .. m - 1
  BY <1>1 DEF TypeOK, Ids
<1>3. \A j \in Nat : j < m => j % m = j
  OBVIOUS
<1>4. m % m = 0
  OBVIOUS
<1>5. id % m # (id + 1) % m \/ m = 1
  <2>1. id % m = id
    BY <1>2, <1>3
  <2>2. CASE id + 1 < m
    <3>1. (id + 1) % m = id + 1
      BY <1>2, <1>3, <2>2
    <3> QED BY <1>2, <2>1, <3>1
  <2>3. CASE id + 1 = m
    <3>1. (id + 1) % m = 0
      BY <1>4, <2>3
    <3> QED BY <1>2, <2>1, <2>3, <3>1
  <2> QED BY <1>2, <2>2, <2>3
<1>6. SUFFICES ASSUME k # l PROVE FALSE
  OBVIOUS
<1>7. DOMAIN rs = 1 .. Len(rs) /\ Len(rs) \in 1 .. 2
  BY DEF Batch
<1>8. Len(rs) = 2 /\ ((k = 1 /\ l = 2) \/ (k = 2 /\ l = 1))
  BY <1>6, <1>7
<1>9. IdOf(1) = id % m /\ IdOf(2) = (id + 1) % m
  BY <1>1, <1>2 DEF IdOf
<1> QED BY <1>1, <1>5, <1>8, <1>9

\* A promise that was settled stays as it is.
LEMMA SettledStays ==
    ASSUME ShapeInv, [Next]_vars, NEW r \in Reqs, outcome[r] \in Settled
    PROVE  outcome'[r] = outcome[r]
<1>1. outcome[r] # "open" /\ outcome[r] # "new"
  BY DEF Settled
<1>2. CASE Sends
  BY <1>1, <1>2, SendAdds DEF Sends, Added
<1>3. CASE Wears
  BY <1>1, <1>3 DEF Wears
<1> QED BY <1>2, <1>3, StepWears

LEMMA HoldsStep ==
    ASSUME ShapeInv, HoldsSettled, [Next]_vars
    PROVE  HoldsSettled'
<1>1. StackStep
  BY StackSteps
<1>2. ASSUME NEW n \in DOMAIN stack', Holder(stack'[n])
      PROVE  stack'[n].req \in Reqs /\ outcome'[stack'[n].req] \in Settled
  <2>1. CASE Same(n)
    <3>1. stack[n].req \in Reqs /\ outcome[stack[n].req] \in Settled /\ stack'[n] = stack[n]
      BY <1>2, <2>1 DEF Same, HoldsSettled
    <3> QED BY <3>1, SettledStays
  <2>2. CASE Fresh(stack'[n])
    <3>1. PICK f \in Frame : f = stack'[n]
      <4>1. stack' \in Seq(Frame)
        BY <1>1 DEF StackStep
      <4> QED BY <4>1, ElementOfSeq
    <3>2. f.req \in Reqs
      BY <1>2, <3>1, FrameFacts DEF Holder
    <3> QED BY <1>2, <2>2, <3>1, <3>2 DEF Fresh
  <2> QED BY <1>1, <2>1, <2>2 DEF StackStep
<1> QED BY <1>2 DEF HoldsSettled, Holder

\* What is gone or undefined remains so.
LEMMA NeverBack ==
    ASSUME TypeOK, [Next]_vars
    PROVE  (gone => gone') /\ (undef => undef')
<1>1. CASE \/ Sends \/ SendReturns \/ Receive \/ RejectResp \/ HandleResp \/ CallbackReturns \/ Erase
           \/ Step \/ Tick \/ CheckTimeouts \/ Deduct \/ TimeoutHappened \/ ClearAllPending \/ Cancel
           \/ LoopEnds \/ Break \/ Destroyed \/ UNCHANGED vars
  <2>1. gone' = gone /\ undef' = undef
    BY <1>1 DEF Sends, Send, SendReturns, Receive, RejectResp, HandleResp, CallbackReturns, Erase,
                Step, Tick, CheckTimeouts, Deduct, TimeoutHappened, ClearAllPending, Cancel,
                LoopEnds, Break, Destroyed, vars
  <2> QED BY <2>1
<1>2. CASE Dangling
  <2>1. undef' = TRUE
    BY <1>2 DEF Dangling
  <2>2. gone' = TRUE \/ gone' = gone
    BY <1>2 DEF Dangling
  <2> QED BY <2>1, <2>2
<1>3. CASE Destroy \/ CallDying
  BY <1>3 DEF Destroy, CallDying, TypeOK
<1> QED BY <1>1, <1>2, <1>3, NextCases

\* No promise breaks but by a dangling iterator or in the end.
LEMMA BrokenStep ==
    ASSUME AccountInv, [Next]_vars, NEW r \in Reqs, outcome'[r] = "broken"
    PROVE  gone' \/ undef'
<1>1. ShapeInv /\ TypeOK
  BY DEF AccountInv, ShapeInv
<1>2. CASE outcome[r] = "broken"
  <2>1. gone \/ undef
    BY <1>2 DEF AccountInv, Accounted
  <2> QED BY <1>1, <2>1, NeverBack
<1>3. CASE outcome[r] # "broken"
  <2>1. CASE Erase
    <3>1. /\ Len(stack) \in DOMAIN stack /\ Top = stack[Len(stack)] /\ Top \in Frame /\ Top.pc = "erase"
      BY <1>1, <2>1, TopFacts DEF Erase, At
    <3>2. PICK i \in Ids : i = Top.id /\ pending[i] = Top.req /\ DropEntry(i)
      BY <2>1, <3>1, FrameFacts DEF Erase, Intact
    <3>3. outcome[pending[i]] \in Settled
      BY <3>1, <3>2 DEF AccountInv, HoldsSettled, Holder
    <3>4. outcome[pending[i]] # "open"
      BY <3>3 DEF Settled
    <3>5. outcome'[r] = outcome[r]
      BY <1>1, <3>2, <3>4, DropFacts
    <3> QED BY <1>3, <3>5
  <2>2. CASE Break
    <3>1. At("destroy") /\ gone' = gone /\ Len(stack) \in DOMAIN stack /\ stack[Len(stack)].pc = "destroy"
      BY <1>1, <2>2, TopFacts DEF Break, At
    <3>2. SUFFICES ASSUME ~gone PROVE FALSE
      BY <3>1
    <3> QED BY <1>1, <3>1, <3>2 DEF ShapeInv, GoneFrames
  <2>3. CASE Dangling
    BY <2>3 DEF Dangling
  <2>4. CASE HandleResp
    <3>1. PICK i \in Ids : i = Head(Top.parts).msg.id
      BY <1>1, <2>4, PartsOnTop DEF HandleResp
    <3>2. PICK o \in {"value", "error"} : Settle(pending[i], o)
      BY <2>4, <3>1 DEF HandleResp
    <3> QED BY <1>1, <1>3, <3>2 DEF Settle, TypeOK
  <2>5. CASE TimeoutHappened
    <3>1. PICK i \in Top.todo : Settle(pending[i], "timeout")
      BY <2>5 DEF TimeoutHappened
    <3> QED BY <1>1, <1>3, <3>1 DEF Settle, TypeOK
  <2>6. CASE Cancel
    <3>1. PICK i \in Top.todo : UNCHANGED outcome \/ Settle(pending[i], "cancelled")
      BY <2>6 DEF Cancel
    <3> QED BY <1>1, <1>3, <3>1 DEF Settle, TypeOK
  <2>7. CASE Sends
    BY <1>1, <1>3, <2>7, SendAdds DEF Sends, Added
  <2>8. CASE \/ SendReturns \/ Receive \/ RejectResp \/ CallbackReturns \/ Step \/ Tick \/ CheckTimeouts
             \/ Deduct \/ ClearAllPending \/ LoopEnds \/ Destroy \/ Destroyed \/ CallDying \/ UNCHANGED vars
    <3>1. outcome' = outcome
      BY <2>8 DEF SendReturns, Receive, RejectResp, CallbackReturns, Step, Tick, CheckTimeouts,
             Deduct, ClearAllPending, LoopEnds, Destroy, Destroyed, CallDying, vars
    <3> QED BY <1>3, <3>1
  <2> QED BY <2>1, <2>2, <2>3, <2>4, <2>5, <2>6, <2>7, <2>8, NextCases
<1> QED BY <1>2, <1>3

LEMMA StepAccount == AccountInv /\ [Next]_vars => AccountInv'
<1> SUFFICES ASSUME AccountInv, [Next]_vars PROVE AccountInv'
  OBVIOUS
<1>1. ShapeInv /\ TypeOK /\ Accounted /\ HoldsSettled
  BY DEF AccountInv, ShapeInv
<1>2. ShapeInv' /\ HoldsSettled'
  BY <1>1, StepShape, HoldsStep
<1>3. ASSUME NEW r \in Reqs, outcome'[r] = "open", Wears
      PROVE  \E i \in Ids : pending'[i] = r
  <2>1. outcome[r] = "open"
    BY <1>3 DEF Wears, Settled
  <2>2. PICK i \in Ids : pending[i] = r
    BY <1>1, <2>1 DEF Accounted
  <2>3. pending'[i] = pending[i]
    BY <1>3, <2>2 DEF Wears
  <2> QED BY <2>2, <2>3
<1>4. ASSUME NEW r \in Reqs, outcome'[r] = "open", Sends
      PROVE  \E i \in Ids : pending'[i] = r
  <2>1. PICK rs, t : Batch(rs) /\ Send(rs, t) /\ Added(rs, t) /\ Len(rs) <= IdSpace
    BY <1>1, <1>4, SendAdds DEF Sends, Send
  <2>2. CASE r \in Elems(rs)
    <3>1. PICK k \in DOMAIN rs : r = rs[k]
      BY <2>2 DEF Elems
    <3>2. PICK i \in Ids : i = IdOf(k) /\ i \in NewIds(rs)
      BY <2>1 DEF NewIds, Added
    <3>3. PICK l \in DOMAIN rs : i = IdOf(l) /\ pending'[i] = rs[l]
      BY <2>1, <3>2 DEF Added
    <3>4. k = l
      BY <1>1, <2>1, <3>2, <3>3, IdsDiffer
    <3> QED BY <3>1, <3>3, <3>4
  <2>3. CASE r \notin Elems(rs)
    <3>1. outcome[r] = "open" /\ ~ \E i \in NewIds(rs) : pending[i] = r
      BY <1>4, <2>1, <2>3 DEF Added
    <3>2. PICK i \in Ids : pending[i] = r
      BY <1>1, <3>1 DEF Accounted
    <3>3. i \notin NewIds(rs)
      BY <3>1, <3>2
    <3>4. pending'[i] = pending[i]
      BY <2>1, <3>3 DEF Added, NewIds
    <3> QED BY <3>2, <3>4
  <2> QED BY <2>2, <2>3
<1>5. Accounted'
  BY <1>1, <1>3, <1>4, BrokenStep, StepWears DEF Accounted
<1> QED BY <1>2, <1>5 DEF AccountInv

\* No request is forgotten, and no promise is thrown away unfulfilled before the
\* transport is destroyed, unless an iterator dangles: whatever the callbacks
\* send, handle, check, cancel, and however often the id counter comes round.
THEOREM ClientAccounted == Spec => []Accounted
<1>1. Init => AccountInv
  <2> SUFFICES ASSUME Init PROVE AccountInv
    OBVIOUS
  <2>1. ShapeInv
    BY InitShape
  <2>2. Accounted /\ HoldsSettled
    BY DEF Init, Accounted, HoldsSettled
  <2> QED BY <2>1, <2>2 DEF AccountInv
<1>2. AccountInv => Accounted
  BY DEF AccountInv
<1> QED BY <1>1, <1>2, StepAccount, PTL DEF Spec

-----------------------------------------------------------------------------
\* While there are enough ids, an id never comes round to a request again.

NoWrap == IsFiniteSet(Reqs) /\ Cardinality(Reqs) <= IdSpace

Sent == {r \in Reqs : outcome[r] # "new"}

\* What a message says of its id is true of the table, unless the entry is gone.
Truthful(m) == m.id < Cardinality(Sent) /\ pending[m.id] \in {None, m.req}

\* Ids are given in turn, and no entry has an id that was not.
TableInv ==
    /\ Cardinality(Sent) < IdSpace => id = Cardinality(Sent)
    /\ \A i \in Ids : pending[i] # None => i < Cardinality(Sent)

WireInv == \A m \in wire : Truthful(m)

PartsInv ==
    \A n \in DOMAIN stack : stack[n].pc = "parts" =>
        \A k \in DOMAIN stack[n].parts : Truthful(stack[n].parts[k].msg)

ClientInv == ShapeInv /\ TableInv /\ WireInv /\ PartsInv /\ AnsweredByOwn

\* The number of ids that were given.
LEMMA SentFacts ==
    ASSUME NoWrap
    PROVE  /\ IsFiniteSet(Sent) /\ Cardinality(Sent) \in Nat
           /\ Cardinality(Sent) <= Cardinality(Reqs) /\ Cardinality(Reqs) \in Nat
BY FS_Subset, FS_CardinalityType DEF NoWrap, Sent


\* Requests that were not sent before, added to those that were.
LEMMA BatchCount ==
    ASSUME NEW S, IsFiniteSet(S), NEW rs, Batch(rs), \A r \in Elems(rs) : r \notin S
    PROVE  /\ IsFiniteSet(S \cup Elems(rs))
           /\ Cardinality(S \cup Elems(rs)) = Cardinality(S) + Len(rs)
<1>1. DOMAIN rs = 1 .. Len(rs) /\ Len(rs) \in 1 .. 2
  BY DEF Batch
<1>2. Cardinality(S) \in Nat
  BY FS_CardinalityType
<1>3. CASE Len(rs) = 1
  <2>1. Elems(rs) = {rs[1]}
    BY <1>1, <1>3 DEF Elems
  <2>2. rs[1] \notin S /\ S \cup Elems(rs) = S \cup {rs[1]}
    BY <2>1
  <2>3. IsFiniteSet(S \cup {rs[1]}) /\ Cardinality(S \cup {rs[1]}) = Cardinality(S) + 1
    BY <2>2, FS_AddElement
  <2> QED BY <1>3, <2>2, <2>3
<1>4. CASE Len(rs) = 2
  <2>1. Elems(rs) = {rs[1], rs[2]} /\ rs[1] # rs[2]
    BY <1>1, <1>4 DEF Elems, Batch
  <2>2. PICK T : T = S \cup {rs[1]}
    OBVIOUS
  <2>3. rs[1] \notin S /\ rs[2] \notin T /\ S \cup Elems(rs) = T \cup {rs[2]}
    BY <2>1, <2>2
  <2>4. IsFiniteSet(T) /\ Cardinality(T) = Cardinality(S) + 1
    BY <2>2, <2>3, FS_AddElement
  <2>5. IsFiniteSet(T \cup {rs[2]}) /\ Cardinality(T \cup {rs[2]}) = Cardinality(T) + 1
    BY <2>3, <2>4, FS_AddElement
  <2>6. PICK n \in Nat : n = Cardinality(S)
    BY <1>2
  <2>7. Cardinality(T \cup {rs[2]}) = n + 2
    BY <2>4, <2>5, <2>6
  <2>8. Cardinality(S \cup Elems(rs)) = n + 2 /\ IsFiniteSet(S \cup Elems(rs))
    BY <2>3, <2>5, <2>7
  <2> QED BY <1>4, <2>6, <2>8
<1> QED BY <1>1, <1>3, <1>4

\* The ids a batch gets are the next ones: none has come round.
LEMMA SendIds ==
    ASSUME NoWrap, ShapeInv, TableInv, NEW rs, NEW t, Batch(rs), Send(rs, t)
    PROVE  \E n, l \in Nat :
              /\ n = Cardinality(Sent) /\ l = Len(rs) /\ l > 0 /\ DOMAIN rs = 1 .. l
              /\ Cardinality(Sent)' = n + l /\ n + l <= IdSpace
              /\ \A k \in 1 .. l : IdOf(k) = n + k - 1
              /\ n + l < IdSpace => id' = n + l
              /\ \A r \in Reqs : outcome'[r] = IF r \in Elems(rs) THEN "open" ELSE outcome[r]
<1>1. TypeOK /\ TableInv
  BY DEF ShapeInv
<1>2. PICK n \in Nat : n = Cardinality(Sent)
  BY SentFacts
<1>3. PICK l \in 1 .. 2 : l = Len(rs) /\ DOMAIN rs = 1 .. l
  BY DEF Batch
<1>4. PICK m \in Nat \ {0} : m = IdSpace
  BY ClockAssumption
<1>5. PICK c \in Nat : c = Cardinality(Reqs) /\ c <= m
  BY <1>4, SentFacts DEF NoWrap
<1>6. PICK S : S = Sent
  OBVIOUS
<1>7. Elems(rs) \subseteq Reqs /\ \A r \in Elems(rs) : r \notin S
  <2>1. \A k \in 1 .. l : rs[k] \in Reqs
    BY <1>3 DEF Batch
  <2> QED BY <1>3, <1>6, <2>1 DEF Elems, Send, Sent
<1>8. IsFiniteSet(S \cup Elems(rs)) /\ Cardinality(S \cup Elems(rs)) = n + l
  <2>1. IsFiniteSet(S)
    BY <1>6, SentFacts
  <2>2. /\ IsFiniteSet(S \cup Elems(rs))
        /\ Cardinality(S \cup Elems(rs)) = Cardinality(S) + Len(rs)
    BY <1>7, <2>1, BatchCount
  <2> QED BY <1>2, <1>3, <1>6, <2>2
<1>9. n + l <= c
  <2>1. S \cup Elems(rs) \subseteq Reqs
    BY <1>6, <1>7 DEF Sent
  <2>2. Cardinality(S \cup Elems(rs)) <= Cardinality(Reqs)
    BY <2>1, FS_Subset DEF NoWrap
  <2> QED BY <1>5, <1>8, <2>2
<1>10. n < m /\ n + l <= m
  BY <1>5, <1>9
<1>11. id = n
  BY <1>1, <1>2, <1>4, <1>10 DEF TableInv
<1>12. \A k \in Nat : k < m => k % m = k
  BY <1>4
<1>13. ASSUME NEW k \in 1 .. l PROVE IdOf(k) = n + k - 1
  <2>1. n + k - 1 \in Nat /\ n + k - 1 < m
    BY <1>10
  <2> QED BY <1>4, <1>11, <1>12, <2>1 DEF IdOf
<1>14. n + l < m => id' = n + l
  <2>1. id' = (n + l) % m
    BY <1>3, <1>4, <1>11 DEF Send, AddPending, IdAfter
  <2>2. n + l \in Nat
    OBVIOUS
  <2> QED BY <1>12, <2>1, <2>2
<1>15. ASSUME NEW i \in NewIds(rs), pending[i] # None PROVE FALSE
  <2>1. PICK k \in 1 .. l : i = IdOf(k)
    BY <1>3, <1>15 DEF NewIds
  <2>2. i = n + k - 1
    BY <1>13, <2>1
  <2>3. i \in Ids
    <3>1. n + k - 1 \in 0 .. m - 1
      BY <1>10
    <3> QED BY <1>4, <2>2, <3>1 DEF Ids
  <2>4. i < n
    BY <1>1, <1>2, <1>15, <2>3 DEF TableInv
  <2> QED BY <2>2, <2>4
<1>16. ASSUME NEW r \in Reqs
       PROVE  outcome'[r] = IF r \in Elems(rs) THEN "open" ELSE outcome[r]
  <2>1. ~ \E i \in NewIds(rs) : pending[i] = r
    BY <1>15, NoneAssumption
  <2> QED BY <2>1 DEF Send, AddPending
<1>17. Sent' = S \cup Elems(rs)
  BY <1>6, <1>7, <1>16 DEF Sent
<1>18. Cardinality(Sent)' = n + l
  BY <1>8, <1>17
<1>19. n + l <= IdSpace /\ (n + l < IdSpace => id' = n + l) /\ l \in Nat /\ l > 0
  BY <1>4, <1>10, <1>14
<1> QED BY <1>2, <1>3, <1>13, <1>16, <1>18, <1>19

LEMMA InitTable == Init => TableInv
<1> SUFFICES ASSUME Init PROVE TableInv
  OBVIOUS
<1>1. Sent = {}
  BY DEF Init, Sent
<1>2. Cardinality(Sent) = 0
  BY <1>1, FS_EmptySet
<1> QED BY <1>2 DEF Init, TableInv

LEMMA WearsSent == ASSUME ShapeInv, Wears PROVE Sent' = Sent
<1>1. \A r \in Reqs : outcome'[r] # "new" <=> outcome[r] # "new"
  BY DEF Wears, Settled
<1> QED BY <1>1 DEF Sent

\* What the entries of the new requests were, and what the others remain.
LEMMA SendTable ==
    ASSUME NoWrap, ShapeInv, TableInv, NEW rs, NEW t \in Timeouts, Batch(rs), Send(rs, t)
    PROVE  /\ TableInv'
           /\ Cardinality(Sent)' \in Nat /\ Cardinality(Sent) \in Nat
           /\ Cardinality(Sent) < Cardinality(Sent)'
           /\ \A i \in Ids : i < Cardinality(Sent) => pending'[i] = pending[i]
           /\ \A i \in Ids : pending[i] # None => pending'[i] = pending[i]
           /\ \A k \in DOMAIN rs : /\ IdOf(k) < Cardinality(Sent)'
                                   /\ pending'[IdOf(k)] = rs[k] /\ IdOf(k) \in Ids
<1>1. PICK n, l \in Nat :
              /\ n = Cardinality(Sent) /\ l = Len(rs) /\ l > 0 /\ DOMAIN rs = 1 .. l
              /\ Cardinality(Sent)' = n + l /\ n + l <= IdSpace
              /\ \A k \in 1 .. l : IdOf(k) = n + k - 1
              /\ n + l < IdSpace => id' = n + l
              /\ \A r \in Reqs : outcome'[r] = IF r \in Elems(rs) THEN "open" ELSE outcome[r]
  BY SendIds
<1>2. PICK m \in Nat \ {0} : m = IdSpace /\ Ids = 0 .. m - 1
  BY ClockAssumption DEF Ids
<1>3. \A i \in Ids : \/ i \notin NewIds(rs) /\ pending'[i] = pending[i]
                     \/ \E k \in 1 .. l : i = IdOf(k) /\ pending'[i] = rs[k]
  BY <1>1, SendAdds DEF Added
<1>4. ASSUME NEW i \in Ids
      PROVE  \/ pending'[i] = pending[i] /\ i \notin NewIds(rs)
             \/ \E k \in 1 .. l : i = n + k - 1 /\ pending'[i] = rs[k]
  BY <1>1, <1>3
<1>5. ASSUME NEW i \in Ids, i < n PROVE pending'[i] = pending[i]
  BY <1>2, <1>4, <1>5
<1>6. ASSUME NEW i \in Ids, pending[i] # None PROVE i < n
  BY <1>1, <1>6 DEF TableInv
<1>7. ASSUME NEW k \in 1 .. l
      PROVE  IdOf(k) < n + l /\ pending'[IdOf(k)] = rs[k] /\ IdOf(k) \in Ids
  <2>1. PICK i : i = IdOf(k) /\ i = n + k - 1
    BY <1>1
  <2>2. i \in Ids /\ i < n + l
    BY <1>1, <1>2, <2>1
  <2>3. i \in NewIds(rs)
    BY <1>1, <2>1 DEF NewIds
  <2>4. PICK j \in 1 .. l : i = n + j - 1 /\ pending'[i] = rs[j]
    BY <1>4, <2>2, <2>3
  <2>5. j = k
    BY <2>1, <2>4
  <2> QED BY <2>1, <2>2, <2>4, <2>5
<1>8. ASSUME NEW i \in Ids, pending'[i] # None PROVE i < n + l
  <2>1. CASE pending'[i] = pending[i]
    BY <1>1, <1>2, <1>6, <1>8, <2>1
  <2>2. CASE \E k \in 1 .. l : i = n + k - 1
    BY <2>2
  <2> QED BY <1>4, <2>1, <2>2
<1>9. TableInv'
  BY <1>1, <1>8 DEF TableInv
<1> QED BY <1>1, <1>5, <1>6, <1>7, <1>9

LEMMA WearsTable == ASSUME ShapeInv, TableInv, Wears PROVE TableInv'
<1>1. Sent' = Sent /\ id' = id
  BY WearsSent DEF Wears
<1>2. \A i \in Ids : pending'[i] # None => pending'[i] = pending[i]
  BY DEF Wears
<1> QED BY <1>1, <1>2 DEF TableInv

\* What was true of a message remains so.
LEMMA TruthStays ==
    ASSUME NoWrap, ShapeInv, TableInv, [Next]_vars, NEW m, m.id \in Ids, Truthful(m)
    PROVE  Truthful(m)'
<1>1. CASE Wears
  <2>1. Sent' = Sent /\ (pending'[m.id] = pending[m.id] \/ pending'[m.id] = None)
    BY <1>1, WearsSent DEF Wears
  <2> QED BY <2>1 DEF Truthful
<1>2. CASE Sends
  <2>1. /\ Cardinality(Sent)' \in Nat /\ Cardinality(Sent) \in Nat
        /\ Cardinality(Sent) < Cardinality(Sent)'
        /\ m.id < Cardinality(Sent) => pending'[m.id] = pending[m.id]
    BY <1>2, SendTable DEF Sends
  <2>2. m.id \in Nat
    BY ClockAssumption DEF Ids
  <2> QED BY <2>1, <2>2 DEF Truthful
<1> QED BY <1>1, <1>2, StepWears

LEMMA WireStep ==
    ASSUME NoWrap, ShapeInv, TableInv, WireInv, [Next]_vars
    PROVE  WireInv'
<1>1. wire \subseteq Msgs /\ \A m \in Msgs : m.id \in Ids
  BY DEF ShapeInv, TypeOK, Msgs
<1>2. \A m \in wire : Truthful(m)'
  BY <1>1, TruthStays DEF WireInv
<1>3. CASE Wears
  BY <1>2, <1>3 DEF Wears, WireInv
<1>4. CASE Sends
  <2>1. PICK rs, t : t \in Timeouts /\ Batch(rs) /\ Send(rs, t)
    BY <1>4 DEF Sends
  <2>2. wire' = wire \cup {[id |-> IdOf(k), req |-> rs[k]] : k \in DOMAIN rs}
    BY <2>1 DEF Send
  <2>3. ASSUME NEW k \in DOMAIN rs, NEW m, m = [id |-> IdOf(k), req |-> rs[k]] PROVE Truthful(m)'
    <3>1. IdOf(k) < Cardinality(Sent)' /\ pending'[IdOf(k)] = rs[k]
      BY <2>1, SendTable
    <3>2. m.id = IdOf(k) /\ m.req = rs[k]
      BY <2>3
    <3> QED BY <3>1, <3>2 DEF Truthful
  <2>4. ASSUME NEW m \in wire' PROVE Truthful(m)'
    BY <1>2, <2>2, <2>3
  <2> QED BY <2>4 DEF WireInv
<1> QED BY <1>3, <1>4, StepWears

LEMMA PartsStep ==
    ASSUME NoWrap, ClientInv, [Next]_vars
    PROVE  PartsInv'
<1>1. ShapeInv /\ TableInv /\ StackStep
  BY StackSteps DEF ClientInv
<1>2. ASSUME NEW n \in DOMAIN stack', stack'[n].pc = "parts", NEW k \in DOMAIN stack'[n].parts
      PROVE  Known(stack'[n].parts[k].msg) /\ stack'[n].parts[k].msg.id \in Ids
  <2>1. PICK f \in Frame : f = stack'[n]
    <3>1. stack' \in Seq(Frame)
      BY <1>1 DEF StackStep
    <3> QED BY <3>1, ElementOfSeq
  <2>2. f.parts \in Seq(Parts)
    BY <1>2, <2>1, FrameFacts
  <2>3. f.parts[k] \in Parts
    BY <1>2, <2>1, <2>2, ElementOfSeq
  <2>4. f.parts[k].msg.id \in Ids
    BY <2>3 DEF Parts, Msgs
  <2>5. CASE Same(n)
    <3>1. n \in DOMAIN stack /\ stack[n] = f
      BY <2>1, <2>5 DEF Same
    <3>2. stack[n].pc = "parts" /\ k \in DOMAIN stack[n].parts /\ f.parts[k].msg = stack[n].parts[k].msg
      BY <1>2, <2>1, <3>1
    <3>3. Known(f.parts[k].msg)
      BY <3>1, <3>2 DEF Known
    <3> QED BY <2>1, <2>4, <3>3
  <2>6. CASE Fresh(stack'[n])
    <3>1. f.pc = "parts" /\ k \in DOMAIN f.parts /\ Fresh(f)
      BY <1>2, <2>1, <2>6
    <3>2. Known(f.parts[k].msg)
      BY <3>1 DEF Fresh
    <3> QED BY <2>1, <2>4, <3>2
  <2> QED BY <1>1, <2>1, <2>4, <2>5, <2>6 DEF StackStep
<1>3. ASSUME NEW m, m.id \in Ids, Known(m) PROVE Truthful(m)'
  <2>1. Truthful(m)
    BY <1>3 DEF Known, ClientInv, WireInv, PartsInv
  <2> QED BY <1>1, <1>3, <2>1, TruthStays
<1> QED BY <1>2, <1>3 DEF PartsInv

LEMMA AnswerStep ==
    ASSUME NoWrap, ClientInv, [Next]_vars
    PROVE  AnsweredByOwn'
<1>1. AnsweredByOwn /\ ShapeInv /\ TypeOK
  BY DEF ClientInv, ShapeInv
<1>2. CASE HandleResp
  <2>1. PICK i \in Ids, q \in Reqs : i = Head(Top.parts).msg.id /\ q = Head(Top.parts).msg.req
    BY <1>1, <1>2, PartsOnTop DEF HandleResp
  <2>2. PICK r \in Reqs : r = pending[i]
    BY <1>1, <1>2, <2>1 DEF HandleResp, TypeOK
  <2>3. Truthful(Head(Top.parts).msg)
    <3>1. stack # << >> /\ Top.pc = "parts" /\ Top.parts # << >> /\ Top.parts \in Seq(Parts)
      BY <1>1, <1>2, PartsOnTop DEF HandleResp, At
    <3>2. Len(stack) \in DOMAIN stack /\ Top = stack[Len(stack)]
      BY <1>1, <3>1, TopFacts
    <3>3. 1 \in DOMAIN Top.parts /\ Head(Top.parts) = Top.parts[1]
      <4>1. PICK ps \in Seq(Parts) : ps = Top.parts /\ ps # << >>
        BY <3>1
      <4>2. 1 \in DOMAIN ps /\ Head(ps) = ps[1]
        BY <4>1, EmptySeq, HeadTailProperties
      <4> QED BY <4>1, <4>2
    <3> QED BY <3>1, <3>2, <3>3 DEF ClientInv, PartsInv
  <2>4. r = q
    BY <2>1, <2>2, <2>3, NoneAssumption DEF Truthful
  <2>5. answeredBy' = answeredBy \/ answeredBy' = [answeredBy EXCEPT ![r] = q]
    BY <1>2, <2>1, <2>2 DEF HandleResp
  <2> QED BY <1>1, <2>4, <2>5 DEF AnsweredByOwn, TypeOK
<1>3. CASE ~HandleResp
  <2>1. answeredBy' = answeredBy
    BY <1>3, NextCases DEF Sends, Send, SendReturns, Receive, RejectResp, CallbackReturns, Erase, Step,
                 Dangling, Tick, CheckTimeouts, Deduct, TimeoutHappened, ClearAllPending, Cancel,
                 LoopEnds, Destroy, Break, Destroyed, CallDying, vars, history
  <2> QED BY <1>1, <2>1 DEF AnsweredByOwn
<1> QED BY <1>2, <1>3

\* A response settles the request that was sent with its id, however late it is
\* and whatever the callbacks send, handle and cancel meanwhile.
THEOREM ClientAnsweredByOwn == NoWrap => (Spec => []AnsweredByOwn)
<1> SUFFICES ASSUME NoWrap PROVE Spec => []AnsweredByOwn
  OBVIOUS
<1>1. Init => ClientInv
  <2> SUFFICES ASSUME Init PROVE ClientInv
    OBVIOUS
  <2>1. ShapeInv /\ TableInv
    BY InitShape, InitTable
  <2>2. WireInv /\ PartsInv /\ AnsweredByOwn
    BY DEF Init, WireInv, PartsInv, AnsweredByOwn
  <2> QED BY <2>1, <2>2 DEF ClientInv
<1>2. ClientInv /\ [Next]_vars => ClientInv'
  <2> SUFFICES ASSUME ClientInv, [Next]_vars PROVE ClientInv'
    OBVIOUS
  <2>1. ShapeInv /\ TableInv /\ WireInv
    BY DEF ClientInv
  <2>2. ShapeInv'
    BY <2>1, StepShape
  <2>3. TableInv'
    BY <2>1, StepWears, WearsTable, SendTable DEF Sends
  <2>4. WireInv' /\ PartsInv' /\ AnsweredByOwn'
    BY <2>1, WireStep, PartsStep, AnswerStep
  <2> QED BY <2>2, <2>3, <2>4 DEF ClientInv
<1>3. ClientInv => AnsweredByOwn
  BY DEF ClientInv
<1> QED BY <1>1, <1>2, <1>3, PTL DEF Spec

-----------------------------------------------------------------------------
\* What an iterator that is held across a callback stands at.

HoldsTrue == \A n \in DOMAIN stack : Holder(stack[n]) => pending[stack[n].id] = stack[n].req

\* No other iterator below the one that erases an entry stands at that entry.
Apart ==
    \A m, n \in DOMAIN stack :
        m < n /\ Holder(stack[m]) /\ stack[n].pc = "erase" => stack[m].id # stack[n].id

EraseInv == ShapeInv /\ TableInv /\ (overtaken \/ (HoldsTrue /\ Apart))

LEMMA StillOvertaken ==
    ASSUME [Next]_vars, ~overtaken'
    PROVE  ~overtaken
<1>1. CASE HandleResp \/ TimeoutHappened
  BY <1>1 DEF HandleResp, TimeoutHappened
<1>2. CASE ~(HandleResp \/ TimeoutHappened)
  <2>1. overtaken' = overtaken
    BY <1>2, NextCases DEF Sends, Send, SendReturns, Receive, RejectResp, CallbackReturns, Erase, Step,
                 Dangling, Tick, CheckTimeouts, Deduct, ClearAllPending, Cancel,
                 LoopEnds, Destroy, Break, Destroyed, CallDying, vars, history
  <2> QED BY <2>1
<1> QED BY <1>1, <1>2

LEMMA ApartStep ==
    ASSUME ShapeInv, Apart, [Next]_vars, ~overtaken'
    PROVE  Apart'
<1>1. StackStep
  BY StackSteps
<1>2. PICK l \in Nat : l = Len(stack) /\ DOMAIN stack = 1 .. l
  BY DEF ShapeInv, TypeOK
<1>3. DOMAIN stack' \subseteq Nat
  BY <1>1 DEF StackStep
<1>4. ASSUME NEW m \in DOMAIN stack', NEW n \in DOMAIN stack', m < n,
             Holder(stack'[m]), stack'[n].pc = "erase"
      PROVE  stack'[m].id # stack'[n].id
  <2>1. Holder(stack'[n])
    BY <1>4 DEF Holder
  <2>2. m < l
    BY <1>1, <1>2, <1>3, <1>4, <2>1 DEF StackStep
  <2>3. Same(m)
    BY <1>1, <1>2, <1>4, <2>2 DEF StackStep
  <2>4. CASE Same(n)
    <3>1. m \in DOMAIN stack /\ n \in DOMAIN stack /\ stack'[m] = stack[m] /\ stack'[n] = stack[n]
      BY <2>3, <2>4 DEF Same
    <3> QED BY <1>4, <3>1 DEF Apart
  <2>5. CASE Fresh(stack'[n])
    <3>1. ~Held(stack'[n].id)
      BY <1>4, <2>1, <2>5 DEF Fresh
    <3>2. m \in DOMAIN stack /\ stack'[m] = stack[m] /\ stack[m].pc \in {"erase", "step"}
      BY <1>4, <2>3 DEF Same, Holder
    <3> QED BY <3>1, <3>2 DEF Held
  <2> QED BY <1>1, <2>4, <2>5 DEF StackStep
<1> QED BY <1>4 DEF Apart, Holder

\* An entry that an iterator stands at stays, but for the iterator's own erasing.
LEMMA HeldStays ==
    ASSUME NoWrap, ShapeInv, TableInv, HoldsTrue, Apart, [Next]_vars,
           NEW n \in DOMAIN stack', Same(n), Holder(stack[n])
    PROVE  pending'[stack[n].id] = stack[n].req
<1>1. TypeOK /\ n \in DOMAIN stack
  BY DEF ShapeInv, Same
<1>2. PICK i \in Ids, r \in Reqs : i = stack[n].id /\ r = stack[n].req /\ pending[i] = r
  <2>1. stack[n] \in Frame
    BY <1>1, ElementOfSeq DEF TypeOK
  <2> QED BY <1>1, <2>1, FrameFacts DEF Holder, HoldsTrue
<1>3. r # None
  BY NoneAssumption
<1>4. CASE Sends
  BY <1>2, <1>3, <1>4, SendTable DEF Sends
<1>5. CASE Erase
  <2>1. /\ Len(stack) \in DOMAIN stack /\ Top = stack[Len(stack)] /\ Top \in Frame /\ Top.pc = "erase"
        /\ Replaces(stack', stack, << >>) /\ Len(stack) \in Nat
    BY <1>1, <1>5, TopFacts DEF Erase, At
  <2>2. PICK j \in Ids : j = Top.id /\ DropEntry(j)
    BY <1>5, <2>1, FrameFacts DEF Erase
  <2>3. n < Len(stack)
    <3>1. PICK l \in Nat : l = Len(stack)
      BY <2>1
    <3>2. Len(stack') = l - 1 /\ stack' \in Seq(Frame)
      BY <2>1, <3>1, EmptySeq DEF Replaces
    <3>3. n \in 1 .. l - 1
      BY <3>2
    <3> QED BY <3>1, <3>3
  <2>4. j # i
    BY <1>1, <1>2, <2>1, <2>2, <2>3 DEF Apart
  <2> QED BY <1>1, <1>2, <2>2, <2>4, DropFacts
<1>6. CASE Break
  <2>1. stack # << >> /\ Top.pc = "destroy"
    BY <1>6 DEF Break, At
  <2>2. gone
    BY <1>1, <2>1, TopFacts DEF ShapeInv, GoneFrames
  <2> QED BY <1>1, <2>2 DEF ShapeInv, GoneFrames, Holder
<1>7. CASE Dangling
  <2>1. /\ Len(stack) \in DOMAIN stack /\ Top = stack[Len(stack)] /\ Holder(Top)
    BY <1>1, <1>7, TopFacts DEF Dangling, At, Holder
  <2>2. Intact
    BY <2>1 DEF HoldsTrue, Intact
  <2> QED BY <1>7, <2>2 DEF Dangling
<1>8. CASE \/ SendReturns \/ Receive \/ RejectResp \/ HandleResp \/ CallbackReturns \/ Step \/ Tick
           \/ CheckTimeouts \/ Deduct \/ TimeoutHappened \/ ClearAllPending \/ Cancel
           \/ LoopEnds \/ Destroy \/ Destroyed \/ CallDying \/ UNCHANGED vars
  <2>1. pending' = pending
    BY <1>8 DEF SendReturns, Receive, RejectResp, HandleResp, CallbackReturns, Step, Tick,
           CheckTimeouts, Deduct, TimeoutHappened, ClearAllPending, Cancel,
           LoopEnds, Destroy, Destroyed, CallDying, vars, table
  <2> QED BY <1>2, <2>1
<1> QED BY <1>4, <1>5, <1>6, <1>7, <1>8, NextCases

LEMMA StepErase == NoWrap /\ EraseInv /\ [Next]_vars => EraseInv'
<1> SUFFICES ASSUME NoWrap, EraseInv, [Next]_vars PROVE EraseInv'
  OBVIOUS
<1>1. ShapeInv /\ TableInv /\ StackStep
  BY StackSteps DEF EraseInv
<1>2. ShapeInv' /\ TableInv'
  BY <1>1, StepShape, StepWears, WearsTable, SendTable DEF Sends
<1>3. ASSUME ~overtaken'
      PROVE  HoldsTrue' /\ Apart'
  <2>1. HoldsTrue /\ Apart
    BY <1>3, StillOvertaken DEF EraseInv
  <2>2. ASSUME NEW n \in DOMAIN stack', Holder(stack'[n])
        PROVE  pending'[stack'[n].id] = stack'[n].req
    <3>1. CASE Same(n)
      <4>1. stack'[n] = stack[n]
        BY <3>1 DEF Same
      <4> QED BY <1>1, <2>1, <2>2, <3>1, <4>1, HeldStays
    <3>2. CASE Fresh(stack'[n])
      BY <2>2, <3>2 DEF Fresh
    <3> QED BY <1>1, <3>1, <3>2 DEF StackStep
  <2>3. Apart'
    BY <1>1, <1>3, <2>1, ApartStep
  <2> QED BY <2>2, <2>3 DEF HoldsTrue, Holder
<1> QED BY <1>2, <1>3 DEF EraseInv

\* An iterator that is held across a callback denotes the entry it was taken for
\* when the callback has returned, whatever responses the callback, or the Send
\* of a request it sends, has handled: unless one of them was a second one about
\* that very entry.
THEOREM ClientErasesWhatItFound == NoWrap => (Spec => []ErasesWhatItFound)
<1> SUFFICES ASSUME NoWrap PROVE Spec => []ErasesWhatItFound
  OBVIOUS
<1>1. Init => EraseInv
  <2> SUFFICES ASSUME Init PROVE EraseInv
    OBVIOUS
  <2>1. ShapeInv /\ TableInv
    BY InitShape, InitTable
  <2>2. HoldsTrue /\ Apart
    BY DEF Init, HoldsTrue, Apart
  <2> QED BY <2>1, <2>2 DEF EraseInv
<1>2. EraseInv /\ [Next]_vars => EraseInv'
  BY StepErase
<1>3. EraseInv => ErasesWhatItFound
  BY DEF EraseInv, HoldsTrue, Holder, ErasesWhatItFound
<1> QED BY <1>1, <1>2, <1>3, PTL DEF Spec

-----------------------------------------------------------------------------
\* Where the time of an open request has gone.

\* Ticks in n milliseconds.
Ticks(n) == TicksPerMs * n

\* An iteration that has yet to come to the entry i takes d milliseconds from it.
Owed(i, d) ==
    \E n \in DOMAIN stack : stack[n].pc = "check" /\ i \in stack[n].todo /\ stack[n].diff = d

\* With the time that an iteration may still take from it, what a request has
\* left accounts for its age.
Paid(r, d) == Ticks(limit[r]) + Ticks(d) + lost[r] + elapsed >= age[r] + Ticks(left[r])
Covered(r, i) == Paid(r, 0) \/ \E d \in Nat : Owed(i, d) /\ Paid(r, d)

\* Time is left, or none has been taken yet.
Running(r, i) == left[r] > 0 \/ age[r] <= elapsed \/ \E d \in Nat : Owed(i, d)

Watched(r) == outcome[r] = "open" /\ limit[r] # NoTimeout /\ r \notin missed

OnTime(r) ==
    Watched(r) =>
        /\ left[r] \in Nat /\ limit[r] \in Nat /\ left[r] <= limit[r]
        /\ \A i \in Ids : pending[i] = r => Covered(r, i) /\ Running(r, i)

AgeInv == \A r \in Reqs : age[r] <= MaxAge /\ (outcome[r] = "new" => age[r] = 0)

TimelyInv == ShapeInv /\ AgeInv /\ (undef \/ \A r \in Reqs : OnTime(r))

LEMMA TicksFacts ==
    /\ Ticks(0) = 0
    /\ \A a \in Nat : Ticks(a) \in Nat
    /\ \A a, b \in Nat : Ticks(a + b) = Ticks(a) + Ticks(b)
    /\ \A a \in Nat : a > 0 => Ticks(a) > 0
<1>1. PICK m \in Nat \ {0} : m = TicksPerMs
  BY ClockAssumption
<1>2. \A a \in Nat : m * a \in Nat
  OBVIOUS
<1>3. \A a, b \in Nat : m * (a + b) = m * a + m * b
  OBVIOUS
<1>4. \A a \in Nat : a > 0 => m * a > 0
  OBVIOUS
<1>5. m * 0 = 0
  OBVIOUS
<1> QED BY <1>1, <1>2, <1>3, <1>4, <1>5 DEF Ticks

\* What is left when a part is taken away.
LEMMA TicksLess ==
    ASSUME NEW a \in Nat, NEW b \in Nat, b <= a
    PROVE  Ticks(a) = Ticks(a - b) + Ticks(b) /\ Ticks(a - b) \in Nat /\ Ticks(b) \in Nat
<1>1. PICK c \in Nat : c = a - b /\ a = c + b
  OBVIOUS
<1> QED BY <1>1, TicksFacts

\* Every iteration goes on, for the entries but one.
OwedStays(i, r) ==
    \A d \in Nat : Owed(i, d) => Owed(i, d)' \/ ~Watched(r)'

\* Frames of CheckTimeouts that stay where they are.
Kept ==
    \A n \in DOMAIN stack : stack[n].pc = "check" => n \in DOMAIN stack' /\ stack'[n] = stack[n]

LEMMA KeptOwed ==
    ASSUME Kept, NEW i, NEW r
    PROVE  OwedStays(i, r)
<1>1. ASSUME NEW d \in Nat, NEW n \in DOMAIN stack,
             stack[n].pc = "check", i \in stack[n].todo, stack[n].diff = d
      PROVE  Owed(i, d)'
  <2>1. n \in DOMAIN stack' /\ stack'[n] = stack[n]
    BY <1>1 DEF Kept
  <2> QED BY <1>1, <2>1 DEF Owed
<1> QED BY <1>1 DEF Owed, OwedStays

LEMMA ReplaceKept ==
    ASSUME NEW fs, Replaces(stack', stack, fs), Top.pc # "check"
    PROVE  Kept
<1>1. PICK s, t : s = stack /\ t = stack' /\ Replaces(t, s, fs)
  OBVIOUS
<1>2. PICK l \in Nat : l = Len(s) /\ l > 0 /\ DOMAIN s = 1 .. l
  BY <1>1 DEF Replaces
<1>3. PICK h \in Nat : h = Len(fs)
  BY <1>1 DEF Replaces
<1>4. DOMAIN t = 1 .. l - 1 + h
  BY <1>1, <1>2, <1>3 DEF Replaces
<1>5. ASSUME NEW n \in 1 .. l, s[n].pc = "check" PROVE n \in DOMAIN t /\ t[n] = s[n]
  <2>1. n # l
    BY <1>1, <1>2, <1>5 DEF Top
  <2>2. n \in 1 .. l - 1
    BY <2>1
  <2> QED BY <1>1, <1>2, <1>4, <2>2 DEF Replaces
<1> QED BY <1>1, <1>2, <1>5 DEF Kept

LEMMA PopKept ==
    ASSUME TypeOK, stack # << >>, stack' = Below, Top.pc # "check"
    PROVE  Kept
BY TopFacts, ReplaceKept

LEMMA PushKept ==
    ASSUME TypeOK, NEW f \in Frame, stack' = Append(stack, f)
    PROVE  Kept /\ Len(stack) + 1 \in DOMAIN stack' /\ stack'[Len(stack) + 1] = f
<1>1. PICK s \in Seq(Frame) : s = stack
  BY DEF TypeOK
<1>2. PICK t : t = Append(s, f)
  OBVIOUS
<1>3. PICK l \in Nat : l = Len(s) /\ DOMAIN s = 1 .. l
  BY <1>1
<1>4. DOMAIN t = 1 .. l + 1 /\ (\A n \in 1 .. l : t[n] = s[n]) /\ t[l + 1] = f
  BY <1>2, <1>3, AppendProperties, LenProperties
<1> QED BY <1>1, <1>2, <1>3, <1>4 DEF Kept

\* The iteration on top has been to i.
LEMMA VisitOwed ==
    ASSUME ShapeInv, At("check"), NEW i, NEW fs, Replaces(stack', stack, fs), Len(fs) >= 1,
           fs[1] = Visited(i), NEW j, NEW d \in Nat, Owed(j, d)
    PROVE  Owed(j, d)' \/ (j = i /\ d = Top.diff)
<1>1. PICK s, t : s = stack /\ t = stack' /\ Replaces(t, s, fs)
  OBVIOUS
<1>2. PICK l \in Nat : l = Len(s) /\ l > 0 /\ DOMAIN s = 1 .. l
  BY <1>1 DEF Replaces
<1>3. PICK h \in Nat : h = Len(fs) /\ h >= 1
  BY <1>1 DEF Replaces
<1>4. DOMAIN t = 1 .. l - 1 + h
  BY <1>1, <1>2, <1>3 DEF Replaces
<1>5. PICK n \in 1 .. l : s[n].pc = "check" /\ j \in s[n].todo /\ s[n].diff = d
  BY <1>1, <1>2 DEF Owed
<1>6. CASE n < l
  <2>1. n \in 1 .. l - 1
    BY <1>6
  <2>2. n \in DOMAIN t /\ t[n] = s[n]
    BY <1>1, <1>2, <1>3, <1>4, <2>1 DEF Replaces
  <2> QED BY <1>1, <1>5, <2>2 DEF Owed
<1>7. CASE n = l
  <2>1. s[n] = Top
    BY <1>1, <1>2, <1>7 DEF Top
  <2>2. /\ Visited(i).pc = Top.pc /\ Visited(i).todo = Top.todo \ {i}
        /\ Top.pc = "check" => Visited(i).diff = Top.diff
    BY VisitedFacts DEF ShapeInv
  <2>3. l \in DOMAIN t /\ t[l] = Visited(i)
    <3>1. 1 \in 1 .. h /\ l - 1 + 1 = l /\ l \in 1 .. l - 1 + h
      BY <1>2, <1>3
    <3>2. t[l - 1 + 1] = fs[1]
      BY <1>1, <1>2, <1>3, <3>1 DEF Replaces
    <3> QED BY <1>4, <3>1, <3>2
  <2>4. t[l].pc = "check" /\ t[l].diff = d /\ (j # i => j \in t[l].todo)
    BY <1>5, <2>1, <2>2, <2>3
  <2>5. l \in DOMAIN stack' /\ stack'[l] = t[l]
    BY <1>1, <2>3
  <2> QED BY <1>5, <2>1, <2>4, <2>5 DEF Owed
<1> QED BY <1>2, <1>6, <1>7

\* A step that takes no time and leaves what is left.
LEMMA OnTimeStays ==
    ASSUME ShapeInv, NEW r \in Reqs, OnTime(r),
           Watched(r)' => /\ Watched(r)
                          /\ left'[r] = left[r] /\ limit'[r] = limit[r] /\ age'[r] = age[r]
                          /\ lost'[r] = lost[r] /\ elapsed' = elapsed,
           \A i \in Ids : pending'[i] = r => pending[i] = r /\ OwedStays(i, r)
    PROVE  OnTime(r)'
<1> SUFFICES ASSUME Watched(r)'
             PROVE  /\ left'[r] \in Nat /\ limit'[r] \in Nat /\ left'[r] <= limit'[r]
                    /\ \A i \in Ids : pending'[i] = r => Covered(r, i)' /\ Running(r, i)'
  BY DEF OnTime
<1>1. /\ Watched(r) /\ left'[r] = left[r] /\ limit'[r] = limit[r] /\ age'[r] = age[r]
      /\ lost'[r] = lost[r] /\ elapsed' = elapsed
  OBVIOUS
<1>2. ASSUME NEW i \in Ids, pending'[i] = r PROVE Covered(r, i)' /\ Running(r, i)'
  <2>1. Covered(r, i) /\ Running(r, i) /\ OwedStays(i, r)
    BY <1>1, <1>2 DEF OnTime
  <2>2. \A d \in Nat : Paid(r, d) => Paid(r, d)'
    BY <1>1 DEF Paid, Ticks
  <2>3. \A d \in Nat : Owed(i, d) => Owed(i, d)'
    BY <2>1 DEF OwedStays
  <2>4. Covered(r, i)'
    BY <2>1, <2>2, <2>3 DEF Covered
  <2>5. Running(r, i)'
    BY <1>1, <2>1, <2>3 DEF Running
  <2> QED BY <2>4, <2>5
<1> QED BY <1>1, <1>2 DEF OnTime

\* Steps that take no time and leave the frames of CheckTimeouts and what is
\* left of an open request.
Calm ==
    /\ elapsed' = elapsed /\ age' = age /\ lost' = lost /\ missed' = missed
    /\ \A r \in Reqs : outcome'[r] = "open" => outcome[r] = "open" /\ left'[r] = left[r]
    /\ limit' = limit
    /\ \A i \in Ids, r \in Reqs : pending'[i] = r => pending[i] = r

LEMMA CalmTimely ==
    ASSUME ShapeInv, Calm, Kept, NEW r \in Reqs, OnTime(r)
    PROVE  OnTime(r)'
<1>1. Watched(r)' => /\ Watched(r)
                     /\ left'[r] = left[r] /\ limit'[r] = limit[r] /\ age'[r] = age[r]
                     /\ lost'[r] = lost[r] /\ elapsed' = elapsed
  BY DEF Calm, Watched
<1>2. \A i \in Ids : pending'[i] = r => pending[i] = r /\ OwedStays(i, r)
  BY KeptOwed DEF Calm
<1> QED BY <1>1, <1>2, OnTimeStays

LEMMA SettleCalm ==
    ASSUME ShapeInv, NEW i \in Ids, pending[i] # None, NEW o \in Settled, Settle(pending[i], o),
           UNCHANGED <<pending, left, elapsed, limit, age, lost, missed>>
    PROVE  Calm /\ outcome'[pending[i]] # "open"
<1>1. PICK r \in Reqs : r = pending[i]
  BY DEF ShapeInv, TypeOK
<1>2. \A q \in Reqs : outcome'[q] = IF q = r /\ outcome[r] = "open" THEN o ELSE outcome[q]
  BY <1>1, SettleFacts DEF ShapeInv
<1>3. o # "open"
  BY DEF Settled
<1> QED BY <1>1, <1>2, <1>3 DEF Calm

LEMMA DropCalm ==
    ASSUME ShapeInv, NEW i \in Ids, DropEntry(i), UNCHANGED <<elapsed, limit, age, lost, missed>>
    PROVE  Calm
<1>1. /\ \A j \in Ids : pending'[j] = IF j = i THEN None ELSE pending[j]
      /\ \A r \in Reqs : outcome'[r] = IF pending[i] = r /\ outcome[r] = "open" THEN "broken" ELSE outcome[r]
      /\ \A r \in Reqs : pending[i] # r => left'[r] = left[r]
  BY DropFacts DEF ShapeInv
<1>2. \A j \in Ids, r \in Reqs : pending'[j] = r => pending[j] = r
  BY <1>1, NoneAssumption
<1>3. ASSUME NEW r \in Reqs, outcome'[r] = "open" PROVE outcome[r] = "open" /\ left'[r] = left[r]
  BY <1>1, <1>3
<1> QED BY <1>2, <1>3 DEF Calm

\* All the steps but those of CheckTimeouts, the clock and the sending.
LEMMA CalmSteps ==
    ASSUME ShapeInv,
           \/ SendReturns \/ Receive \/ RejectResp \/ HandleResp \/ CallbackReturns \/ Erase \/ Step
           \/ ClearAllPending \/ Cancel \/ Destroy \/ Break \/ Destroyed \/ UNCHANGED vars
    PROVE  Calm /\ Kept
<1>1. TypeOK
  BY DEF ShapeInv
<1>2. CASE SendReturns \/ CallbackReturns \/ Erase \/ Step \/ Destroyed
  <2>1. stack # << >> /\ stack' = Below /\ Top.pc # "check"
    BY <1>2 DEF SendReturns, CallbackReturns, Erase, Step, Destroyed, At
  <2>2. Kept
    BY <1>1, <2>1, PopKept
  <2>3. CASE Erase
    <3>1. Top \in Frame /\ Top.pc = "erase"
      BY <1>1, <2>1, <2>3, TopFacts DEF Erase, At
    <3>2. PICK i \in Ids : i = Top.id
      BY <3>1, FrameFacts
    <3>3. DropEntry(i) /\ UNCHANGED <<elapsed, limit, age, lost, missed>>
      BY <2>3, <3>2 DEF Erase, history
    <3> QED BY <2>2, <3>3, DropCalm
  <2>4. CASE ~Erase
    BY <1>2, <2>2, <2>4 DEF SendReturns, CallbackReturns, Step, Destroyed, Calm, table, history
  <2> QED BY <2>3, <2>4
<1>3. CASE Receive
  <2>1. PICK ps \in Answers(wire) : stack' = Append(stack, [pc |-> "parts", parts |-> ps])
    BY <1>3 DEF Receive
  <2>2. PICK ms \in SUBSET Msgs : ms = wire
    BY <1>1 DEF TypeOK
  <2>3. ps \in Seq(Parts)
    BY <2>2, AnswersFacts
  <2>4. PICK f \in Frame : f = [pc |-> "parts", parts |-> ps]
    BY <2>3 DEF Frame
  <2>5. Kept
    BY <1>1, <2>1, <2>4, PushKept
  <2> QED BY <1>3, <2>5 DEF Receive, Calm, table, history
<1>4. CASE ClearAllPending
  <2>1. PICK is \in SUBSET Ids : is = Used
    BY DEF Used
  <2>2. PICK f \in Frame : f = [pc |-> "clear", todo |-> is]
    BY DEF Frame
  <2>3. Kept
    BY <1>1, <1>4, <2>1, <2>2, PushKept DEF ClearAllPending
  <2> QED BY <1>4, <2>3 DEF ClearAllPending, Calm, table, history
<1>5. CASE RejectResp
  <2>1. PICK fs : Replaces(stack', stack, fs)
    BY <1>5, RejectRespStack
  <2>2. Kept
    BY <1>5, <2>1, ReplaceKept DEF RejectResp, At
  <2> QED BY <1>5, <2>2 DEF RejectResp, Calm, table, history
<1>6. CASE HandleResp
  <2>1. PICK fs : Replaces(stack', stack, fs)
    BY <1>6, HandleRespStack
  <2>2. Kept
    BY <1>6, <2>1, ReplaceKept DEF HandleResp, At
  <2>3. PICK i \in Ids : i = Head(Top.parts).msg.id
    BY <1>6, PartsOnTop DEF HandleResp
  <2>4. PICK o \in Settled : Settle(pending[i], o)
    BY <1>6, <2>3 DEF HandleResp, Settled
  <2>5. pending[i] # None /\ UNCHANGED <<pending, left, elapsed, limit, age, lost, missed>>
    BY <1>6, <2>3 DEF HandleResp, table
  <2> QED BY <2>2, <2>4, <2>5, SettleCalm
<1>7. CASE Cancel
  <2>1. PICK i \in Top.todo :
        IF pending[i] = None
        THEN stack' = Below \o <<Visited(i)>> /\ UNCHANGED outcome
        ELSE /\ Settle(pending[i], "cancelled")
             /\ stack' = Below \o <<Visited(i), [pc |-> "step", id |-> i, req |-> pending[i]]>>
                         \o Callback(pending[i])
    BY <1>7 DEF Cancel
  <2>2. At("clear") /\ stack # << >> /\ Top.pc # "check" /\ i \in Ids /\ Visited(i) \in Frame
    BY <1>7, LoopOnTop DEF Cancel, At
  <2>3. UNCHANGED <<pending, left, elapsed, limit, age, lost, missed>>
    BY <1>7 DEF Cancel, table, history
  <2>4. CASE pending[i] = None
    <3>1. <<Visited(i)>> \in Seq(Frame)
      BY <2>2
    <3>2. Replaces(stack', stack, <<Visited(i)>>)
      BY <1>1, <2>1, <2>2, <2>4, <3>1, TopFacts
    <3>3. Kept
      BY <2>2, <3>2, ReplaceKept
    <3> QED BY <2>1, <2>3, <2>4, <3>3 DEF Calm
  <2>5. CASE pending[i] # None
    <3>1. PICK r \in Reqs : r = pending[i]
      BY <1>1, <2>2, <2>5 DEF TypeOK
    <3>2. Interrupted("step", i, r)
      BY <2>1, <2>5, <3>1 DEF Interrupted
    <3>3. PICK fs : Replaces(stack', stack, fs)
      BY <1>1, <2>2, <3>2, InterruptedStack
    <3>4. Kept
      BY <2>2, <3>3, ReplaceKept
    <3>5. "cancelled" \in Settled
      BY DEF Settled
    <3> QED BY <2>1, <2>2, <2>3, <2>5, <3>4, <3>5, SettleCalm
  <2> QED BY <2>4, <2>5
<1>8. CASE Destroy
  <2>1. Kept
    BY <1>8 DEF Destroy, Kept
  <2> QED BY <1>8, <2>1 DEF Destroy, Calm, table, history
<1>9. CASE Break
  <2>1. PICK i \in Used : DropEntry(i) /\ stack' = stack \o BrokenCallback(i)
    BY <1>9 DEF Break
  <2>2. i \in Ids /\ pending[i] # None
    BY DEF Used
  <2>3. PICK u \in Frame : BrokenCallback(i) \in {<< >>, <<u>>}
    BY <1>1, <2>2, BrokenFacts
  <2>4. PICK s \in Seq(Frame) : s = stack
    BY <1>1 DEF TypeOK
  <2>5. CASE BrokenCallback(i) = << >>
    <3>1. stack' = stack
      BY <2>1, <2>4, <2>5, ConcatEmptySeq
    <3> QED BY <1>9, <2>1, <2>2, <3>1, DropCalm DEF Break, history, Kept
  <2>6. CASE BrokenCallback(i) = <<u>>
    <3>1. s \o <<u>> = Append(s, u)
      OBVIOUS
    <3>2. Kept
      BY <1>1, <2>1, <2>4, <2>6, <3>1, PushKept
    <3> QED BY <1>9, <2>1, <2>2, <3>2, DropCalm DEF Break, history
  <2> QED BY <2>3, <2>5, <2>6
<1>10. CASE UNCHANGED vars
  BY <1>10 DEF vars, table, history, Calm, Kept
<1> QED BY <1>2, <1>3, <1>4, <1>5, <1>6, <1>7, <1>8, <1>9, <1>10

\* An iteration that is at its end takes nothing more.
LEMMA LoopEndsTimely ==
    ASSUME ShapeInv, LoopEnds, NEW r \in Reqs, OnTime(r)
    PROVE  OnTime(r)'
<1>1. Calm
  BY DEF LoopEnds, Calm, table, history
<1>2. TypeOK /\ stack # << >> /\ Top.todo = {} /\ stack' = Below
  BY DEF LoopEnds, At, ShapeInv
<1>3. Replaces(stack', stack, << >>)
  BY <1>2, TopFacts
<1>4. PICK s, t, e : s = stack /\ t = stack' /\ e = << >> /\ Replaces(t, s, e) /\ Len(e) = 0
  BY <1>3
<1>5. PICK l \in Nat : l = Len(s) /\ l > 0 /\ DOMAIN s = 1 .. l
  BY <1>4 DEF Replaces
<1>6. DOMAIN t = 1 .. l - 1
  BY <1>4, <1>5 DEF Replaces
<1>7. ASSUME NEW i \in Ids, NEW d \in Nat, Owed(i, d) PROVE Owed(i, d)'
  <2>1. PICK n \in 1 .. l : s[n].pc = "check" /\ i \in s[n].todo /\ s[n].diff = d
    BY <1>4, <1>5, <1>7 DEF Owed
  <2>2. n # l
    BY <1>2, <1>4, <1>5, <2>1 DEF Top
  <2>3. n \in 1 .. l - 1
    BY <2>2
  <2>4. n \in DOMAIN t /\ t[n] = s[n]
    BY <1>4, <1>5, <1>6, <2>3 DEF Replaces
  <2> QED BY <1>4, <2>1, <2>4 DEF Owed
<1>8. Watched(r)' => /\ Watched(r)
                     /\ left'[r] = left[r] /\ limit'[r] = limit[r] /\ age'[r] = age[r]
                     /\ lost'[r] = lost[r] /\ elapsed' = elapsed
  BY <1>1 DEF Calm, Watched
<1>9. \A i \in Ids : pending'[i] = r => pending[i] = r /\ OwedStays(i, r)
  BY <1>1, <1>7 DEF Calm, OwedStays
<1> QED BY <1>8, <1>9, OnTimeStays

\* The numbers of a request whose timeout runs.
LEMMA WatchedFacts ==
    ASSUME ShapeInv, NEW r \in Reqs, OnTime(r), Watched(r)
    PROVE  /\ left[r] \in Nat /\ limit[r] \in Nat /\ left[r] <= limit[r]
           /\ age[r] \in Nat /\ lost[r] \in Nat /\ elapsed \in Nat
           /\ Ticks(left[r]) \in Nat /\ Ticks(limit[r]) \in Nat /\ Ticks(left[r]) <= Ticks(limit[r])
<1>1. left[r] \in Nat /\ limit[r] \in Nat /\ left[r] <= limit[r]
  BY DEF OnTime
<1>2. age[r] \in Nat /\ lost[r] \in Nat /\ elapsed \in Nat
  BY DEF ShapeInv, TypeOK
<1>3. PICK a \in Nat, b \in Nat : a = limit[r] /\ b = left[r] /\ b <= a
  BY <1>1
<1>4. Ticks(a) = Ticks(a - b) + Ticks(b) /\ Ticks(a - b) \in Nat /\ Ticks(b) \in Nat
  BY <1>3, TicksLess
<1>5. Ticks(a) \in Nat /\ Ticks(b) <= Ticks(a)
  BY <1>4
<1> QED BY <1>1, <1>2, <1>3, <1>4, <1>5

LEMMA TickTimely ==
    ASSUME ShapeInv, Tick, NEW r \in Reqs, OnTime(r)
    PROVE  OnTime(r)'
<1> SUFFICES ASSUME Watched(r)'
             PROVE  /\ left'[r] \in Nat /\ limit'[r] \in Nat /\ left'[r] <= limit'[r]
                    /\ \A i \in Ids : pending'[i] = r => Covered(r, i)' /\ Running(r, i)'
  BY DEF OnTime
<1>1. /\ Watched(r) /\ left' = left /\ limit' = limit /\ lost' = lost /\ pending' = pending
      /\ stack' = stack /\ elapsed' = elapsed + 1 /\ age'[r] \in {age[r], age[r] + 1}
  BY DEF Tick, Watched, table
<1>2. /\ left[r] \in Nat /\ limit[r] \in Nat /\ left[r] <= limit[r]
      /\ age[r] \in Nat /\ lost[r] \in Nat /\ elapsed \in Nat
      /\ Ticks(left[r]) \in Nat /\ Ticks(limit[r]) \in Nat
  BY <1>1, WatchedFacts
<1>3. \A i, d : Owed(i, d) => Owed(i, d)'
  BY <1>1 DEF Owed
<1>4. ASSUME NEW d \in Nat, Paid(r, d) PROVE Paid(r, d)'
  <2>1. Ticks(limit[r]) + Ticks(d) + lost[r] + elapsed >= age[r] + Ticks(left[r]) /\ Ticks(d) \in Nat
    BY <1>4, TicksFacts DEF Paid
  <2>2. Ticks(limit[r]) + Ticks(d) + lost[r] + (elapsed + 1) >= age'[r] + Ticks(left[r])
    BY <1>1, <1>2, <2>1
  <2> QED BY <1>1, <2>2 DEF Paid, Ticks
<1>5. ASSUME NEW i \in Ids, pending'[i] = r PROVE Covered(r, i)' /\ Running(r, i)'
  <2>1. Covered(r, i) /\ Running(r, i)
    BY <1>1, <1>5 DEF OnTime
  <2>2. Covered(r, i)'
    BY <1>3, <1>4, <2>1 DEF Covered
  <2>3. age[r] <= elapsed => age'[r] <= elapsed'
    BY <1>1, <1>2
  <2>4. Running(r, i)'
    BY <1>1, <1>3, <2>1, <2>3 DEF Running
  <2> QED BY <2>2, <2>4
<1> QED BY <1>1, <1>2, <1>5

\* The time since the last call is what CheckTimeouts takes and what it drops.
LEMMA Division ==
    ASSUME NEW n \in Nat
    PROVE  /\ n \div TicksPerMs \in Nat /\ n % TicksPerMs \in Nat
           /\ n = Ticks(n \div TicksPerMs) + (n % TicksPerMs)
<1>1. PICK m \in Nat \ {0} : m = TicksPerMs
  BY ClockAssumption
<1>2. n \div m \in Nat /\ n % m \in Nat
  OBVIOUS
<1>3. n = m * (n \div m) + (n % m)
  OBVIOUS
<1> QED BY <1>1, <1>2, <1>3 DEF Ticks

LEMMA CheckTimeoutsTimely ==
    ASSUME ShapeInv, AgeInv, CheckTimeouts, NEW r \in Reqs, OnTime(r)
    PROVE  OnTime(r)'
<1> SUFFICES ASSUME Watched(r)'
             PROVE  /\ left'[r] \in Nat /\ limit'[r] \in Nat /\ left'[r] <= limit'[r]
                    /\ \A i \in Ids : pending'[i] = r => Covered(r, i)' /\ Running(r, i)'
  BY DEF OnTime
<1>0. TypeOK
  BY DEF ShapeInv
<1>1. /\ Watched(r) /\ left' = left /\ limit' = limit /\ age' = age /\ pending' = pending
      /\ elapsed' = 0 /\ lost'[r] = Drops(r) /\ outcome[r] = "open"
      /\ (Checking => r \notin {pending[i] : i \in Used})
  BY DEF CheckTimeouts, Watched, table
<1>2. /\ left[r] \in Nat /\ limit[r] \in Nat /\ left[r] <= limit[r]
      /\ age[r] \in Nat /\ lost[r] \in Nat /\ elapsed \in Nat
      /\ Ticks(left[r]) \in Nat /\ Ticks(limit[r]) \in Nat /\ Ticks(left[r]) <= Ticks(limit[r])
  BY <1>1, WatchedFacts
<1>3. PICK d \in Nat, e \in Nat : /\ d = elapsed \div TicksPerMs /\ e = elapsed % TicksPerMs
                                  /\ elapsed = Ticks(d) + e
  <2>1. PICK n \in Nat : n = elapsed
    BY <1>2
  <2>2. n \div TicksPerMs \in Nat /\ n % TicksPerMs \in Nat
    BY Division
  <2>3. n = Ticks(n \div TicksPerMs) + (n % TicksPerMs)
    BY Division
  <2> QED BY <2>1, <2>2, <2>3
<1>4. PICK f \in Frame : /\ f.pc = "check" /\ f.todo = Used /\ f.diff = d
                         /\ stack' = Append(stack, f)
  BY <1>0, <1>3, CheckFrame
<1>5. ASSUME NEW i \in Ids, pending'[i] = r PROVE Covered(r, i)' /\ Running(r, i)'
  <2>1. i \in Used /\ Covered(r, i)
    BY <1>1, <1>5, NoneAssumption DEF OnTime, Used
  <2>2. ~Checking
    BY <1>1, <1>5, <2>1
  <2>3. Paid(r, 0)
    BY <2>1, <2>2 DEF Covered, Owed, Checking
  <2>4. Owed(i, d)'
    BY <1>0, <1>4, <2>1, PushKept DEF Owed
  <2>5. Ticks(limit[r]) + lost[r] + elapsed >= age[r] + Ticks(left[r])
    <3>1. Ticks(limit[r]) + 0 + lost[r] + elapsed >= age[r] + Ticks(left[r])
      BY <2>3, TicksFacts DEF Paid
    <3> QED BY <1>2, <3>1
  <2>6. age[r] <= MaxAge /\ MaxAge \in Nat
    BY ClockAssumption DEF AgeInv
  <2>7. lost'[r] = lost[r] + e \/ lost'[r] = MaxAge + 1
    BY <1>1, <1>3 DEF Drops
  <2>8. Ticks(d) \in Nat
    BY TicksFacts
  <2>9. Ticks(limit[r]) + Ticks(d) + lost'[r] + 0 >= age[r] + Ticks(left[r])
    <3>1. CASE lost'[r] = lost[r] + e
      <4>1. PICK a \in Nat, b \in Nat, c \in Nat, l \in Nat, h \in Nat :
              /\ a = Ticks(limit[r]) /\ b = Ticks(d) /\ c = lost[r] /\ l = age[r] /\ h = Ticks(left[r])
        BY <1>2, <2>8
      <4>2. a + c + (b + e) >= l + h
        BY <1>3, <2>5, <4>1
      <4>3. a + b + (c + e) + 0 >= l + h
        BY <4>2
      <4> QED BY <3>1, <4>1, <4>3
    <3>2. CASE lost'[r] = MaxAge + 1
      BY <1>2, <2>6, <2>8, <3>2
    <3> QED BY <2>7, <3>1, <3>2
  <2>10. Paid(r, d)'
    BY <1>1, <2>9 DEF Paid, Ticks
  <2> QED BY <2>4, <2>10 DEF Covered, Running
<1> QED BY <1>1, <1>2, <1>5

LEMMA DeductTimely ==
    ASSUME ShapeInv, Deduct, NEW r \in Reqs, OnTime(r)
    PROVE  OnTime(r)'
<1>0. TypeOK /\ At("check") /\ stack # << >>
  BY DEF Deduct, At, ShapeInv
<1>1. PICK i \in Top.todo :
              /\ i \in Ids /\ Top.diff \in Nat /\ stack' = Below \o <<Visited(i)>>
              /\ left' = IF pending[i] # None /\ left[pending[i]] # NoTimeout
                         THEN [left EXCEPT ![pending[i]] = @ - Top.diff] ELSE left
              /\ pending[i] # None /\ left[pending[i]] # NoTimeout =>
                    pending[i] \in Reqs /\ left[pending[i]] \in Nat /\ left[pending[i]] > Top.diff
  BY ExpiredFacts
<1>2. PICK d0 \in Nat : d0 = Top.diff
  BY <1>1
<1>3. UNCHANGED <<outcome, limit, age, lost, missed, elapsed, pending>>
  BY DEF Deduct, history
<1>4. PICK fs : Replaces(stack', stack, fs) /\ Len(fs) >= 1 /\ fs[1] = Visited(i)
  <2>1. PICK x \in Frame : x = Visited(i)
    BY <1>0, <1>1, LoopOnTop
  <2>2. <<x>> \in Seq(Frame) /\ Len(<<x>>) >= 1 /\ <<x>>[1] = x
    OBVIOUS
  <2>3. Replaces(stack', stack, <<x>>)
    BY <1>0, <1>1, <2>1, <2>2, TopFacts
  <2> QED BY <2>1, <2>2, <2>3
<1>5. ASSUME NEW j \in Ids, NEW d \in Nat, Owed(j, d) PROVE Owed(j, d)' \/ (j = i /\ d = d0)
  BY <1>0, <1>2, <1>4, <1>5, VisitOwed
<1>6. CASE pending[i] # r
  <2>1. left'[r] = left[r]
    BY <1>0, <1>1, <1>6 DEF TypeOK
  <2>2. \A j \in Ids : pending'[j] = r => pending[j] = r /\ OwedStays(j, r)
    BY <1>3, <1>5, <1>6 DEF OwedStays
  <2>3. Watched(r)' => Watched(r)
    BY <1>3 DEF Watched
  <2> QED BY <1>3, <2>1, <2>2, <2>3, OnTimeStays
<1>7. CASE pending[i] = r
  <2> SUFFICES ASSUME Watched(r)'
               PROVE  /\ left'[r] \in Nat /\ limit'[r] \in Nat /\ left'[r] <= limit'[r]
                      /\ \A j \in Ids : pending'[j] = r => Covered(r, j)' /\ Running(r, j)'
    BY DEF OnTime
  <2>1. Watched(r)
    BY <1>3 DEF Watched
  <2>2. /\ left[r] \in Nat /\ limit[r] \in Nat /\ left[r] <= limit[r]
        /\ age[r] \in Nat /\ lost[r] \in Nat /\ elapsed \in Nat
        /\ Ticks(left[r]) \in Nat /\ Ticks(limit[r]) \in Nat
    BY <2>1, WatchedFacts
  <2>3. left[r] # NoTimeout /\ r # None
    BY <2>2, TimeoutsAssumption, NoneAssumption
  <2>4. left[r] > d0 /\ left'[r] = left[r] - d0
    BY <1>0, <1>1, <1>2, <1>7, <2>3 DEF TypeOK
  <2>5. left'[r] \in Nat /\ left'[r] > 0 /\ left'[r] <= limit[r]
    BY <2>2, <2>4
  <2>6. /\ Ticks(left[r]) = Ticks(left'[r]) + Ticks(d0) /\ Ticks(left'[r]) \in Nat /\ Ticks(d0) \in Nat
    <3>1. PICK a \in Nat : a = left[r] /\ d0 <= a
      BY <2>2, <2>4
    <3> QED BY <2>4, <3>1, TicksLess
  <2>7. ASSUME NEW d \in Nat, Paid(r, d) PROVE Paid(r, d)'
    <3>1. PICK l : l = left'[r]
      OBVIOUS
    <3>2. Ticks(limit[r]) + Ticks(d) + lost[r] + elapsed >= age[r] + Ticks(left[r]) /\ Ticks(d) \in Nat
      BY <2>7, TicksFacts DEF Paid
    <3>3. Ticks(limit[r]) + Ticks(d) + lost[r] + elapsed >= age[r] + Ticks(l)
      BY <2>2, <2>6, <3>1, <3>2
    <3> QED BY <1>3, <3>1, <3>3 DEF Paid, Ticks
  <2>8. ASSUME Paid(r, d0) PROVE Paid(r, 0)'
    <3>1. PICK l : l = left'[r]
      OBVIOUS
    <3>2. Ticks(limit[r]) + Ticks(d0) + lost[r] + elapsed >= age[r] + Ticks(left[r])
      BY <2>8 DEF Paid
    <3>3. Ticks(limit[r]) + 0 + lost[r] + elapsed >= age[r] + Ticks(l)
      BY <2>2, <2>6, <3>1, <3>2
    <3>4. Ticks(limit[r]) + Ticks(0) + lost[r] + elapsed >= age[r] + Ticks(l)
      BY <3>3, TicksFacts
    <3> QED BY <1>3, <3>1, <3>4 DEF Paid, Ticks
  <2>9. ASSUME NEW j \in Ids, pending'[j] = r PROVE Covered(r, j)' /\ Running(r, j)'
    <3>1. Covered(r, j)
      BY <1>3, <2>1, <2>9 DEF OnTime
    <3>2. Covered(r, j)'
      <4>1. CASE Paid(r, 0)
        BY <2>7, <4>1 DEF Covered
      <4>2. ASSUME NEW d \in Nat, Owed(j, d), Paid(r, d) PROVE Covered(r, j)'
        <5>1. CASE Owed(j, d)'
          BY <2>7, <4>2, <5>1 DEF Covered
        <5>2. CASE d = d0
          BY <2>8, <4>2, <5>2 DEF Covered
        <5> QED BY <1>5, <4>2, <5>1, <5>2
      <4> QED BY <3>1, <4>1, <4>2 DEF Covered
    <3>3. Running(r, j)'
      BY <2>5 DEF Running
    <3> QED BY <3>2, <3>3
  <2> QED BY <1>3, <2>2, <2>5, <2>9
<1> QED BY <1>6, <1>7

LEMMA TimeoutHappenedTimely ==
    ASSUME ShapeInv, TimeoutHappened, NEW r \in Reqs, OnTime(r)
    PROVE  OnTime(r)'
<1>0. TypeOK /\ At("check")
  BY DEF TimeoutHappened, ShapeInv
<1>1. PICK i \in Top.todo :
        /\ Expired(i, Top.diff) /\ Settle(pending[i], "timeout")
        /\ stack' = Below \o <<Visited(i), [pc |-> "erase", id |-> i, req |-> pending[i]]>>
                    \o Callback(pending[i])
  BY DEF TimeoutHappened
<1>2. i \in Ids /\ pending[i] # None /\ "timeout" \in Settled
  BY <1>0, <1>1, LoopOnTop DEF Expired, Settled
<1>3. PICK q \in Reqs : q = pending[i]
  BY <1>0, <1>2 DEF TypeOK
<1>4. Interrupted("erase", i, q)
  BY <1>1, <1>3 DEF Interrupted
<1>5. PICK x \in Frame, fs \in Seq(Frame) :
        Replaces(stack', stack, fs) /\ fs[1] = x /\ x = Visited(i) /\ Len(fs) >= 1
  <2>1. PICK x, e, u \in Frame, fs \in Seq(Frame) :
              /\ Replaces(stack', stack, fs) /\ Piled(fs, x, e, u)
              /\ fs[1] = x
              /\ x = Visited(i)
              /\ e.pc = "erase" /\ e.id = i /\ e.req = q
              /\ u.pc = "user"
    BY <1>0, <1>2, <1>4, InterruptedStack
  <2>2. Len(fs) >= 1
    BY <2>1 DEF Piled
  <2> QED BY <2>1, <2>2
<1>6. Calm /\ outcome'[q] # "open"
  <2>1. UNCHANGED <<pending, left, elapsed, limit, age, lost, missed>>
    BY DEF TimeoutHappened, table
  <2> QED BY <1>1, <1>2, <1>3, <2>1, SettleCalm
<1>7. ASSUME NEW j \in Ids, pending'[j] = r PROVE pending[j] = r /\ OwedStays(j, r)
  <2>1. pending[j] = r
    BY <1>6, <1>7 DEF Calm
  <2>2. ASSUME NEW d \in Nat, Owed(j, d) PROVE Owed(j, d)' \/ ~Watched(r)'
    <3>1. Owed(j, d)' \/ j = i
      BY <1>0, <1>5, <2>2, VisitOwed
    <3>2. j = i => outcome'[r] # "open"
      BY <1>3, <1>6, <2>1
    <3> QED BY <3>1, <3>2 DEF Watched
  <2> QED BY <2>1, <2>2 DEF OwedStays
<1>8. Watched(r)' => /\ Watched(r)
                     /\ left'[r] = left[r] /\ limit'[r] = limit[r] /\ age'[r] = age[r]
                     /\ lost'[r] = lost[r] /\ elapsed' = elapsed
  BY <1>6 DEF Calm, Watched
<1> QED BY <1>7, <1>8, OnTimeStays

LEMMA SendTimely ==
    ASSUME ShapeInv, AgeInv, NEW rs, NEW t \in Timeouts, Batch(rs), Send(rs, t), NEW r \in Reqs, OnTime(r)
    PROVE  OnTime(r)'
<1>0. TypeOK /\ Added(rs, t)
  BY SendAdds DEF ShapeInv
<1>1. UNCHANGED <<elapsed, age, lost>>
  BY DEF Send
<1>2. CASE r \in Elems(rs)
  <2>1. outcome[r] = "new" /\ left'[r] = t /\ limit'[r] = t
    BY <1>0, <1>2 DEF Added
  <2>2. age'[r] = 0 /\ lost'[r] \in Nat /\ elapsed' \in Nat
    BY <1>0, <1>1, <2>1 DEF AgeInv, TypeOK
  <2>3. SUFFICES ASSUME Watched(r)'
                 PROVE  /\ left'[r] \in Nat /\ limit'[r] \in Nat /\ left'[r] <= limit'[r]
                        /\ \A i \in Ids : pending'[i] = r => Covered(r, i)' /\ Running(r, i)'
    BY DEF OnTime
  <2>4. t \in Nat
    BY <2>1, <2>3, TimeoutsAssumption DEF Watched
  <2>5. Paid(r, 0)'
    <3>1. Ticks(t) \in Nat /\ Ticks(0) = 0
      BY <2>4, TicksFacts
    <3>2. Ticks(t) + Ticks(0) + lost'[r] + elapsed' >= 0 + Ticks(t)
      BY <2>2, <3>1
    <3> QED BY <2>1, <2>2, <3>2 DEF Paid, Ticks
  <2>6. age'[r] <= elapsed'
    BY <2>2
  <2> QED BY <2>1, <2>4, <2>5, <2>6 DEF Covered, Running
<1>3. CASE r \notin Elems(rs)
  <2>1. PICK g \in Frame, new \in SUBSET Ids, rehash \in BOOLEAN, x \in SUBSET Ids :
              /\ g.pc = "send"
              /\ missed' = IF rehash /\ Checking THEN missed \cup {pending[i] : i \in Used} ELSE missed
              /\ new = NewIds(rs)
              /\ stack' \in Seq(Frame) /\ Len(stack) \in Nat /\ Len(stack') = Len(stack) + 1
              /\ \A n \in 1 .. Len(stack) :
                    stack[n] \in Frame /\ stack'[n] = AfterInsert(stack[n], new, rehash, x)
              /\ stack'[Len(stack) + 1] = g
    BY <1>0, SendStack
  <2>2. left'[r] = left[r] /\ limit'[r] = limit[r] /\ (outcome'[r] = "open" => outcome[r] = "open")
    BY <1>0, <1>3 DEF Added
  <2>3. Watched(r)' => Watched(r)
    BY <2>1, <2>2 DEF Watched
  <2>4. ASSUME NEW i \in Ids, pending'[i] = r PROVE pending[i] = r /\ i \in Used
    <3>1. pending[i] = r
      BY <1>0, <1>3, <2>4 DEF Added, Elems
    <3> QED BY <3>1, NoneAssumption DEF Used
  <2>5. ASSUME NEW i \in Ids, pending'[i] = r, NEW d \in Nat, Owed(i, d)
        PROVE  Owed(i, d)' \/ ~Watched(r)'
    <3>1. Checking
      BY <2>5 DEF Owed, Checking
    <3>2. CASE rehash
      <4>1. r \in missed'
        BY <2>1, <2>4, <2>5, <3>1, <3>2
      <4> QED BY <4>1 DEF Watched
    <3>3. CASE ~rehash
      <4>1. PICK n \in DOMAIN stack : stack[n].pc = "check" /\ i \in stack[n].todo /\ stack[n].diff = d
        BY <2>5 DEF Owed
      <4>2. n \in 1 .. Len(stack) /\ n \in DOMAIN stack'
        BY <1>0, <2>1, <4>1 DEF TypeOK
      <4>3. PICK f \in Frame : f = stack[n] /\ stack'[n] = AfterInsert(f, new, rehash, x)
        BY <2>1, <4>2
      <4>4. Inserted(f, new, rehash, x)
        BY AfterInsertFacts
      <4>5. stack'[n].pc = "check" /\ stack'[n].diff = d /\ i \in stack'[n].todo
        BY <3>3, <4>1, <4>3, <4>4 DEF Inserted
      <4> QED BY <4>2, <4>5 DEF Owed
    <3> QED BY <3>2, <3>3
  <2>6. \A i \in Ids : pending'[i] = r => pending[i] = r /\ OwedStays(i, r)
    BY <2>4, <2>5 DEF OwedStays
  <2> QED BY <1>1, <2>2, <2>3, <2>6, OnTimeStays
<1> QED BY <1>2, <1>3

LEMMA AgeStep ==
    ASSUME ShapeInv, AgeInv, [Next]_vars
    PROVE  AgeInv'
<1>1. \A r \in Reqs : outcome'[r] = "new" => outcome[r] = "new"
  <2>1. CASE Sends
    BY <2>1, SendAdds DEF Sends, Added
  <2>2. CASE Wears
    BY <2>2 DEF Wears, Settled
  <2> QED BY <2>1, <2>2, StepWears
<1>2. CASE Tick
  <2>1. ASSUME NEW r \in Reqs PROVE age'[r] <= MaxAge /\ (outcome'[r] = "new" => age'[r] = 0)
    <3>1. age[r] \in Nat /\ MaxAge \in Nat /\ age[r] <= MaxAge /\ (outcome[r] = "new" => age[r] = 0)
      BY ClockAssumption DEF ShapeInv, TypeOK, AgeInv
    <3>2. age'[r] = IF outcome[r] = "open" /\ age[r] < MaxAge THEN age[r] + 1 ELSE age[r]
      BY <1>2 DEF Tick
    <3> QED BY <1>1, <3>1, <3>2
  <2> QED BY <2>1 DEF AgeInv
<1>3. CASE ~Tick
  <2>1. age' = age
    BY <1>3, NextCases DEF Sends, Send, SendReturns, Receive, RejectResp, HandleResp, CallbackReturns,
                 Erase, Step, Dangling, CheckTimeouts, Deduct, TimeoutHappened, ClearAllPending, Cancel,
                 LoopEnds, Destroy, Break, Destroyed, CallDying, vars, history
  <2> QED BY <1>1, <2>1 DEF AgeInv
<1> QED BY <1>2, <1>3

LEMMA StepTimely == TimelyInv /\ [Next]_vars => TimelyInv'
<1> SUFFICES ASSUME TimelyInv, [Next]_vars PROVE TimelyInv'
  OBVIOUS
<1>1. ShapeInv /\ AgeInv /\ TypeOK
  BY DEF TimelyInv, ShapeInv
<1>2. ShapeInv' /\ AgeInv'
  BY <1>1, StepShape, AgeStep
<1>3. undef => undef'
  BY <1>1, NeverBack
<1>4. ASSUME NEW r \in Reqs, OnTime(r) PROVE undef' \/ OnTime(r)'
  <2>1. CASE Sends
    BY <1>1, <1>4, <2>1, SendTimely DEF Sends
  <2>2. CASE \/ SendReturns \/ Receive \/ RejectResp \/ HandleResp \/ CallbackReturns \/ Erase \/ Step
             \/ ClearAllPending \/ Cancel \/ Destroy \/ Break \/ Destroyed \/ UNCHANGED vars
    BY <1>1, <1>4, <2>2, CalmSteps, CalmTimely
  <2>3. CASE LoopEnds \/ Tick \/ CheckTimeouts \/ Deduct \/ TimeoutHappened
    BY <1>1, <1>4, <2>3, LoopEndsTimely, TickTimely, CheckTimeoutsTimely, DeductTimely, TimeoutHappenedTimely
  <2>4. CASE Dangling \/ CallDying
    BY <2>4 DEF Dangling, CallDying
  <2> QED BY <2>1, <2>2, <2>3, <2>4, NextCases
<1>5. undef' \/ \A r \in Reqs : OnTime(r)'
  BY <1>3, <1>4 DEF TimelyInv
<1> QED BY <1>2, <1>5 DEF TimelyInv

\* CheckTimeouts leaves no request open past its timeout and the parts of
\* milliseconds that were dropped while it was, whatever the ticks are and
\* however often CheckTimeouts is called; unless a callback made the table
\* rehash, or called CheckTimeouts, while an iteration was at work.
THEOREM ClientNotOverdue == Spec => []NoOverdue
<1>1. Init => TimelyInv /\ AccountInv
  <2> SUFFICES ASSUME Init PROVE TimelyInv /\ AccountInv
    OBVIOUS
  <2>1. ShapeInv
    BY InitShape
  <2>2. Accounted /\ HoldsSettled
    BY DEF Init, Accounted, HoldsSettled
  <2>3. AgeInv /\ \A r \in Reqs : OnTime(r)
    BY ClockAssumption DEF Init, AgeInv, OnTime, Watched
  <2> QED BY <2>1, <2>2, <2>3 DEF TimelyInv, AccountInv
<1>2. TimelyInv /\ AccountInv /\ [Next]_vars => (TimelyInv /\ AccountInv)'
  BY StepTimely, StepAccount
<1>3. TimelyInv /\ AccountInv => NoOverdue
  <2> SUFFICES ASSUME TimelyInv, AccountInv, NEW r \in Reqs,
                      stack = << >>, elapsed = 0, ~undef, outcome[r] = "open", limit[r] # NoTimeout,
                      age[r] > 0, r \notin missed
               PROVE  age[r] < limit[r] * TicksPerMs + lost[r]
    BY DEF NoOverdue
  <2>1. ShapeInv /\ OnTime(r) /\ Watched(r)
    BY DEF TimelyInv, Watched
  <2>2. PICK i \in Ids : pending[i] = r
    BY DEF AccountInv, Accounted
  <2>3. Covered(r, i) /\ Running(r, i)
    BY <2>1, <2>2 DEF OnTime
  <2>4. \A d \in Nat : ~Owed(i, d)
    BY DEF Owed
  <2>5. /\ left[r] \in Nat /\ limit[r] \in Nat /\ age[r] \in Nat /\ lost[r] \in Nat
        /\ Ticks(left[r]) \in Nat /\ Ticks(limit[r]) \in Nat
    BY <2>1, WatchedFacts
  <2>6. Paid(r, 0) /\ left[r] > 0
    BY <2>3, <2>4, <2>5 DEF Covered, Running
  <2>7. Ticks(limit[r]) + 0 + lost[r] + 0 >= age[r] + Ticks(left[r])
    BY <2>6, TicksFacts DEF Paid
  <2>8. Ticks(left[r]) > 0
    BY <2>5, <2>6, TicksFacts
  <2>9. limit[r] * TicksPerMs = Ticks(limit[r])
    <3>1. PICK a \in Nat, m \in Nat : a = limit[r] /\ m = TicksPerMs
      BY <2>5, ClockAssumption
    <3>2. a * m = m * a
      OBVIOUS
    <3> QED BY <3>1, <3>2 DEF Ticks
  <2> QED BY <2>5, <2>7, <2>8, <2>9
<1> QED BY <1>1, <1>2, <1>3, PTL DEF Spec
=============================================================================
