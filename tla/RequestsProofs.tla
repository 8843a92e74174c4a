---------------------------- MODULE RequestsProofs ----------------------------
(***************************************************************************)
(* A form is applied once in its key's day: proof that FormIsAppliedOnce   *)
(* holds for any clicks, keys, servers and bounds, and that no call refused*)
(* for want of a step-up is lost.                                          *)
(*                                                                         *)
(* A call is in one place at a time: on its way, being served, or          *)
(* answered.  Whatever is in such a place for a click that still waits for *)
(* it carries the body the click has, because a button is not pressed      *)
(* again under a pending click.  Of the transactions under one key one has *)
(* passed the reservation; before the first row of the key expires, none   *)
(* does once there is a row, and no statement misses the row it saw.       *)
(***************************************************************************)
EXTENDS Requests, SequenceTheorems, TLAPS

(* What a click is, with a step-up still due only for the first try.       *)
ClickState ==
    [st : {"absent", "ready", "failed", "done"}]
      \union [st : {"sent"}, try : 1 .. 2, body : Bodies, observed : Nat]
      \union [st : {"waiting"}, try : {1}, body : Bodies, observed : Nat]

Service == [click : Clicks, try : 1 .. 2, fresh : BOOLEAN, body : Bodies,
            at : {"reserve", "select", "lock", "missing", "delete", "run", "save"},
            row : Nat]
Answer == [click : Clicks, try : 1 .. 2,
           result : {"ok", "error", "STEP_UP_REQUIRED", "IDEMPOTENCY_KEY_REUSED"}]
RowState == [id : Nat \ {0}, body : Bodies, expired : BOOLEAN]

RequestsTypeOK ==
    /\ click \in [Clicks -> ClickState]
    /\ generation \in Nat /\ steppedUp \in BOOLEAN
    /\ wire \subseteq Request /\ answers \subseteq Answer
    /\ serving \in [Servers -> Service \union {NotServing}]
    /\ keyRow \in [Keys -> RowState \union {NoRow}]
    /\ applied \in [Keys -> Seq(Bodies)] /\ expiries \in [Keys -> Nat]

(* The dialog knows every call that waits for it.                          *)
NobodyIsLost == pendingStepUp = {c \in Clicks : click[c].st = "waiting"}

(* A body was applied under a key.                                         *)
Done(k, body) == \E i \in 1 .. Len(applied[k]) : applied[k][i] = body

(* A message is of a click that was pressed and, while somebody waits for  *)
(* the click, says what the click says.                                    *)
Calling(c) == click[c].st \in {"sent", "waiting"}
Fits(m) ==
    /\ click[m.click].st \notin {"absent", "ready"}
    /\ Calling(m.click) => m.body = click[m.click].body /\ m.try <= click[m.click].try

MessagesFit ==
    /\ \A m \in wire : Fits(m)
    /\ \A s \in Servers : Busy(s) => Fits(serving[s])

(* An answer is to the last try of a click that waits for one, and what it *)
(* calls done was done.                                                    *)
AnswersFit == \A a \in answers :
    /\ click[a.click].st = "sent" /\ a.try = click[a.click].try
    /\ a.result = "ok" => Done(KeyOf[a.click], click[a.click].body)

(* A call is in one place.                                                 *)
SameCall(x, y) == x.click = y.click /\ x.try = y.try
OneMessage ==
    /\ \A m, n \in wire : SameCall(m, n) => m = n
    /\ \A s, t \in Servers : Busy(s) /\ Busy(t) /\ SameCall(serving[s], serving[t]) => s = t
    /\ \A a, b \in answers : SameCall(a, b) => a = b
    /\ \A m \in wire, s \in Servers : Busy(s) => ~SameCall(m, serving[s])
    /\ \A a \in answers, m \in wire : ~SameCall(a, m)
    /\ \A a \in answers, s \in Servers : Busy(s) => ~SameCall(a, serving[s])

(* The transaction that has a key reserved.                                *)
Holds(s) == serving[s].at \in {"run", "save"}
OneHolder == \A s, t \in Servers : Holds(s) /\ Holds(t) /\ Key(s) = Key(t) => s = t

(* What a transaction has seen of its key's row.                           *)
ServiceHonest(s) ==
    Busy(s) =>
        /\ serving[s].at \in {"select", "lock"} => keyRow[Key(s)].id # 0
        /\ expiries[Key(s)] = 0 =>
              /\ serving[s].at \notin {"missing", "delete"}
              /\ serving[s].at = "lock" => StillThere(s)
              /\ Holds(s) => keyRow[Key(s)].id = 0
ServicesHonest == \A s \in Servers : ServiceHonest(s)

(* The row of a key accounts for what was applied under it.                *)
KeyHonest(k) ==
    /\ keyRow[k].id = 0 => Len(applied[k]) = 0
    /\ keyRow[k].id # 0 => Done(k, keyRow[k].body)
    /\ expiries[k] = 0 => Len(applied[k]) <= 1 /\ (keyRow[k].id # 0 => ~keyRow[k].expired)
KeysHonest == \A k \in Keys : KeyHonest(k)

(* The inductive invariant, by the side it speaks of.                      *)
CallsInv == NobodyIsLost /\ MessagesFit /\ AnswersFit /\ OneMessage
RowsInv == OneHolder /\ ServicesHonest /\ KeysHonest
RequestsInv == RequestsTypeOK /\ CallsInv /\ RowsInv

-----------------------------------------------------------------------------
(* The fields of a click, a service and a row.                             *)
LEMMA ClickFields ==
    ASSUME RequestsTypeOK, NEW c \in Clicks
    PROVE  /\ click[c] \in ClickState
           /\ click[c].st \in {"absent", "ready", "failed", "done", "sent", "waiting"}
           /\ Calling(c) => /\ click[c].try \in 1 .. 2 /\ click[c].body \in Bodies
                            /\ click[c].observed \in Nat
           /\ click[c].st = "waiting" => click[c].try = 1
BY DEF RequestsTypeOK, ClickState, Calling

LEMMA ServiceFields ==
    ASSUME RequestsTypeOK, NEW s \in Servers
    PROVE  /\ Busy(s) => /\ serving[s] \in Service
                         /\ serving[s].click \in Clicks /\ serving[s].try \in 1 .. 2
                         /\ serving[s].body \in Bodies /\ serving[s].fresh \in BOOLEAN
                         /\ serving[s].at \in {"reserve", "select", "lock", "missing",
                                               "delete", "run", "save"}
                         /\ Key(s) \in Keys
           /\ ~Busy(s) => serving[s] = NotServing
           /\ Holds(s) => Busy(s)
BY DEF RequestsTypeOK, Service, Busy, Holds, NotServing, Key, Keys

LEMMA RowFields ==
    ASSUME RequestsTypeOK, NEW k \in Keys
    PROVE  /\ keyRow[k].id \in Nat /\ (keyRow[k] = NoRow <=> keyRow[k].id = 0)
           /\ keyRow[k].id # 0 =>
                 keyRow[k] \in RowState /\ keyRow[k].body \in Bodies /\ keyRow[k].expired \in BOOLEAN
           /\ expiries[k] \in Nat
           /\ applied[k] \in Seq(Bodies) /\ Len(applied[k]) \in Nat
BY DEF RequestsTypeOK, RowState, NoRow

LEMMA KeyInKeys == \A c \in Clicks : KeyOf[c] \in Keys
BY DEF Keys

LEMMA BodyInBodies == \A c \in Clicks : BodiesOf[c] \subseteq Bodies
BY DEF Bodies

-----------------------------------------------------------------------------
LEMMA InitHolds == RequestsInit => RequestsInv
<1> SUFFICES ASSUME RequestsInit PROVE RequestsInv
    OBVIOUS
<1> USE DEF RequestsInit
<1>1. PICK screen \in Screens :
          click = [c \in Clicks |-> IF c \in screen THEN Ready ELSE [st |-> "absent"]]
    OBVIOUS
<1>2. \A c \in Clicks : click[c] \in [st : {"absent", "ready", "failed", "done"}]
    BY <1>1 DEF Ready
<1>3. <<>> \in Seq(Bodies) /\ Len(<<>>) = 0
    OBVIOUS
<1>4. RequestsTypeOK
  <2>1. click \in [Clicks -> ClickState]
      BY <1>1, <1>2 DEF ClickState
  <2>2. applied \in [Keys -> Seq(Bodies)]
      BY <1>3
  <2>3. serving \in [Servers -> Service \union {NotServing}]
      OBVIOUS
  <2>4. keyRow \in [Keys -> RowState \union {NoRow}]
      OBVIOUS
  <2> QED BY <2>1, <2>2, <2>3, <2>4 DEF RequestsTypeOK
<1>5. NobodyIsLost
    BY <1>2 DEF NobodyIsLost
<1>6. \A s \in Servers : ~Busy(s) /\ ~Holds(s)
    BY DEF Busy, Holds, NotServing
<1>7. MessagesFit /\ AnswersFit /\ OneMessage /\ OneHolder
    BY <1>6 DEF MessagesFit, AnswersFit, OneMessage, OneHolder
<1>8. KeysHonest
    BY <1>3 DEF KeysHonest, KeyHonest, NoRow
<1>9. ServicesHonest
    BY <1>6 DEF ServicesHonest, ServiceHonest
<1> QED BY <1>4, <1>5, <1>7, <1>8, <1>9 DEF RequestsInv, CallsInv, RowsInv

-----------------------------------------------------------------------------
(* Steps of the browser leave the rows alone.                              *)
LEMMA BrowserKeepsRows ==
    ASSUME RowsInv, UNCHANGED serverVars
    PROVE  RowsInv'
<1> USE DEF serverVars
<1>1. OneHolder'
    BY DEF RowsInv, OneHolder, Holds, Key
<1>2. KeysHonest'
    BY DEF RowsInv, KeysHonest, KeyHonest, Done
<1>3. ServicesHonest'
    BY DEF RowsInv, ServicesHonest, ServiceHonest, StillThere, Holds, Key, Busy
<1> QED BY <1>1, <1>2, <1>3 DEF RowsInv

(* A click gets a first or second try, and with it one message.            *)
LEMMA SendKeeps ==
    ASSUME RequestsInv, UNCHANGED serverVars, UNCHANGED <<pendingStepUp, generation>>,
           steppedUp' = steppedUp,
           NEW c \in Clicks, NEW n \in 1 .. 2, NEW body \in Bodies,
           click' = [click EXCEPT ![c] = Sent(c, n, body)],
           wire' = wire \union {RequestOf(c, n, body)},
           answers' \subseteq answers,
           click[c].st # "waiting",
           \A a \in answers' : a.click # c,
           \A m \in wire : m.click = c => m.try < n /\ m.body = body,
           \A s \in Servers : Busy(s) /\ serving[s].click = c =>
               serving[s].try < n /\ serving[s].body = body
    PROVE  RequestsInv'
<1> DEFINE new == RequestOf(c, n, body)
<1>1. new \in Request /\ new.click = c /\ new.try = n /\ new.body = body
    BY DEF RequestOf, Request, RequestsInv, RequestsTypeOK
<1>2. Sent(c, n, body) \in ClickState
    BY DEF Sent, ClickState, RequestsInv, RequestsTypeOK
<1>3. /\ click'[c].st = "sent" /\ click'[c].try = n /\ click'[c].body = body
      /\ \A d \in Clicks \ {c} : click'[d] = click[d]
    BY DEF RequestsInv, RequestsTypeOK, Sent
<1>4. RequestsTypeOK'
    BY <1>1, <1>2 DEF RequestsInv, RequestsTypeOK, serverVars
<1>5. NobodyIsLost'
    BY <1>3 DEF RequestsInv, CallsInv, NobodyIsLost
<1>6. \A m \in wire : m.click \in Clicks /\ m.try \in 1 .. 2
    BY DEF RequestsInv, RequestsTypeOK, Request
<1>7. \A s \in Servers : Busy(s) => serving[s].click \in Clicks /\ serving[s].try \in 1 .. 2
    BY ServiceFields DEF RequestsInv
<1>8. MessagesFit'
  <2>1. ASSUME NEW m \in wire' PROVE Fits(m)'
    <3>1. CASE m = new
        BY <1>1, <1>3, <3>1 DEF Fits, Calling
    <3>2. CASE m \in wire /\ m.click = c
        BY <1>6, <1>3, <3>2 DEF Fits, Calling
    <3>3. CASE m \in wire /\ m.click # c
        BY <1>6, <1>3, <3>3 DEF Fits, Calling, RequestsInv, CallsInv, MessagesFit
    <3> QED BY <3>1, <3>2, <3>3
  <2>2. ASSUME NEW s \in Servers, Busy(s)' PROVE Fits(serving[s])'
    <3>0. Busy(s) /\ serving'[s] = serving[s]
        BY <2>2 DEF serverVars, Busy
    <3>2. CASE serving[s].click = c
        BY <1>7, <1>3, <3>2, <3>0 DEF Fits, Calling
    <3>3. CASE serving[s].click # c
        BY <1>7, <1>3, <3>3, <3>0 DEF Fits, Calling, RequestsInv, CallsInv, MessagesFit
    <3> QED BY <3>2, <3>3
  <2> QED BY <2>1, <2>2 DEF MessagesFit
<1>9. AnswersFit'
    BY <1>3 DEF RequestsInv, CallsInv, AnswersFit, RequestsTypeOK, Answer, Done, serverVars
<1>10. OneMessage'
  <2>1. \A m \in wire : ~SameCall(m, new) /\ ~SameCall(new, m)
      BY <1>1, <1>6 DEF SameCall
  <2>2. \A s \in Servers : Busy(s) => ~SameCall(new, serving[s])
      BY <1>1, <1>7 DEF SameCall
  <2>3. \A a \in answers' : ~SameCall(a, new)
      BY <1>1 DEF SameCall
  <2> HIDE DEF new
  <2>4. OneMessage /\ wire' = wire \union {new} /\ serving' = serving
      BY DEF RequestsInv, CallsInv, serverVars, new
  <2>5. \A s \in Servers : Busy(s)' = Busy(s)
      BY <2>4 DEF Busy
  <2>6. \A m, k \in wire' : SameCall(m, k) => m = k
      BY <2>1, <2>4 DEF OneMessage
  <2>7. \A m \in wire', s \in Servers : Busy(s) => ~SameCall(m, serving[s])
      BY <2>2, <2>4 DEF OneMessage
  <2>8. \A a \in answers', m \in wire' : ~SameCall(a, m)
      BY <2>3, <2>4 DEF OneMessage
  <2> QED BY <2>4, <2>5, <2>6, <2>7, <2>8 DEF OneMessage, SameCall
<1> QED BY <1>4, <1>5, <1>8, <1>9, <1>10, BrowserKeepsRows DEF RequestsInv, CallsInv

(* Clicks end, and with them the answers to them.                          *)
LEMMA SettleKeeps ==
    ASSUME RequestsInv, UNCHANGED serverVars, generation' = generation,
           steppedUp' \in BOOLEAN, wire' = wire,
           NEW C \in SUBSET Clicks,
           click' \in [Clicks -> ClickState],
           \A c \in C : click'[c].st \in {"done", "failed"},
           \A c \in Clicks \ C : click'[c] = click[c],
           answers' \subseteq answers,
           \A a \in answers' : a.click \notin C,
           \A c \in C : click[c].st \in {"sent", "waiting"},
           pendingStepUp' = pendingStepUp \ C
    PROVE  RequestsInv'
<1>1. RequestsTypeOK'
    BY DEF RequestsInv, RequestsTypeOK, serverVars
<1>2. NobodyIsLost'
    BY DEF RequestsInv, CallsInv, NobodyIsLost
<1>3. \A m \in wire : m.click \in Clicks
    BY DEF RequestsInv, RequestsTypeOK, Request
<1>4. \A s \in Servers : Busy(s) => serving[s].click \in Clicks
    BY ServiceFields DEF RequestsInv
<1>5. \A a \in answers : a.click \in Clicks
    BY DEF RequestsInv, RequestsTypeOK, Answer
<1>6. MessagesFit'
    BY <1>3, <1>4 DEF RequestsInv, CallsInv, MessagesFit, Fits, Calling, Busy, serverVars
<1>7. AnswersFit'
    BY <1>5 DEF RequestsInv, CallsInv, AnswersFit, Done, serverVars
<1>8. OneMessage'
    BY DEF RequestsInv, CallsInv, OneMessage, SameCall, Busy, serverVars
<1> QED BY <1>1, <1>2, <1>6, <1>7, <1>8, BrowserKeepsRows DEF RequestsInv, CallsInv

-----------------------------------------------------------------------------
(* The steps of the browser.                                               *)
LEMMA PressKeeps ==
    ASSUME RequestsInv, NEW c \in Clicks, Press(c)
    PROVE  RequestsInv'
<1>1. PICK body \in BodiesOf[c] :
          /\ click' = [click EXCEPT ![c] = Sent(c, 1, body)]
          /\ wire' = wire \union {RequestOf(c, 1, body)}
    BY DEF Press
<1>2. body \in Bodies
    BY <1>1, BodyInBodies
<1>3. click[c].st = "ready"
    BY DEF Press, Ready
<1>4. \A m \in wire : m.click # c
    BY <1>3 DEF RequestsInv, CallsInv, MessagesFit, Fits
<1>5. \A s \in Servers : Busy(s) => serving[s].click # c
    BY <1>3 DEF RequestsInv, CallsInv, MessagesFit, Fits
<1>6. \A a \in answers : a.click # c
    BY <1>3 DEF RequestsInv, CallsInv, AnswersFit
<1>7. answers' = answers /\ 1 \in 1 .. 2
    BY DEF Press
<1>8. UNCHANGED serverVars /\ UNCHANGED <<pendingStepUp, generation>> /\ steppedUp' = steppedUp
    BY DEF Press
<1>9. /\ answers' \subseteq answers /\ click[c].st # "waiting"
      /\ \A a \in answers' : a.click # c
      /\ \A m \in wire : m.click = c => m.try < 1 /\ m.body = body
      /\ \A s \in Servers : Busy(s) /\ serving[s].click = c =>
             serving[s].try < 1 /\ serving[s].body = body
    BY <1>3, <1>4, <1>5, <1>6, <1>7
<1> QED BY <1>1, <1>2, <1>7, <1>8, <1>9, SendKeeps

LEMMA AnswerFields ==
    ASSUME RequestsInv, NEW c \in Clicks, NEW a \in AnswerOf(c)
    PROVE  /\ a \in answers /\ a.click = c /\ a.try = click[c].try /\ click[c].st = "sent"
           /\ \A b \in answers \ {a} : b.click # c
           /\ \A m \in wire : m.click = c => m.try < click[c].try /\ m.body = click[c].body
           /\ \A s \in Servers : Busy(s) /\ serving[s].click = c =>
                 serving[s].try < click[c].try /\ serving[s].body = click[c].body
<1>1. a \in answers /\ a.click = c /\ a.try = click[c].try /\ click[c].st = "sent"
    BY DEF AnswerOf
<1>2. \A b \in answers \ {a} : b.click # c
    BY <1>1 DEF RequestsInv, CallsInv, AnswersFit, OneMessage, SameCall
<1>3. click[c].try \in 1 .. 2
    BY <1>1, ClickFields DEF RequestsInv, Calling
<1>4. \A m \in wire : m.click = c => m.try \in 1 .. 2 /\ m.try # click[c].try
    BY <1>1 DEF RequestsInv, RequestsTypeOK, Request, CallsInv, OneMessage, SameCall
<1>5. \A s \in Servers : Busy(s) /\ serving[s].click = c =>
          serving[s].try \in 1 .. 2 /\ serving[s].try # click[c].try
    BY <1>1, ServiceFields DEF RequestsInv, CallsInv, OneMessage, SameCall
<1>6. \A m \in wire : m.click = c => m.try < click[c].try /\ m.body = click[c].body
    BY <1>1, <1>3, <1>4 DEF RequestsInv, CallsInv, MessagesFit, Fits, Calling
<1>7. \A s \in Servers : Busy(s) /\ serving[s].click = c =>
          serving[s].try < click[c].try /\ serving[s].body = click[c].body
    BY <1>1, <1>3, <1>5 DEF RequestsInv, CallsInv, MessagesFit, Fits, Calling
<1> QED BY <1>1, <1>2, <1>6, <1>7

LEMMA SettledType ==
    ASSUME RequestsInv, NEW C \in SUBSET Clicks, NEW st \in {"done", "failed"},
           click' = [c \in Clicks |-> IF c \in C THEN [st |-> st] ELSE click[c]]
    PROVE  /\ click' \in [Clicks -> ClickState]
           /\ \A c \in C : click'[c].st = st
           /\ \A c \in Clicks \ C : click'[c] = click[c]
BY DEF RequestsInv, RequestsTypeOK, ClickState

LEMMA SettleOne ==
    ASSUME RequestsInv, NEW c \in Clicks, NEW st \in {"done", "failed"}, Settle(c, st)
    PROVE  /\ click' \in [Clicks -> ClickState]
           /\ click'[c].st = st
           /\ \A d \in Clicks \ {c} : click'[d] = click[d]
BY DEF RequestsInv, RequestsTypeOK, ClickState, Settle

LEMMA FinishKeeps ==
    ASSUME RequestsInv, NEW c \in Clicks, Finish(c)
    PROVE  RequestsInv'
<1>1. PICK a \in AnswerOf(c) :
          /\ Settle(c, IF a.result = "ok" THEN "done" ELSE "failed")
          /\ answers' = answers \ {a}
          /\ UNCHANGED <<generation, pendingStepUp, passwordSent, steppedUp, mounted, wire,
                         serverVars>>
    BY DEF Finish
<1>2. PICK st \in {"done", "failed"} : Settle(c, st)
    BY <1>1
<1>3. click[c].st = "sent" /\ \A b \in answers' : b.click # c
    BY <1>1, AnswerFields
<1>4. c \notin pendingStepUp
    BY <1>3 DEF RequestsInv, CallsInv, NobodyIsLost
<1>5. steppedUp' \in BOOLEAN /\ pendingStepUp' = pendingStepUp \ {c}
    BY <1>1, <1>4 DEF RequestsInv, RequestsTypeOK
<1>6. {c} \in SUBSET Clicks /\ (\A d \in {c} : click'[d].st \in {"done", "failed"})
      /\ \A d \in {c} : click[d].st \in {"sent", "waiting"}
    BY <1>2, <1>3, SettleOne
<1>7. \A b \in answers' : b.click \notin {c}
    BY <1>3
<1> QED BY <1>1, <1>2, <1>5, <1>6, <1>7, SettleOne, SettleKeeps

LEMMA LoseConnectionKeeps ==
    ASSUME RequestsInv, NEW c \in Clicks, LoseConnection(c)
    PROVE  RequestsInv'
<1>2. Settle(c, "failed") /\ click[c].st = "sent"
    BY DEF LoseConnection
<1>4. c \notin pendingStepUp
    BY <1>2 DEF RequestsInv, CallsInv, NobodyIsLost
<1>5. steppedUp' \in BOOLEAN /\ pendingStepUp' = pendingStepUp \ {c}
      /\ generation' = generation /\ wire' = wire /\ UNCHANGED serverVars
    BY <1>4 DEF LoseConnection, RequestsInv, RequestsTypeOK
<1>6. {c} \in SUBSET Clicks /\ (\A d \in {c} : click'[d].st \in {"done", "failed"})
      /\ \A d \in {c} : click[d].st \in {"sent", "waiting"}
    BY <1>2, SettleOne
<1>7. answers' \subseteq answers /\ \A b \in answers' : b.click \notin {c}
    BY DEF LoseConnection
<1> QED BY <1>2, <1>5, <1>6, <1>7, SettleOne, SettleKeeps

(* A click waits with the others, or fails when the page has gone.         *)
LEMMA AskStepUpKeeps ==
    ASSUME RequestsInv, NEW c \in Clicks, AskStepUp(c)
    PROVE  RequestsInv'
<1>1. PICK a \in AnswerOf(c) :
          /\ click[c].try = 1
          /\ IF mounted
             THEN /\ click' = [click EXCEPT ![c].st = "waiting"]
                  /\ Join(c)
             ELSE /\ Settle(c, "failed")
                  /\ UNCHANGED pendingStepUp
          /\ answers' = answers \ {a}
          /\ UNCHANGED <<generation, passwordSent, steppedUp, mounted, wire, serverVars>>
    BY DEF AskStepUp
<1>2. click[c].st = "sent" /\ \A b \in answers' : b.click # c
    BY <1>1, AnswerFields
<1>3. c \notin pendingStepUp
    BY <1>2 DEF RequestsInv, CallsInv, NobodyIsLost
<1>4. CASE ~mounted
  <2>1. Settle(c, "failed")
      BY <1>1, <1>4
  <2>2. steppedUp' \in BOOLEAN /\ pendingStepUp' = pendingStepUp \ {c}
      BY <1>1, <1>3, <1>4 DEF RequestsInv, RequestsTypeOK
  <2>3. {c} \in SUBSET Clicks /\ (\A d \in {c} : click'[d].st \in {"done", "failed"})
        /\ \A d \in {c} : click[d].st \in {"sent", "waiting"}
      BY <1>2, <2>1, SettleOne
  <2>4. \A b \in answers' : b.click \notin {c}
      BY <1>2
  <2> QED BY <1>1, <2>1, <2>2, <2>3, <2>4, SettleOne, SettleKeeps
<1>5. CASE mounted
  <2>1. click' = [click EXCEPT ![c].st = "waiting"] /\ pendingStepUp' = pendingStepUp \union {c}
      BY <1>1, <1>5 DEF Join
  <2>2. click[c] \in [st : {"sent"}, try : 1 .. 2, body : Bodies, observed : Nat]
      BY <1>2 DEF RequestsInv, RequestsTypeOK, ClickState
  <2>3. /\ click'[c] \in ClickState /\ click'[c].st = "waiting"
        /\ click'[c].body = click[c].body /\ click'[c].try = click[c].try
        /\ \A d \in Clicks \ {c} : click'[d] = click[d]
      BY <1>1, <2>1, <2>2 DEF RequestsInv, RequestsTypeOK, ClickState
  <2>4. click' \in [Clicks -> ClickState]
      BY <2>1, <2>3 DEF RequestsInv, RequestsTypeOK
  <2>5. RequestsTypeOK'
      BY <1>1, <2>4 DEF RequestsInv, RequestsTypeOK, serverVars
  <2>6. NobodyIsLost'
      BY <2>1, <2>3 DEF RequestsInv, CallsInv, NobodyIsLost
  <2>7. \A m \in wire : m.click \in Clicks
      BY DEF RequestsInv, RequestsTypeOK, Request
  <2>8. \A s \in Servers : Busy(s) => serving[s].click \in Clicks
      BY ServiceFields DEF RequestsInv
  <2>9. \A b \in answers : b.click \in Clicks
      BY DEF RequestsInv, RequestsTypeOK, Answer
  <2>10. MessagesFit'
    <3>1. ASSUME NEW m \in wire PROVE Fits(m)'
        BY <1>2, <2>3, <2>7 DEF RequestsInv, CallsInv, MessagesFit, Fits, Calling
    <3>2. ASSUME NEW s \in Servers, Busy(s)' PROVE Fits(serving[s])'
        BY <1>1, <1>2, <2>3, <2>8, <3>2
           DEF RequestsInv, CallsInv, MessagesFit, Fits, Calling, Busy, serverVars
    <3> QED BY <1>1, <3>1, <3>2 DEF MessagesFit
  <2>11. AnswersFit'
      BY <1>1, <1>2, <2>3, <2>9 DEF RequestsInv, CallsInv, AnswersFit, Done, serverVars
  <2>12. OneMessage'
      BY <1>1 DEF RequestsInv, CallsInv, OneMessage, SameCall, Busy, serverVars
  <2> QED BY <1>1, <2>5, <2>6, <2>10, <2>11, <2>12, BrowserKeepsRows DEF RequestsInv, CallsInv
<1> QED BY <1>4, <1>5

LEMMA RetryAtOnceKeeps ==
    ASSUME RequestsInv, NEW c \in Clicks, RetryAtOnce(c)
    PROVE  RequestsInv'
<1>1. PICK a \in AnswerOf(c) :
          /\ click[c].try = 1
          /\ click' = [click EXCEPT ![c] = Sent(c, 2, @.body)]
          /\ wire' = wire \union {RequestOf(c, 2, click[c].body)}
          /\ answers' = answers \ {a}
          /\ UNCHANGED <<generation, pendingStepUp, passwordSent, steppedUp, mounted,
                         serverVars>>
    BY DEF RetryAtOnce
<1>2. PICK body \in Bodies : body = click[c].body
    BY <1>1, AnswerFields, ClickFields DEF RequestsInv, Calling
<1>3. click[c].st = "sent" /\ (\A b \in answers' : b.click # c) /\ answers' \subseteq answers
    BY <1>1, AnswerFields
<1>4. click' = [click EXCEPT ![c] = Sent(c, 2, body)] /\ wire' = wire \union {RequestOf(c, 2, body)}
    BY <1>1, <1>2 DEF RequestsInv, RequestsTypeOK
<1>5. \A m \in wire : m.click = c => m.try < 1 /\ m.body = body
    BY <1>1, <1>2, AnswerFields
<1>6. \A s \in Servers : Busy(s) /\ serving[s].click = c =>
          serving[s].try < 1 /\ serving[s].body = body
    BY <1>1, <1>2, AnswerFields
<1>7. \A m \in wire : m.try \in 1 .. 2
    BY DEF RequestsInv, RequestsTypeOK, Request
<1>8. \A s \in Servers : Busy(s) => serving[s].try \in 1 .. 2
    BY ServiceFields DEF RequestsInv
<1>9. \A m \in wire : m.click = c => m.try < 2 /\ m.body = body
    BY <1>5, <1>7
<1>10. \A s \in Servers : Busy(s) /\ serving[s].click = c =>
          serving[s].try < 2 /\ serving[s].body = body
    BY <1>6, <1>8
<1>11. UNCHANGED serverVars /\ UNCHANGED <<pendingStepUp, generation>> /\ steppedUp' = steppedUp
    BY <1>1
<1>12. 2 \in 1 .. 2 /\ click[c].st # "waiting"
    BY <1>3
<1> QED BY <1>3, <1>4, <1>9, <1>10, <1>11, <1>12, SendKeeps

(* Every call that waits goes out again: none of these has a message.      *)
LEMMA PasswordAcceptedKeeps ==
    ASSUME RequestsInv, PasswordAccepted
    PROVE  RequestsInv'
<1> DEFINE Again(c) == [click |-> c, try |-> 2, fresh |-> TRUE, body |-> click[c].body]
<1>1. /\ steppedUp' = TRUE /\ generation' \in Nat
      /\ click' = [c \in Clicks |->
            IF c \in pendingStepUp
            THEN [st |-> "sent", try |-> 2, body |-> click[c].body,
                  observed |-> generation'] ELSE click[c]]
      /\ wire' = wire \union {Again(c) : c \in pendingStepUp}
      /\ pendingStepUp' = {} /\ answers' = answers /\ UNCHANGED serverVars
    BY DEF PasswordAccepted, RequestsInv, RequestsTypeOK
<1>2. \A c \in pendingStepUp :
          /\ c \in Clicks /\ click[c].st = "waiting" /\ click[c].try = 1 /\ click[c].body \in Bodies
          /\ click'[c].st = "sent" /\ click'[c].try = 2 /\ click'[c].body = click[c].body
          /\ click'[c] \in ClickState
  <2> SUFFICES ASSUME NEW c \in pendingStepUp
               PROVE  /\ c \in Clicks /\ click[c].st = "waiting" /\ click[c].try = 1
                      /\ click[c].body \in Bodies
                      /\ click'[c].st = "sent" /\ click'[c].try = 2
                      /\ click'[c].body = click[c].body /\ click'[c] \in ClickState
      OBVIOUS
  <2>1. c \in Clicks /\ click[c].st = "waiting"
      BY DEF RequestsInv, CallsInv, NobodyIsLost
  <2>2. click[c].try = 1 /\ click[c].body \in Bodies
      BY <2>1, ClickFields DEF RequestsInv, Calling
  <2>3. click'[c] = [st |-> "sent", try |-> 2, body |-> click[c].body, observed |-> generation']
      BY <1>1, <2>1
  <2> QED BY <1>1, <2>1, <2>2, <2>3 DEF ClickState
<1>3. \A c \in Clicks \ pendingStepUp : click'[c] = click[c] /\ click[c].st # "waiting"
    BY <1>1 DEF RequestsInv, CallsInv, NobodyIsLost
<1>4. \A c \in pendingStepUp :
          /\ Again(c) \in Request /\ Again(c).click = c /\ Again(c).try = 2
          /\ Again(c).body = click[c].body
    BY <1>2 DEF Request
<1>5. RequestsTypeOK'
  <2>1. click' \in [Clicks -> ClickState]
      BY <1>1, <1>2, <1>3 DEF RequestsInv, RequestsTypeOK
  <2>2. wire' \subseteq Request
      BY <1>1, <1>4 DEF RequestsInv, RequestsTypeOK
  <2> QED BY <1>1, <2>1, <2>2 DEF RequestsInv, RequestsTypeOK, serverVars
<1>6. NobodyIsLost'
    BY <1>1, <1>2, <1>3 DEF NobodyIsLost
<1>7. \A m \in wire : m.click \in Clicks /\ (m.click \in pendingStepUp =>
          m.try = 1 /\ m.body = click[m.click].body)
  <2> SUFFICES ASSUME NEW m \in wire
               PROVE  m.click \in Clicks /\ (m.click \in pendingStepUp =>
                          m.try = 1 /\ m.body = click[m.click].body)
      OBVIOUS
  <2>1. m.click \in Clicks /\ m.try \in 1 .. 2
      BY DEF RequestsInv, RequestsTypeOK, Request
  <2> QED BY <1>2, <2>1 DEF RequestsInv, CallsInv, MessagesFit, Fits, Calling
<1>8. \A s \in Servers : Busy(s) => serving[s].click \in Clicks /\
          (serving[s].click \in pendingStepUp =>
              serving[s].try = 1 /\ serving[s].body = click[serving[s].click].body)
  <2> SUFFICES ASSUME NEW s \in Servers, Busy(s)
               PROVE  serving[s].click \in Clicks /\
                      (serving[s].click \in pendingStepUp =>
                          serving[s].try = 1 /\ serving[s].body = click[serving[s].click].body)
      OBVIOUS
  <2>1. serving[s].click \in Clicks /\ serving[s].try \in 1 .. 2
      BY ServiceFields DEF RequestsInv
  <2> QED BY <1>2, <2>1 DEF RequestsInv, CallsInv, MessagesFit, Fits, Calling
<1>9. \A a \in answers : a.click \in Clicks \ pendingStepUp
    BY <1>2 DEF RequestsInv, RequestsTypeOK, Answer, CallsInv, AnswersFit
<1>10. MessagesFit'
  <2>1. ASSUME NEW m \in wire PROVE Fits(m)'
    <3>1. CASE m.click \in pendingStepUp
        BY <1>2, <1>7, <3>1 DEF Fits, Calling
    <3>2. CASE m.click \notin pendingStepUp
        BY <1>3, <1>7, <3>2 DEF RequestsInv, CallsInv, MessagesFit, Fits, Calling
    <3> QED BY <3>1, <3>2
  <2>2. ASSUME NEW m \in {Again(c) : c \in pendingStepUp} PROVE Fits(m)'
    <3>1. PICK c \in pendingStepUp : m = Again(c)
        OBVIOUS
    <3>2. m.click = c /\ m.try = 2 /\ m.body = click[c].body
        BY <1>4, <3>1
    <3> QED BY <1>2, <3>2 DEF Fits, Calling
  <2>3. ASSUME NEW s \in Servers, Busy(s)' PROVE Fits(serving[s])'
    <3>0. Busy(s) /\ serving'[s] = serving[s]
        BY <1>1, <2>3 DEF Busy, serverVars
    <3>1. CASE serving[s].click \in pendingStepUp
        BY <1>2, <1>8, <3>0, <3>1 DEF Fits, Calling
    <3>2. CASE serving[s].click \notin pendingStepUp
        BY <1>3, <1>8, <3>0, <3>2 DEF RequestsInv, CallsInv, MessagesFit, Fits, Calling
    <3> QED BY <3>1, <3>2
  <2> QED BY <1>1, <2>1, <2>2, <2>3 DEF MessagesFit
<1>11. AnswersFit'
    BY <1>1, <1>3, <1>9 DEF RequestsInv, CallsInv, AnswersFit, Done, serverVars
<1>12. OneMessage'
  <2> DEFINE new == {Again(c) : c \in pendingStepUp}
  <2>1. \A m \in new : m.try = 2 /\ m.click \in pendingStepUp
      BY <1>4
  <2>2. \A m, n \in new : SameCall(m, n) => m = n
      BY <1>4 DEF SameCall
  <2>3. \A m \in wire, n \in new : ~SameCall(m, n) /\ ~SameCall(n, m)
      BY <1>7, <2>1 DEF SameCall
  <2>4. \A n \in new, s \in Servers : Busy(s) => ~SameCall(n, serving[s])
      BY <1>8, <2>1 DEF SameCall
  <2>5. \A a \in answers, n \in new : ~SameCall(a, n)
      BY <1>9, <2>1 DEF SameCall
  <2> HIDE DEF new
  <2>6. OneMessage /\ wire' = wire \union new /\ serving' = serving /\ answers' = answers
      BY <1>1 DEF RequestsInv, CallsInv, serverVars, new
  <2>7. \A s \in Servers : Busy(s)' = Busy(s)
      BY <2>6 DEF Busy
  <2>8. \A m, n \in wire' : SameCall(m, n) => m = n
      BY <2>2, <2>3, <2>6 DEF OneMessage
  <2>9. \A m \in wire', s \in Servers : Busy(s) => ~SameCall(m, serving[s])
      BY <2>4, <2>6 DEF OneMessage
  <2>10. \A a \in answers, m \in wire' : ~SameCall(a, m)
      BY <2>5, <2>6 DEF OneMessage
  <2> QED BY <2>6, <2>7, <2>8, <2>9, <2>10 DEF OneMessage, SameCall
<1> QED BY <1>1, <1>5, <1>6, <1>10, <1>11, <1>12, BrowserKeepsRows DEF RequestsInv, CallsInv

(* The dialog gives up, or its page goes: all that wait fail together.     *)
LEMMA FailWaitingKeeps ==
    ASSUME RequestsInv, FailWaiting, pendingStepUp' = {}, generation' = generation,
           steppedUp' = steppedUp, wire' = wire, answers' = answers, UNCHANGED serverVars
    PROVE  RequestsInv'
<1>1. pendingStepUp \in SUBSET Clicks /\ \A c \in pendingStepUp : click[c].st = "waiting"
    BY DEF RequestsInv, CallsInv, NobodyIsLost
<1>2. click' = [c \in Clicks |-> IF c \in pendingStepUp THEN [st |-> "failed"] ELSE click[c]]
    BY DEF FailWaiting
<1>3. /\ click' \in [Clicks -> ClickState]
      /\ \A c \in pendingStepUp : click'[c].st \in {"done", "failed"}
      /\ \A c \in Clicks \ pendingStepUp : click'[c] = click[c]
    BY <1>1, <1>2, SettledType
<1>4. \A a \in answers' : a.click \notin pendingStepUp
    BY <1>1 DEF RequestsInv, CallsInv, AnswersFit
<1>5. /\ pendingStepUp' = pendingStepUp \ pendingStepUp /\ answers' \subseteq answers
      /\ steppedUp' \in BOOLEAN
      /\ \A c \in pendingStepUp : click[c].st \in {"sent", "waiting"}
    BY <1>1 DEF RequestsInv, RequestsTypeOK
<1> QED BY <1>1, <1>3, <1>4, <1>5, SettleKeeps

LEMMA BrowserKeeps ==
    ASSUME RequestsInv, BrowserNext
    PROVE  RequestsInv'
<1>1. ASSUME NEW c \in Clicks,
             Press(c) \/ Finish(c) \/ AskStepUp(c) \/ RetryAtOnce(c) \/ LoseConnection(c)
      PROVE  RequestsInv'
    BY <1>1, PressKeeps, FinishKeeps, AskStepUpKeeps, RetryAtOnceKeeps, LoseConnectionKeeps
<1>2. CASE SubmitPassword \/ PasswordRefused \/ StepUpExpires
  <2>1. /\ UNCHANGED <<click, generation, pendingStepUp, wire, answers, serverVars>>
        /\ steppedUp' \in BOOLEAN
      BY <1>2 DEF SubmitPassword, PasswordRefused, StepUpExpires, RequestsInv, RequestsTypeOK
  <2>2. RequestsTypeOK' /\ NobodyIsLost'
      BY <2>1 DEF RequestsInv, CallsInv, RequestsTypeOK, NobodyIsLost, serverVars
  <2>3. MessagesFit'
      BY <2>1 DEF RequestsInv, CallsInv, MessagesFit, Fits, Calling, Busy, serverVars
  <2>4. AnswersFit'
      BY <2>1 DEF RequestsInv, CallsInv, AnswersFit, Done, serverVars
  <2>5. OneMessage'
      BY <2>1 DEF RequestsInv, CallsInv, OneMessage, SameCall, Busy, serverVars
  <2> QED BY <2>1, <2>2, <2>3, <2>4, <2>5, BrowserKeepsRows DEF RequestsInv, CallsInv
<1>3. CASE RejectStepUp
    BY <1>3, FailWaitingKeeps DEF RejectStepUp
<1>4. CASE Unmount
    BY <1>4, FailWaitingKeeps DEF Unmount
<1>5. CASE PasswordAccepted
    BY <1>5, PasswordAcceptedKeeps
<1> QED BY <1>1, <1>2, <1>3, <1>4, <1>5 DEF BrowserNext

-----------------------------------------------------------------------------
(* The steps of the server.                                                *)

(* One service goes on, the rows stay.                                     *)
LEMMA ServiceKeepsRows ==
    ASSUME RequestsInv, NEW s \in Servers,
           UNCHANGED <<keyRow, applied, expiries>>,
           \A t \in Servers \ {s} : serving'[t] = serving[t],
           ServiceHonest(s)',
           Holds(s)' => \A t \in Servers \ {s} : Holds(t) => Key(t) # Key(s)'
    PROVE  RowsInv'
<1>1. \A t \in Servers \ {s} :
          Holds(t)' = Holds(t) /\ Key(t)' = Key(t) /\ ServiceHonest(t)' = ServiceHonest(t)
    BY DEF Holds, Key, ServiceHonest, StillThere, Busy
<1>2. OneHolder'
    BY <1>1 DEF RequestsInv, RowsInv, OneHolder
<1>3. KeysHonest'
    BY DEF RequestsInv, RowsInv, KeysHonest, KeyHonest, Done
<1>4. ServicesHonest'
    BY <1>1 DEF RequestsInv, RowsInv, ServicesHonest
<1> QED BY <1>2, <1>3, <1>4 DEF RowsInv

LEMMA ReceiveKeeps ==
    ASSUME RequestsInv, NEW s \in Servers, Receive(s)
    PROVE  RequestsInv'
<1>1. PICK m \in wire :
          /\ wire' = wire \ {m}
          /\ serving' = [serving EXCEPT ![s] = [click |-> m.click, try |-> m.try,
                             fresh |-> m.fresh, body |-> m.body,
                             at |-> "reserve", row |-> 0]]
    BY DEF Receive
<1>2. /\ UNCHANGED <<click, generation, pendingStepUp, steppedUp, answers, keyRow, applied, expiries>>
      /\ ~Busy(s)
    BY DEF Receive, browserVars
<1>3. m \in Request
    BY <1>1 DEF RequestsInv, RequestsTypeOK
<1>4. /\ serving'[s] = [click |-> m.click, try |-> m.try, fresh |-> m.fresh, body |-> m.body,
                        at |-> "reserve", row |-> 0]
      /\ \A t \in Servers \ {s} : serving'[t] = serving[t]
    BY <1>1 DEF RequestsInv, RequestsTypeOK
<1>5. serving'[s] \in Service
    BY <1>3, <1>4 DEF Request, Service
<1>6. RequestsTypeOK'
    BY <1>1, <1>2, <1>5 DEF RequestsInv, RequestsTypeOK
<1>7. NobodyIsLost'
    BY <1>2 DEF RequestsInv, CallsInv, NobodyIsLost
<1>8. /\ serving'[s].click = m.click /\ serving'[s].try = m.try /\ serving'[s].body = m.body
      /\ serving'[s].at = "reserve"
    BY <1>4
<1>9. MessagesFit'
  <2>1. Fits(m)
      BY <1>1 DEF RequestsInv, CallsInv, MessagesFit
  <2>2. \A n \in wire' : Fits(n)'
      BY <1>1, <1>2 DEF RequestsInv, CallsInv, MessagesFit, Fits, Calling
  <2>3. Fits(serving[s])'
      BY <1>2, <1>8, <2>1 DEF Fits, Calling
  <2>4. \A t \in Servers \ {s} : Busy(t)' => Fits(serving[t])'
      BY <1>2, <1>4 DEF RequestsInv, CallsInv, MessagesFit, Fits, Calling, Busy
  <2> QED BY <2>2, <2>3, <2>4 DEF MessagesFit
<1>10. AnswersFit'
    BY <1>2 DEF RequestsInv, CallsInv, AnswersFit, Done
<1>11. OneMessage'
  <2>0. OneMessage
      BY DEF RequestsInv, CallsInv
  <2>1. \A n \in wire' : n \in wire /\ ~SameCall(n, m) /\ ~SameCall(m, n)
      BY <1>1, <2>0 DEF OneMessage, SameCall
  <2>2. \A t \in Servers \ {s} : /\ Busy(t)' = Busy(t)
                                 /\ Busy(t) => ~SameCall(m, serving[t]) /\ ~SameCall(serving[t], m)
      BY <1>1, <1>4, <2>0 DEF OneMessage, Busy, SameCall
  <2>3. \A a \in answers : ~SameCall(a, m)
      BY <1>1, <2>0 DEF OneMessage
  <2>4. \A t, u \in Servers : Busy(t)' /\ Busy(u)' /\ SameCall(serving'[t], serving'[u]) => t = u
      BY <1>4, <1>8, <2>0, <2>2 DEF OneMessage, SameCall
  <2>5. \A n \in wire', t \in Servers : Busy(t)' => ~SameCall(n, serving'[t])
      BY <1>4, <1>8, <2>0, <2>1, <2>2 DEF OneMessage, SameCall
  <2>6. \A a \in answers, t \in Servers : Busy(t)' => ~SameCall(a, serving'[t])
      BY <1>4, <1>8, <2>0, <2>2, <2>3 DEF OneMessage, SameCall
  <2> QED BY <1>2, <2>0, <2>1, <2>4, <2>5, <2>6 DEF OneMessage, SameCall
<1>12. ServiceHonest(s)' /\ ~Holds(s)'
    BY <1>8 DEF ServiceHonest, Holds
<1>13. RowsInv'
    BY <1>2, <1>4, <1>12, ServiceKeepsRows
<1> QED BY <1>6, <1>7, <1>9, <1>10, <1>11, <1>13 DEF RequestsInv, CallsInv

(* A service goes on in its transaction.                                   *)
Places == {"reserve", "select", "lock", "missing", "delete", "run", "save"}

LEMMA AdvanceKeeps ==
    ASSUME RequestsInv, NEW s \in Servers, Busy(s), NEW at \in Places, NEW row \in Nat,
           GoesOn(s, at, row)
    PROVE  /\ RequestsTypeOK' /\ CallsInv'
           /\ serving'[s].at = at /\ serving'[s].row = row /\ Key(s)' = Key(s)
           /\ \A t \in Servers \ {s} : serving'[t] = serving[t]
           /\ UNCHANGED <<keyRow, applied, expiries>>
<1>1. /\ UNCHANGED <<click, generation, pendingStepUp, steppedUp, wire, answers, keyRow, applied, expiries>>
      /\ serving' = [serving EXCEPT ![s].at = at, ![s].row = row]
    BY DEF GoesOn, browserVars
<1>2. serving[s] \in Service
    BY ServiceFields DEF RequestsInv
<1>3. /\ serving'[s] = [serving[s] EXCEPT !.at = at, !.row = row]
      /\ \A t \in Servers \ {s} : serving'[t] = serving[t]
    BY <1>1 DEF RequestsInv, RequestsTypeOK
<1>4. /\ serving'[s] \in Service /\ serving'[s].at = at /\ serving'[s].row = row
      /\ serving'[s].click = serving[s].click /\ serving'[s].try = serving[s].try
      /\ serving'[s].body = serving[s].body
    BY <1>2, <1>3 DEF Service, Places
<1>5. \A t \in Servers : /\ Busy(t)' = Busy(t)
                         /\ Busy(t) => /\ serving'[t].click = serving[t].click
                                       /\ serving'[t].try = serving[t].try
                                       /\ serving'[t].body = serving[t].body
  <2>1. Busy(s)'
      BY <1>4 DEF Busy, Places
  <2> QED BY <1>3, <1>4, <2>1 DEF Busy
<1>6. RequestsTypeOK'
    BY <1>1, <1>4 DEF RequestsInv, RequestsTypeOK
<1>7. NobodyIsLost'
    BY <1>1 DEF RequestsInv, CallsInv, NobodyIsLost
<1>8. MessagesFit'
  <2>1. \A m \in wire : Fits(m)'
      BY <1>1 DEF RequestsInv, CallsInv, MessagesFit, Fits, Calling
  <2>2. \A t \in Servers : Busy(t)' => Fits(serving[t])'
      BY <1>1, <1>5 DEF RequestsInv, CallsInv, MessagesFit, Fits, Calling
  <2> QED BY <1>1, <2>1, <2>2 DEF MessagesFit
<1>9. AnswersFit'
    BY <1>1 DEF RequestsInv, CallsInv, AnswersFit, Done
<1>10. OneMessage'
  <2>1. OneMessage /\ wire' = wire /\ answers' = answers
      BY <1>1 DEF RequestsInv, CallsInv
  <2>2. \A t, u \in Servers : Busy(t)' /\ Busy(u)' /\ SameCall(serving'[t], serving'[u]) => t = u
      BY <1>5, <2>1 DEF OneMessage, SameCall
  <2>3. \A m \in wire, t \in Servers : Busy(t)' => ~SameCall(m, serving'[t])
      BY <1>5, <2>1 DEF OneMessage, SameCall
  <2>4. \A a \in answers, t \in Servers : Busy(t)' => ~SameCall(a, serving'[t])
      BY <1>5, <2>1 DEF OneMessage, SameCall
  <2> QED BY <2>1, <2>2, <2>3, <2>4 DEF OneMessage, SameCall
<1>11. Key(s)' = Key(s)
    BY <1>4 DEF Key
<1> QED BY <1>1, <1>3, <1>4, <1>6, <1>7, <1>8, <1>9, <1>10, <1>11 DEF CallsInv

(* What is known of a service and its key.                                 *)
LEMMA KeyFacts ==
    ASSUME RequestsInv, NEW s \in Servers, Busy(s)
    PROVE  /\ Key(s) \in Keys /\ KeyHonest(Key(s)) /\ ServiceHonest(s)
           /\ keyRow[Key(s)].id \in Nat /\ (keyRow[Key(s)] = NoRow <=> keyRow[Key(s)].id = 0)
           /\ HoldsNobodyElse(s) => \A t \in Servers \ {s} : Holds(t) => Key(t) # Key(s)
<1>1. Key(s) \in Keys
    BY ServiceFields DEF RequestsInv
<1>2. KeyHonest(Key(s)) /\ ServiceHonest(s)
    BY <1>1 DEF RequestsInv, RowsInv, KeysHonest, ServicesHonest
<1>3. HoldsNobodyElse(s) => \A t \in Servers \ {s} : Holds(t) => Key(t) # Key(s)
    BY ServiceFields DEF HoldsNobodyElse, Holds, RequestsInv
<1> QED BY <1>1, <1>2, <1>3, RowFields DEF RequestsInv

LEMMA ReserveKeeps ==
    ASSUME RequestsInv, NEW s \in Servers, reserveIdempotency(s)
    PROVE  RequestsInv'
<1>1. Busy(s) /\ HoldsNobodyElse(s)
    BY DEF reserveIdempotency, Busy
<1>2. PICK at \in Places : at = IF keyRow[Key(s)] = NoRow THEN "run" ELSE "select"
    BY DEF Places
<1>3. GoesOn(s, at, 0)
    BY <1>2 DEF reserveIdempotency
<1>4. /\ RequestsTypeOK' /\ CallsInv'
      /\ serving'[s].at = at /\ Key(s)' = Key(s)
      /\ \A t \in Servers \ {s} : serving'[t] = serving[t]
      /\ UNCHANGED <<keyRow, applied, expiries>>
    BY <1>1, <1>3, AdvanceKeeps
<1>5. ServiceHonest(s)'
    BY <1>1, <1>2, <1>4, KeyFacts DEF ServiceHonest, Holds
<1>6. Holds(s)' => \A t \in Servers \ {s} : Holds(t) => Key(t) # Key(s)'
    BY <1>1, <1>4, KeyFacts
<1> QED BY <1>4, <1>5, <1>6, ServiceKeepsRows DEF RequestsInv

LEMMA LookKeeps ==
    ASSUME RequestsInv, NEW s \in Servers, Look(s)
    PROVE  RequestsInv'
<1>1. Busy(s)
    BY DEF Look, Busy
<1>2. PICK row \in Nat : row = keyRow[Key(s)].id
    BY <1>1, KeyFacts
<1>3. PICK at \in Places :
          /\ GoesOn(s, at, row)
          /\ \/ serving[s].at = "select" /\ at = "lock"
             \/ serving[s].at = "missing" /\ at = "delete"
    BY <1>2 DEF Look, Places
<1>4. /\ RequestsTypeOK' /\ CallsInv'
      /\ serving'[s].at = at /\ serving'[s].row = row /\ Key(s)' = Key(s)
      /\ \A t \in Servers \ {s} : serving'[t] = serving[t]
      /\ UNCHANGED <<keyRow, applied, expiries>>
    BY <1>1, <1>3, AdvanceKeeps
<1>5. ServiceHonest(s)' /\ ~Holds(s)'
    BY <1>1, <1>2, <1>3, <1>4, KeyFacts DEF ServiceHonest, StillThere, Holds
<1> QED BY <1>4, <1>5, ServiceKeepsRows DEF RequestsInv

(* A row that was replaced had expired.                                    *)
LEMMA RowIsGoneKeeps ==
    ASSUME RequestsInv, NEW s \in Servers, RowIsGone(s)
    PROVE  RequestsInv'
<1>1. Busy(s) /\ serving[s].at = "lock" /\ ~StillThere(s) /\ GoesOn(s, "missing", 0)
    BY DEF RowIsGone, Busy
<1>2. /\ RequestsTypeOK' /\ CallsInv'
      /\ serving'[s].at = "missing" /\ Key(s)' = Key(s)
      /\ \A t \in Servers \ {s} : serving'[t] = serving[t]
      /\ UNCHANGED <<keyRow, applied, expiries>>
    BY <1>1, AdvanceKeeps DEF Places
<1>3. ServiceHonest(s)' /\ ~Holds(s)'
    BY <1>1, <1>2, KeyFacts DEF ServiceHonest, Holds
<1> QED BY <1>2, <1>3, ServiceKeepsRows DEF RequestsInv

LEMMA ReplaceExpiredKeeps ==
    ASSUME RequestsInv, NEW s \in Servers, ReplaceExpired(s)
    PROVE  RequestsInv'
<1>1. /\ Busy(s) /\ serving[s].at = "lock" /\ HoldsNobodyElse(s)
      /\ keyRow[Key(s)].expired /\ GoesOn(s, "run", 0)
    BY DEF ReplaceExpired, Busy
<1>2. /\ RequestsTypeOK' /\ CallsInv'
      /\ serving'[s].at = "run" /\ Key(s)' = Key(s)
      /\ \A t \in Servers \ {s} : serving'[t] = serving[t]
      /\ UNCHANGED <<keyRow, applied, expiries>>
    BY <1>1, AdvanceKeeps DEF Places
<1>3. keyRow[Key(s)].id # 0 /\ expiries[Key(s)] # 0
    BY <1>1, KeyFacts DEF ServiceHonest, KeyHonest
<1>4. ServiceHonest(s)'
    BY <1>2, <1>3 DEF ServiceHonest
<1>5. Holds(s)' => \A t \in Servers \ {s} : Holds(t) => Key(t) # Key(s)'
    BY <1>1, <1>2, KeyFacts
<1> QED BY <1>2, <1>4, <1>5, ServiceKeepsRows DEF RequestsInv

LEMMA DeleteRowKeeps ==
    ASSUME RequestsInv, NEW s \in Servers, DeleteRow(s)
    PROVE  RequestsInv'
<1>1. Busy(s) /\ serving[s].at = "delete"
    BY DEF DeleteRow, Busy
<1>2. expiries[Key(s)] # 0
    BY <1>1, KeyFacts DEF ServiceHonest
<1>3. PICK at \in Places :
          /\ GoesOn(s, at, 0)
          /\ at = "run" => HoldsNobodyElse(s)
          /\ at \in {"reserve", "run"}
    BY DEF DeleteRow, Places
<1>4. /\ RequestsTypeOK' /\ CallsInv'
      /\ serving'[s].at = at /\ Key(s)' = Key(s)
      /\ \A t \in Servers \ {s} : serving'[t] = serving[t]
      /\ UNCHANGED <<keyRow, applied, expiries>>
    BY <1>1, <1>3, AdvanceKeeps
<1>5. ServiceHonest(s)'
    BY <1>2, <1>3, <1>4 DEF ServiceHonest
<1>6. Holds(s)' => \A t \in Servers \ {s} : Holds(t) => Key(t) # Key(s)'
    BY <1>1, <1>3, <1>4, KeyFacts DEF Holds
<1> QED BY <1>4, <1>5, <1>6, ServiceKeepsRows DEF RequestsInv

LEMMA RunKeeps ==
    ASSUME RequestsInv, NEW s \in Servers, Run(s)
    PROVE  RequestsInv'
<1>1. Busy(s) /\ serving[s].at = "run" /\ GoesOn(s, "save", 0)
    BY DEF Run
<1>2. /\ RequestsTypeOK' /\ CallsInv'
      /\ serving'[s].at = "save" /\ Key(s)' = Key(s)
      /\ \A t \in Servers \ {s} : serving'[t] = serving[t]
      /\ UNCHANGED <<keyRow, applied, expiries>>
    BY <1>1, AdvanceKeeps DEF Places
<1>3. Holds(s)
    BY <1>1 DEF Holds
<1>4. ServiceHonest(s)'
    BY <1>1, <1>2, <1>3, KeyFacts DEF ServiceHonest
<1>5. \A t \in Servers \ {s} : Holds(t) => Key(t) # Key(s)'
    BY <1>2, <1>3 DEF RequestsInv, RowsInv, OneHolder
<1> QED BY <1>2, <1>4, <1>5, ServiceKeepsRows DEF RequestsInv

(* A service ends with an answer, if somebody still waits for one.         *)
LEMMA ReplyKeeps ==
    ASSUME RequestsInv, NEW s \in Servers, Busy(s),
           NEW result \in {"ok", "error", "STEP_UP_REQUIRED", "IDEMPOTENCY_KEY_REUSED"},
           Reply(s, result), UNCHANGED <<browserVars, wire>>,
           \A k \in Keys, b \in Bodies : Done(k, b) => Done(k, b)',
           NEW key \in Keys, key = Key(s), NEW body \in Bodies, body = serving[s].body,
           result = "ok" => Done(key, body)'
    PROVE  /\ CallsInv'
           /\ answers' \subseteq Answer
           /\ serving' \in [Servers -> Service \union {NotServing}]
           /\ ~Busy(s)' /\ ~Holds(s)'
           /\ \A t \in Servers \ {s} : serving'[t] = serving[t]
<1>1. UNCHANGED <<click, pendingStepUp, wire>>
    BY DEF browserVars
<1>2. serving[s].click \in Clicks /\ serving[s].try \in 1 .. 2 /\ serving[s].body \in Bodies
    BY ServiceFields DEF RequestsInv
<1>3. serving'[s] = NotServing /\ \A t \in Servers \ {s} : serving'[t] = serving[t]
    BY DEF Reply, RequestsInv, RequestsTypeOK
<1>4. ~Busy(s)' /\ ~Holds(s)'
    BY <1>3 DEF Busy, Holds, NotServing
<1>5. \A t \in Servers \ {s} : Busy(t)' = Busy(t) /\ Holds(t)' = Holds(t) /\ Key(t)' = Key(t)
    BY <1>3 DEF Busy, Holds, Key
<1>6. PICK new \in Answer :
          /\ new = [click |-> serving[s].click, try |-> serving[s].try, result |-> result]
          /\ new.click = serving[s].click /\ new.try = serving[s].try /\ new.result = result
  <2>1. [click |-> serving[s].click, try |-> serving[s].try, result |-> result] \in Answer
      BY <1>2 DEF Answer
  <2> QED BY <2>1
<1>7. \/ answers' = answers
      \/ /\ answers' = answers \union {new}
         /\ click[serving[s].click].st = "sent" /\ click[serving[s].click].try = serving[s].try
    BY <1>6 DEF Reply
<1>8. answers' \subseteq Answer /\ serving' \in [Servers -> Service \union {NotServing}]
    BY <1>6, <1>7 DEF Reply, RequestsInv, RequestsTypeOK
<1>9. NobodyIsLost'
    BY <1>1 DEF RequestsInv, CallsInv, NobodyIsLost
<1>10. MessagesFit'
  <2>1. \A m \in wire : Fits(m)'
      BY <1>1 DEF RequestsInv, CallsInv, MessagesFit, Fits, Calling
  <2>2. \A t \in Servers \ {s} : Busy(t)' => Fits(serving[t])'
      BY <1>1, <1>3, <1>5 DEF RequestsInv, CallsInv, MessagesFit, Fits, Calling
  <2> QED BY <1>1, <1>4, <2>1, <2>2 DEF MessagesFit
<1>11. AnswersFit'
  <2>1. ASSUME NEW a \in answers
        PROVE  /\ click'[a.click].st = "sent" /\ a.try = click'[a.click].try
               /\ a.result = "ok" => Done(KeyOf[a.click], click[a.click].body)'
    <3>1. /\ click[a.click].st = "sent" /\ a.try = click[a.click].try /\ a.click \in Clicks
          /\ a.result = "ok" => Done(KeyOf[a.click], click[a.click].body)
        BY DEF RequestsInv, CallsInv, AnswersFit, RequestsTypeOK, Answer
    <3>2. PICK k \in Keys : k = KeyOf[a.click]
        BY <3>1, KeyInKeys
    <3>3. PICK b \in Bodies : b = click[a.click].body
        BY <3>1, ClickFields DEF RequestsInv, Calling
    <3>4. Done(k, b) => Done(k, b)'
        OBVIOUS
    <3> QED BY <1>1, <3>1, <3>2, <3>3, <3>4 DEF Done
  <2>2. ASSUME click[serving[s].click].st = "sent"
        PROVE  result = "ok" => Done(KeyOf[new.click], click[new.click].body)'
    <3>1. click[serving[s].click].body = serving[s].body
        BY <2>2 DEF RequestsInv, CallsInv, MessagesFit, Fits, Calling
    <3>2. new.click \in Clicks /\ KeyOf[new.click] = key /\ click'[new.click].body = body
        BY <1>1, <1>2, <1>6, <3>1 DEF Key
    <3> QED BY <1>1, <3>2 DEF Done
  <2> QED BY <1>1, <1>6, <1>7, <2>1, <2>2 DEF AnswersFit
<1>12. OneMessage'
  <2>0. OneMessage
      BY DEF RequestsInv, CallsInv
  <2>1. \A m \in wire : ~SameCall(new, m)
      BY <1>6, <2>0 DEF OneMessage, SameCall
  <2>2. \A t \in Servers \ {s} : Busy(t) => ~SameCall(new, serving[t])
      BY <1>6, <2>0 DEF OneMessage, SameCall
  <2>3. \A a \in answers : ~SameCall(a, new) /\ ~SameCall(new, a)
      BY <1>6, <2>0 DEF OneMessage, SameCall
  <2>4. \A a, b \in answers' : SameCall(a, b) => a = b
      BY <1>7, <2>0, <2>3 DEF OneMessage
  <2>5. \A a \in answers', m \in wire : ~SameCall(a, m)
      BY <1>7, <2>0, <2>1 DEF OneMessage
  <2>6. \A a \in answers', t \in Servers \ {s} : Busy(t) => ~SameCall(a, serving[t])
      BY <1>7, <2>0, <2>2 DEF OneMessage
  <2>7. \A t, u \in Servers : Busy(t)' /\ Busy(u)' /\ SameCall(serving'[t], serving'[u]) => t = u
      BY <1>3, <1>4, <1>5, <2>0 DEF OneMessage, SameCall
  <2> QED BY <1>1, <1>3, <1>4, <1>5, <2>0, <2>4, <2>5, <2>6, <2>7 DEF OneMessage, SameCall
<1> QED BY <1>3, <1>4, <1>8, <1>9, <1>10, <1>11, <1>12 DEF CallsInv

(* Answers that do not report anything done.                               *)
LEMMA RefuseKeeps ==
    ASSUME RequestsInv, NEW s \in Servers, Busy(s),
           NEW result \in {"error", "STEP_UP_REQUIRED", "IDEMPOTENCY_KEY_REUSED", "ok"},
           Reply(s, result),
           result = "ok" => keyRow[Key(s)].id # 0 /\ SameRequest(s),
           UNCHANGED <<browserVars, wire, keyRow, applied, expiries, apiCrashes>>
    PROVE  RequestsInv'
<1>1. PICK key \in Keys : key = Key(s)
    BY ServiceFields DEF RequestsInv
<1>2. PICK body \in Bodies : body = serving[s].body
    BY ServiceFields DEF RequestsInv
<1>3. \A k \in Keys, b \in Bodies : Done(k, b) => Done(k, b)'
    BY DEF Done
<1>4. result = "ok" => Done(key, body)'
  <2>1. KeyHonest(key)
      BY DEF RequestsInv, RowsInv, KeysHonest
  <2> QED BY <1>1, <1>2, <2>1 DEF KeyHonest, Done, SameRequest
<1>5. /\ CallsInv'
      /\ answers' \subseteq Answer
      /\ serving' \in [Servers -> Service \union {NotServing}]
      /\ ~Busy(s)' /\ ~Holds(s)'
      /\ \A t \in Servers \ {s} : serving'[t] = serving[t]
    BY <1>1, <1>2, <1>3, <1>4, ReplyKeeps
<1>6. RequestsTypeOK'
    BY <1>5 DEF RequestsInv, RequestsTypeOK, browserVars
<1>7. RowsInv'
    BY <1>5, ServiceKeepsRows DEF ServiceHonest
<1> QED BY <1>5, <1>6, <1>7 DEF RequestsInv

(* Nobody else holds the key, which has no row before its first expiry.    *)
LEMMA SaveKeeps ==
    ASSUME RequestsInv, NEW s \in Servers, saveIdempotency(s)
    PROVE  RequestsInv'
<1>1. /\ Busy(s) /\ serving[s].at = "save"
      /\ keyRow' = [keyRow EXCEPT ![Key(s)] =
            [id |-> @.id + 1, body |-> serving[s].body, expired |-> FALSE]]
      /\ applied' = [applied EXCEPT ![Key(s)] = Append(@, serving[s].body)]
      /\ Reply(s, "ok")
      /\ UNCHANGED <<browserVars, wire, expiries, apiCrashes>>
    BY DEF saveIdempotency
<1>2. PICK key \in Keys : key = Key(s)
    BY <1>1, ServiceFields DEF RequestsInv
<1>3. PICK body \in Bodies : body = serving[s].body
    BY <1>1, ServiceFields DEF RequestsInv
<1>4. PICK id \in Nat \ {0} : id = keyRow[key].id + 1
    BY RowFields DEF RequestsInv
<1>5. PICK row \in RowState :
          /\ row = [id |-> id, body |-> body, expired |-> FALSE]
          /\ row.id # 0 /\ row.body = body /\ row.expired = FALSE
  <2>1. [id |-> id, body |-> body, expired |-> FALSE] \in RowState
      BY DEF RowState
  <2> QED BY <2>1
<1>6. /\ keyRow' \in [Keys -> RowState \union {NoRow}] /\ keyRow'[key] = row
      /\ \A k \in Keys \ {key} : keyRow'[k] = keyRow[k]
  <2>1. keyRow' = [keyRow EXCEPT ![key] = row]
      BY <1>1, <1>2, <1>3, <1>4, <1>5 DEF RequestsInv, RequestsTypeOK
  <2> QED BY <2>1 DEF RequestsInv, RequestsTypeOK
<1>7. applied[key] \in Seq(Bodies) /\ \A k \in Keys : Len(applied[k]) \in Nat
    BY RowFields DEF RequestsInv
<1>8. /\ Append(applied[key], body) \in Seq(Bodies)
      /\ Len(Append(applied[key], body)) = Len(applied[key]) + 1
      /\ \A i \in 1 .. Len(applied[key]) : Append(applied[key], body)[i] = applied[key][i]
      /\ Append(applied[key], body)[Len(applied[key]) + 1] = body
    BY <1>7, AppendProperties
<1>9. /\ applied' \in [Keys -> Seq(Bodies)] /\ applied'[key] = Append(applied[key], body)
      /\ \A k \in Keys \ {key} : applied'[k] = applied[k]
    BY <1>1, <1>2, <1>3, <1>8 DEF RequestsInv, RequestsTypeOK
<1>10. \A k \in Keys, b \in Bodies : Done(k, b) => Done(k, b)'
  <2> SUFFICES ASSUME NEW k \in Keys, NEW b \in Bodies, Done(k, b) PROVE Done(k, b)'
      OBVIOUS
  <2>1. CASE k = key
    <3>1. PICK i \in 1 .. Len(applied[key]) : applied[key][i] = b
        BY <2>1 DEF Done
    <3>2. i \in 1 .. Len(applied'[key]) /\ applied'[key][i] = b
        BY <1>7, <1>8, <1>9, <3>1
    <3> QED BY <2>1, <3>2 DEF Done
  <2>2. CASE k # key
      BY <1>9, <2>2 DEF Done
  <2> QED BY <2>1, <2>2
<1>11. Done(key, body)'
  <2>1. PICK n \in Nat : n = Len(applied[key]) + 1
      BY <1>7
  <2>2. n \in 1 .. Len(applied'[key]) /\ applied'[key][n] = body
      BY <1>7, <1>8, <1>9, <2>1
  <2> QED BY <2>2 DEF Done
<1>12. UNCHANGED <<browserVars, wire>>
    BY <1>1
<1>13. /\ CallsInv'
       /\ answers' \subseteq Answer
       /\ serving' \in [Servers -> Service \union {NotServing}]
       /\ ~Busy(s)' /\ ~Holds(s)'
       /\ \A t \in Servers \ {s} : serving'[t] = serving[t]
    BY <1>1, <1>2, <1>3, <1>10, <1>11, <1>12, ReplyKeeps
<1>14. RequestsTypeOK'
    BY <1>1, <1>6, <1>9, <1>13 DEF RequestsInv, RequestsTypeOK, browserVars
<1>15. \A t \in Servers \ {s} : Holds(t)' = Holds(t) /\ Key(t)' = Key(t) /\ Busy(t)' = Busy(t)
    BY <1>13 DEF Holds, Key, Busy
<1>16. OneHolder'
    BY <1>13, <1>15 DEF RequestsInv, RowsInv, OneHolder
<1>17. Holds(s) /\ \A t \in Servers \ {s} : Holds(t) => Key(t) # key
    BY <1>1, <1>2 DEF RequestsInv, RowsInv, OneHolder, Holds
<1>18. expiries[key] = 0 => keyRow[key].id = 0 /\ Len(applied[key]) = 0
    BY <1>1, <1>2, <1>17, KeyFacts DEF ServiceHonest, KeyHonest
<1>19. KeysHonest'
  <2> SUFFICES ASSUME NEW k \in Keys PROVE KeyHonest(k)'
      BY DEF KeysHonest
  <2>1. CASE k = key
    <3>1. keyRow'[k].id # 0 /\ keyRow'[k].body = body /\ ~keyRow'[k].expired
        BY <1>5, <1>6, <2>1
    <3>2. expiries'[k] = 0 => Len(applied'[k]) <= 1
        BY <1>1, <1>8, <1>9, <1>18, <2>1
    <3>3. \E i \in 1 .. Len(applied'[k]) : applied'[k][i] = body
        BY <1>11, <2>1 DEF Done
    <3> QED BY <3>1, <3>2, <3>3 DEF KeyHonest, Done
  <2>2. CASE k # key
    <3>1. keyRow'[k] = keyRow[k] /\ applied'[k] = applied[k] /\ expiries' = expiries
        BY <1>1, <1>6, <1>9, <2>2
    <3>2. KeyHonest(k)
        BY DEF RequestsInv, RowsInv, KeysHonest
    <3> QED BY <3>1, <3>2 DEF KeyHonest, Done
  <2> QED BY <2>1, <2>2
<1>20. ServicesHonest'
  <2> SUFFICES ASSUME NEW t \in Servers, Busy(t)' PROVE ServiceHonest(t)'
      BY DEF ServicesHonest, ServiceHonest
  <2>1. /\ t # s /\ Busy(t) /\ serving'[t] = serving[t] /\ Key(t)' = Key(t)
        /\ Holds(t)' = Holds(t) /\ expiries' = expiries
      BY <1>1, <1>13, <1>15
  <2>2. ServiceHonest(t) /\ Key(t) \in Keys
      BY <2>1, KeyFacts
  <2>3. CASE Key(t) = key
    <3>1. keyRow'[Key(t)].id # 0 /\ ~Holds(t)
        BY <1>5, <1>6, <1>17, <2>1, <2>3
    <3>2. expiries[Key(t)] = 0 => serving[t].at # "lock"
        BY <1>18, <2>1, <2>2, <2>3 DEF ServiceHonest
    <3> QED BY <2>1, <2>2, <3>1, <3>2 DEF ServiceHonest
  <2>4. CASE Key(t) # key
    <3>1. keyRow'[Key(t)] = keyRow[Key(t)]
        BY <1>6, <2>2, <2>4
    <3> QED BY <2>1, <2>2, <3>1 DEF ServiceHonest, StillThere
  <2> QED BY <2>3, <2>4
<1> QED BY <1>13, <1>14, <1>16, <1>19, <1>20 DEF RequestsInv, RowsInv

LEMMA ExpireKeeps ==
    ASSUME RequestsInv, NEW key \in Keys, ExpireKey(key)
    PROVE  RequestsInv'
<1>1. /\ keyRow[key] # NoRow
      /\ keyRow' = [keyRow EXCEPT ![key].expired = TRUE]
      /\ expiries' = [expiries EXCEPT ![key] = @ + 1]
      /\ UNCHANGED <<click, generation, pendingStepUp, steppedUp, wire, answers, serving, applied>>
    BY DEF ExpireKey, browserVars
<1>2. keyRow[key] \in RowState /\ keyRow[key].id # 0 /\ expiries[key] \in Nat
    BY <1>1, RowFields DEF RequestsInv
<1>3. /\ keyRow'[key] \in RowState /\ keyRow'[key].id = keyRow[key].id
      /\ keyRow'[key].body = keyRow[key].body /\ keyRow'[key].expired
      /\ \A k \in Keys \ {key} : keyRow'[k] = keyRow[k]
      /\ expiries'[key] # 0 /\ expiries' \in [Keys -> Nat]
      /\ \A k \in Keys \ {key} : expiries'[k] = expiries[k]
  <2>1. /\ keyRow'[key] = [keyRow[key] EXCEPT !.expired = TRUE]
        /\ \A k \in Keys \ {key} : keyRow'[k] = keyRow[k]
      BY <1>1 DEF RequestsInv, RequestsTypeOK
  <2>2. expiries' \in [Keys -> Nat] /\ expiries'[key] # 0
        /\ \A k \in Keys \ {key} : expiries'[k] = expiries[k]
      BY <1>1, <1>2 DEF RequestsInv, RequestsTypeOK
  <2> QED BY <1>2, <2>1, <2>2 DEF RowState
<1>4. keyRow' \in [Keys -> RowState \union {NoRow}]
    BY <1>1, <1>3 DEF RequestsInv, RequestsTypeOK
<1>5. RequestsTypeOK'
    BY <1>1, <1>4 DEF RequestsInv, RequestsTypeOK
<1>6. NobodyIsLost'
    BY <1>1 DEF RequestsInv, CallsInv, NobodyIsLost
<1>7. MessagesFit' /\ OneMessage'
    BY <1>1 DEF RequestsInv, CallsInv, MessagesFit, Fits, Calling, OneMessage, SameCall, Busy
<1>8. AnswersFit'
    BY <1>1 DEF RequestsInv, CallsInv, AnswersFit, Done
<1>9. OneHolder'
    BY <1>1 DEF RequestsInv, RowsInv, OneHolder, Holds, Key
<1>10. KeysHonest'
  <2> SUFFICES ASSUME NEW k \in Keys PROVE KeyHonest(k)'
      BY DEF KeysHonest
  <2>1. KeyHonest(k)
      BY DEF RequestsInv, RowsInv, KeysHonest
  <2>2. CASE k = key
      BY <1>1, <1>2, <1>3, <2>1, <2>2 DEF KeyHonest, Done
  <2>3. CASE k # key
      BY <1>1, <1>3, <2>1, <2>3 DEF KeyHonest, Done
  <2> QED BY <2>2, <2>3
<1>11. ServicesHonest'
  <2> SUFFICES ASSUME NEW s \in Servers, Busy(s) PROVE ServiceHonest(s)'
      BY <1>1 DEF ServicesHonest, ServiceHonest, Busy
  <2>1. ServiceHonest(s) /\ Key(s) \in Keys
      BY KeyFacts
  <2>2. Busy(s)' = Busy(s) /\ Holds(s)' = Holds(s) /\ Key(s)' = Key(s) /\ serving'[s] = serving[s]
      BY <1>1 DEF Busy, Holds, Key
  <2>3. CASE Key(s) = key
      BY <1>2, <1>3, <2>1, <2>2, <2>3 DEF ServiceHonest
  <2>4. CASE Key(s) # key
      BY <1>3, <2>1, <2>2, <2>4 DEF ServiceHonest, StillThere
  <2> QED BY <2>3, <2>4
<1> QED BY <1>5, <1>6, <1>7, <1>8, <1>9, <1>10, <1>11 DEF RequestsInv, CallsInv, RowsInv

LEMMA CrashKeeps ==
    ASSUME RequestsInv, CrashApi
    PROVE  RequestsInv'
<1>1. /\ serving' = [s \in Servers |-> NotServing]
      /\ UNCHANGED <<click, generation, pendingStepUp, steppedUp, wire, answers, keyRow, applied, expiries>>
    BY DEF CrashApi, browserVars
<1>2. \A s \in Servers : ~Busy(s)' /\ ~Holds(s)'
    BY <1>1 DEF Busy, Holds, NotServing
<1>3. RequestsTypeOK' /\ NobodyIsLost'
    BY <1>1 DEF RequestsInv, RequestsTypeOK, CallsInv, NobodyIsLost
<1>4. MessagesFit' /\ OneMessage'
    BY <1>1, <1>2 DEF RequestsInv, CallsInv, MessagesFit, Fits, Calling, OneMessage, SameCall
<1>5. AnswersFit'
    BY <1>1 DEF RequestsInv, CallsInv, AnswersFit, Done
<1>6. OneHolder' /\ KeysHonest' /\ ServicesHonest'
    BY <1>1, <1>2 DEF RequestsInv, RowsInv, OneHolder, KeysHonest, KeyHonest, Done,
                      ServicesHonest, ServiceHonest
<1> QED BY <1>3, <1>4, <1>5, <1>6 DEF RequestsInv, CallsInv, RowsInv

LEMMA ServerKeeps ==
    ASSUME RequestsInv, ServerNext
    PROVE  RequestsInv'
<1>1. ASSUME NEW s \in Servers, Receive(s) \/ reserveIdempotency(s) \/ Run(s) \/ saveIdempotency(s)
      PROVE  RequestsInv'
    BY <1>1, ReceiveKeeps, ReserveKeeps, RunKeeps, SaveKeeps
<1>5. ASSUME NEW s \in Servers, Look(s) \/ RowIsGone(s) \/ ReplaceExpired(s) \/ DeleteRow(s)
      PROVE  RequestsInv'
    BY <1>5, LookKeeps, RowIsGoneKeeps, ReplaceExpiredKeeps, DeleteRowKeeps
<1>2. ASSUME NEW s \in Servers, Replay(s)
      PROVE  RequestsInv'
  <2>1. PICK result \in {"error", "STEP_UP_REQUIRED", "IDEMPOTENCY_KEY_REUSED", "ok"} :
            result = IF SameRequest(s) THEN "ok" ELSE "IDEMPOTENCY_KEY_REUSED"
      OBVIOUS
  <2>2. /\ Busy(s) /\ serving[s].at = "lock" /\ Reply(s, result)
        /\ UNCHANGED <<browserVars, wire, keyRow, applied, expiries, apiCrashes>>
      BY <1>2, <2>1 DEF Replay, Busy
  <2>3. result = "ok" => keyRow[Key(s)].id # 0 /\ SameRequest(s)
      BY <2>1, <2>2, KeyFacts DEF ServiceHonest
  <2> QED BY <2>2, <2>3, RefuseKeeps
<1>3. ASSUME NEW s \in Servers, RefuseStepUp(s)
      PROVE  RequestsInv'
    BY <1>3, RefuseKeeps DEF RefuseStepUp
<1>4. ASSUME NEW s \in Servers, FailOperation(s)
      PROVE  RequestsInv'
    BY <1>4, RefuseKeeps DEF FailOperation
<1> QED BY <1>1, <1>2, <1>3, <1>4, <1>5, ExpireKeeps, CrashKeeps DEF ServerNext

-----------------------------------------------------------------------------
LEMMA StepKeeps == RequestsInv /\ [RequestsNext]_requestVars => RequestsInv'
<1> SUFFICES ASSUME RequestsInv, [RequestsNext]_requestVars PROVE RequestsInv'
    OBVIOUS
<1>1. CASE BrowserNext
    BY <1>1, BrowserKeeps
<1>2. CASE ServerNext
    BY <1>2, ServerKeeps
<1>3. CASE UNCHANGED requestVars
  <2> USE <1>3 DEF requestVars, browserVars, serverVars
  <2>1. RequestsTypeOK' /\ NobodyIsLost'
      BY DEF RequestsInv, CallsInv, RequestsTypeOK, NobodyIsLost
  <2>2. MessagesFit' /\ OneMessage'
      BY DEF RequestsInv, CallsInv, MessagesFit, Fits, Calling, OneMessage, SameCall, Busy
  <2>3. AnswersFit'
      BY DEF RequestsInv, CallsInv, AnswersFit, Done
  <2>4. UNCHANGED serverVars
      OBVIOUS
  <2> QED BY <2>1, <2>2, <2>3, <2>4, BrowserKeepsRows DEF RequestsInv, CallsInv
<1> QED BY <1>1, <1>2, <1>3 DEF RequestsNext

LEMMA InvariantImplies == RequestsInv => FormIsAppliedOnce
<1> SUFFICES ASSUME RequestsInv PROVE FormIsAppliedOnce
    OBVIOUS
<1>1. \A k \in Keys : expiries[k] = 0 => Len(applied[k]) <= 1
    BY DEF RequestsInv, RowsInv, KeysHonest, KeyHonest
<1>2. \A a \in answers : a.result = "ok" =>
          \E i \in 1 .. Len(applied[KeyOf[a.click]]) :
              applied[KeyOf[a.click]][i] = click[a.click].body
    BY DEF RequestsInv, CallsInv, AnswersFit, Done
<1> QED BY <1>1, <1>2 DEF FormIsAppliedOnce

(* What one idempotency key asks for is done at most once before its row   *)
(* outlives its day, and a click that is told it was done did ask for what *)
(* was done: for any                                                       *)
(* clicks, keys, requests served at once, crashes and broken connections.  *)
THEOREM AppliedOnce == RequestsSpec => []FormIsAppliedOnce
<1>1. RequestsInit => RequestsInv
    BY InitHolds
<1>2. RequestsInv /\ [RequestsNext]_requestVars => RequestsInv'
    BY StepKeeps
<1>3. RequestsInv => FormIsAppliedOnce
    BY InvariantImplies
<1> QED BY <1>1, <1>2, <1>3, PTL DEF RequestsSpec

(* The dialog knows exactly the calls that wait for a step-up, so that its *)
(* completion, its timer, a logout and the page's end settle all of them.  *)
THEOREM NobodyIsForgotten == RequestsSpec => []NobodyIsLost
<1>1. RequestsInit => RequestsInv
    BY InitHolds
<1>2. RequestsInv /\ [RequestsNext]_requestVars => RequestsInv'
    BY StepKeeps
<1>3. RequestsInv => NobodyIsLost
    BY DEF RequestsInv, CallsInv
<1> QED BY <1>1, <1>2, <1>3, PTL DEF RequestsSpec
=============================================================================
