------------------------- MODULE CryptoCalls_proofs -------------------------
(***************************************************************************)
(* AnsweredOnce holds for any calls, functions, platforms, keys objects    *)
(* and bounds: however the operations of all calls interleave and          *)
(* whichever of them fail.  The argument is that a call which has made a   *)
(* callback has no operation left (Finished), and that every operation     *)
(* leads on by Proceed, Rejected, Refused or Misused.  CutIsPrefix holds   *)
(* too, for what decode makes of any beginning of any message.             *)
(***************************************************************************)
EXTENDS CryptoCalls, Packing_proofs, TLAPS

\* The members of a call.
Shaped(r) ==
    \E fn, on, args, todo, held, said, failed, threw :
        r = [fn |-> fn, on |-> on, args |-> args, todo |-> todo, bag |-> held,
             said |-> said, failed |-> failed, threw |-> threw]

\* A call that has made a callback is finished, and made one only, unless a
\* callback threw.  A call that failed has made one.
Answers == {<< >>, <<"ok">>, <<"error">>, <<"ok", "error">>, <<"error", "error">>}
Finished(r) ==
    /\ r.said # << >> =>
        /\ r.todo = << >>
        /\ \/ \E what : r.said = <<what>>
           \/ r.threw = TRUE
    /\ r.said \in Answers
    /\ r.failed => r.said # << >>
\* A call is one of its functions.
Named(c, r) == r.fn \in Functions[c] \cup {"none"}

OnceInv ==
    /\ calls = [c \in Calls |-> calls[c]]
    /\ \A c \in Calls : Shaped(calls[c]) /\ Finished(calls[c]) /\ Named(c, calls[c])

----------------------------------------------------------------------------
\* What a change of the operations left leaves.  (The provers know records whose
\* members they can see: hence the literals l and n.)
LEMMA SetTodo ==
    ASSUME NEW r, Shaped(r), NEW x
    PROVE  /\ Shaped([r EXCEPT !.todo = x])
           /\ [r EXCEPT !.todo = x].todo = x
           /\ [r EXCEPT !.todo = x].said = r.said
           /\ [r EXCEPT !.todo = x].threw = r.threw
           /\ [r EXCEPT !.todo = x].fn = r.fn
           /\ [r EXCEPT !.todo = x].failed = r.failed
<1>1. PICK fn, on, args, todo, held, said, failed, threw :
        r = [fn |-> fn, on |-> on, args |-> args, todo |-> todo, bag |-> held,
             said |-> said, failed |-> failed, threw |-> threw]
  BY Zenon DEF Shaped
<1> DEFINE l == [fn |-> fn, on |-> on, args |-> args, todo |-> todo, bag |-> held,
                 said |-> said, failed |-> failed, threw |-> threw]
           n == [fn |-> fn, on |-> on, args |-> args, todo |-> x, bag |-> held,
                 said |-> said, failed |-> failed, threw |-> threw]
<1>2. [l EXCEPT !.todo = x] = n
  OBVIOUS
<1>3. /\ n.todo = x /\ n.said = said /\ n.threw = threw
      /\ n.fn = fn /\ n.failed = failed
  BY Zenon
<1>4. /\ l.todo = todo /\ l.said = said /\ l.threw = threw
      /\ l.fn = fn /\ l.failed = failed
  BY Zenon
<1>5. Shaped(n)
  BY Zenon DEF Shaped
<1>6. r = l
  BY <1>1, Zenon
<1> HIDE DEF l, n
<1>7. [r EXCEPT !.todo = x] = n
  BY <1>2, <1>6, Zenon
<1>8. QED
  BY <1>3, <1>4, <1>5, <1>6, <1>7, Zenon

\* What a change of the bag leaves.
LEMMA SetBag ==
    ASSUME NEW r, Shaped(r), NEW x
    PROVE  /\ Shaped([r EXCEPT !.bag = x])
           /\ [r EXCEPT !.bag = x].todo = r.todo
           /\ [r EXCEPT !.bag = x].said = r.said
           /\ [r EXCEPT !.bag = x].threw = r.threw
           /\ [r EXCEPT !.bag = x].fn = r.fn
           /\ [r EXCEPT !.bag = x].failed = r.failed
<1>1. PICK fn, on, args, todo, held, said, failed, threw :
        r = [fn |-> fn, on |-> on, args |-> args, todo |-> todo, bag |-> held,
             said |-> said, failed |-> failed, threw |-> threw]
  BY Zenon DEF Shaped
<1> DEFINE l == [fn |-> fn, on |-> on, args |-> args, todo |-> todo, bag |-> held,
                 said |-> said, failed |-> failed, threw |-> threw]
           n == [fn |-> fn, on |-> on, args |-> args, todo |-> todo, bag |-> x,
                 said |-> said, failed |-> failed, threw |-> threw]
<1>2. [l EXCEPT !.bag = x] = n
  OBVIOUS
<1>3. /\ n.todo = todo /\ n.said = said /\ n.threw = threw
      /\ n.fn = fn /\ n.failed = failed
  BY Zenon
<1>4. /\ l.todo = todo /\ l.said = said /\ l.threw = threw
      /\ l.fn = fn /\ l.failed = failed
  BY Zenon
<1>5. Shaped(n)
  BY Zenon DEF Shaped
<1>6. r = l
  BY <1>1, Zenon
<1> HIDE DEF l, n
<1>7. [r EXCEPT !.bag = x] = n
  BY <1>2, <1>6, Zenon
<1>8. QED
  BY <1>3, <1>4, <1>5, <1>6, <1>7, Zenon

\* What a change of the callbacks made leaves.
LEMMA SetSaid ==
    ASSUME NEW r, Shaped(r), NEW x
    PROVE  /\ Shaped([r EXCEPT !.said = x])
           /\ [r EXCEPT !.said = x].todo = r.todo
           /\ [r EXCEPT !.said = x].said = x
           /\ [r EXCEPT !.said = x].threw = r.threw
           /\ [r EXCEPT !.said = x].fn = r.fn
           /\ [r EXCEPT !.said = x].failed = r.failed
<1>1. PICK fn, on, args, todo, held, said, failed, threw :
        r = [fn |-> fn, on |-> on, args |-> args, todo |-> todo, bag |-> held,
             said |-> said, failed |-> failed, threw |-> threw]
  BY Zenon DEF Shaped
<1> DEFINE l == [fn |-> fn, on |-> on, args |-> args, todo |-> todo, bag |-> held,
                 said |-> said, failed |-> failed, threw |-> threw]
           n == [fn |-> fn, on |-> on, args |-> args, todo |-> todo, bag |-> held,
                 said |-> x, failed |-> failed, threw |-> threw]
<1>2. [l EXCEPT !.said = x] = n
  OBVIOUS
<1>3. /\ n.todo = todo /\ n.said = x /\ n.threw = threw
      /\ n.fn = fn /\ n.failed = failed
  BY Zenon
<1>4. /\ l.todo = todo /\ l.said = said /\ l.threw = threw
      /\ l.fn = fn /\ l.failed = failed
  BY Zenon
<1>5. Shaped(n)
  BY Zenon DEF Shaped
<1>6. r = l
  BY <1>1, Zenon
<1> HIDE DEF l, n
<1>7. [r EXCEPT !.said = x] = n
  BY <1>2, <1>6, Zenon
<1>8. QED
  BY <1>3, <1>4, <1>5, <1>6, <1>7, Zenon

\* What a note of the failure leaves.
LEMMA SetFailed ==
    ASSUME NEW r, Shaped(r), NEW x
    PROVE  /\ Shaped([r EXCEPT !.failed = x])
           /\ [r EXCEPT !.failed = x].todo = r.todo
           /\ [r EXCEPT !.failed = x].said = r.said
           /\ [r EXCEPT !.failed = x].threw = r.threw
           /\ [r EXCEPT !.failed = x].fn = r.fn
           /\ [r EXCEPT !.failed = x].failed = x
<1>1. PICK fn, on, args, todo, held, said, failed, threw :
        r = [fn |-> fn, on |-> on, args |-> args, todo |-> todo, bag |-> held,
             said |-> said, failed |-> failed, threw |-> threw]
  BY Zenon DEF Shaped
<1> DEFINE l == [fn |-> fn, on |-> on, args |-> args, todo |-> todo, bag |-> held,
                 said |-> said, failed |-> failed, threw |-> threw]
           n == [fn |-> fn, on |-> on, args |-> args, todo |-> todo, bag |-> held,
                 said |-> said, failed |-> x, threw |-> threw]
<1>2. [l EXCEPT !.failed = x] = n
  OBVIOUS
<1>3. /\ n.todo = todo /\ n.said = said /\ n.threw = threw
      /\ n.fn = fn /\ n.failed = x
  BY Zenon
<1>4. /\ l.todo = todo /\ l.said = said /\ l.threw = threw
      /\ l.fn = fn /\ l.failed = failed
  BY Zenon
<1>5. Shaped(n)
  BY Zenon DEF Shaped
<1>6. r = l
  BY <1>1, Zenon
<1> HIDE DEF l, n
<1>7. [r EXCEPT !.failed = x] = n
  BY <1>2, <1>6, Zenon
<1>8. QED
  BY <1>3, <1>4, <1>5, <1>6, <1>7, Zenon

\* What a note that a callback threw leaves.
LEMMA SetThrew ==
    ASSUME NEW r, Shaped(r), NEW x
    PROVE  /\ Shaped([r EXCEPT !.threw = x])
           /\ [r EXCEPT !.threw = x].todo = r.todo
           /\ [r EXCEPT !.threw = x].said = r.said
           /\ [r EXCEPT !.threw = x].threw = x
           /\ [r EXCEPT !.threw = x].fn = r.fn
           /\ [r EXCEPT !.threw = x].failed = r.failed
<1>1. PICK fn, on, args, todo, held, said, failed, threw :
        r = [fn |-> fn, on |-> on, args |-> args, todo |-> todo, bag |-> held,
             said |-> said, failed |-> failed, threw |-> threw]
  BY Zenon DEF Shaped
<1> DEFINE l == [fn |-> fn, on |-> on, args |-> args, todo |-> todo, bag |-> held,
                 said |-> said, failed |-> failed, threw |-> threw]
           n == [fn |-> fn, on |-> on, args |-> args, todo |-> todo, bag |-> held,
                 said |-> said, failed |-> failed, threw |-> x]
<1>2. [l EXCEPT !.threw = x] = n
  OBVIOUS
<1>3. /\ n.todo = todo /\ n.said = said /\ n.threw = x
      /\ n.fn = fn /\ n.failed = failed
  BY Zenon
<1>4. /\ l.todo = todo /\ l.said = said /\ l.threw = threw
      /\ l.fn = fn /\ l.failed = failed
  BY Zenon
<1>5. Shaped(n)
  BY Zenon DEF Shaped
<1>6. r = l
  BY <1>1, Zenon
<1> HIDE DEF l, n
<1>7. [r EXCEPT !.threw = x] = n
  BY <1>2, <1>6, Zenon
<1>8. QED
  BY <1>3, <1>4, <1>5, <1>6, <1>7, Zenon

----------------------------------------------------------------------------
\* A step that gives one call a new, good record keeps the invariant.
LEMMA ReplaceCall ==
    ASSUME OnceInv, NEW c \in Calls, NEW r, Shaped(r), Finished(r), Named(c, r),
           calls' = [calls EXCEPT ![c] = r]
    PROVE  OnceInv'
<1>1. calls' = [d \in Calls |-> IF d = c THEN r ELSE calls[d]]
  BY DEF OnceInv
<1>2. \A d \in Calls : calls'[d] = IF d = c THEN r ELSE calls[d]
  BY <1>1
<1>3. calls' = [d \in Calls |-> calls'[d]]
  BY <1>1
<1>4. ASSUME NEW d \in Calls
      PROVE  (Shaped(calls[d]) /\ Finished(calls[d]) /\ Named(d, calls[d]))'
  <2>1. CASE d = c
    <3>1. calls'[d] = r
      BY <1>2, <2>1, Zenon
    <3>2. Shaped(calls'[d]) /\ Finished(calls'[d]) /\ Named(d, calls'[d])
      BY <2>1, <3>1, Zenon
    <3>3. QED
      BY <3>2, Zenon DEF Shaped, Finished, Named
  <2>2. CASE d # c
    <3>1. calls'[d] = calls[d]
      BY <1>2, <2>2, Zenon
    <3>2. Shaped(calls'[d]) /\ Finished(calls'[d]) /\ Named(d, calls'[d])
      BY <3>1, Zenon DEF OnceInv
    <3>3. QED
      BY <3>2, Zenon DEF Shaped, Finished, Named
  <2>3. QED
    BY <2>1, <2>2
<1>5. QED
  BY <1>3, <1>4 DEF OnceInv

\* A callback ends its call, whatever the application does in it.
LEMMA AnswerOnce ==
    ASSUME OnceInv, NEW c \in Calls, NEW r, Shaped(r), r.said = << >>, Named(c, r),
           NEW what \in {"ok", "error"}, NEW fromHandler,
           AnswerWith(c, r, what, fromHandler)
    PROVE  OnceInv'
<1>1. PICK threw \in {FALSE} \cup {TRUE : x \in {c} \cap Careless} :
        calls' = [calls EXCEPT ![c] =
            [r EXCEPT !.todo = << >>, !.threw = threw,
                !.said = @ \o (IF threw /\ fromHandler /\ r.on # "oldIE"
                               THEN <<what, "error">> ELSE <<what>>)]]
  BY Zenon DEF AnswerWith
<1> DEFINE news == IF threw /\ fromHandler /\ r.on # "oldIE"
                   THEN <<what, "error">> ELSE <<what>>
           r1 == [r EXCEPT !.todo = << >>]
           r2 == [r1 EXCEPT !.threw = threw]
           r3 == [r2 EXCEPT !.said = r.said \o news]
<1>2. threw \in BOOLEAN
  OBVIOUS
<1> DEFINE words == Seq({what, "error"})
<1>3. news \in words
  <2>1. <<what>> \in words /\ <<what, "error">> \in words
    OBVIOUS
  <2>2. QED
    BY <2>1, Zenon
<1>4. \/ \E w : news = <<w>>
      \/ threw = TRUE
  BY <1>2
<1>5. calls' = [calls EXCEPT ![c] = r3]
  BY <1>1, Zenon
<1>12. news \in Answers /\ news # << >>
  BY DEF Answers
<1> HIDE DEF news
<1>6. << >> \o news = news
  BY <1>3
<1>7. Shaped(r1) /\ r1.todo = << >> /\ r1.fn = r.fn
  BY SetTodo, Zenon
<1> HIDE DEF r1
<1>8. Shaped(r2) /\ r2.todo = << >> /\ r2.threw = threw /\ r2.fn = r.fn
  <2>1. /\ Shaped(r2) /\ r2.todo = r1.todo /\ r2.threw = threw
        /\ r2.fn = r1.fn
    BY <1>7, SetThrew, ZenonT(30)
  <2>2. QED
    BY <1>7, <2>1, Zenon
<1> HIDE DEF r2
<1>9. /\ Shaped(r3) /\ r3.fn = r.fn
      /\ r3.todo = << >> /\ r3.threw = threw /\ r3.said = r.said \o news
  <2>1. /\ Shaped(r3) /\ r3.todo = r2.todo /\ r3.threw = r2.threw
        /\ r3.said = r.said \o news /\ r3.fn = r2.fn
    BY <1>8, SetSaid
  <2>2. QED
    BY <1>8, <2>1, Zenon
<1> HIDE DEF r3
<1>10. Finished(r3) /\ Named(c, r3)
  BY <1>4, <1>6, <1>9, <1>12, Zenon DEF Finished, Named
<1>11. QED
  BY <1>5, <1>9, <1>10, ReplaceCall, Zenon

\* A call that has operations left has made no callback.
LEMMA OpenHasNotSaid ==
    ASSUME OnceInv, NEW c \in Calls, calls[c].todo # << >>
    PROVE  /\ Shaped(calls[c]) /\ calls[c].said = << >>
           /\ Named(c, calls[c]) /\ ~calls[c].failed
BY Zenon DEF OnceInv, Finished

\* So it may go on with other operations or another bag.
LEMMA MayGoOn ==
    ASSUME OnceInv, NEW c \in Calls, calls[c].todo # << >>,
           NEW r, Shaped(r), r.said = calls[c].said, r.fn = calls[c].fn,
           r.failed = calls[c].failed
    PROVE  r.said = << >> /\ Named(c, r) /\ Finished(r)
<1>1. << >> \in Answers
  BY DEF Answers
<1>2. QED
  BY <1>1, OpenHasNotSaid, Zenon DEF Finished, Named

\* The chain goes on, or ends with one callback.
LEMMA ProceedOnce ==
    ASSUME OnceInv, NEW c \in Calls, calls[c].todo # << >>,
           NEW new, Proceed(c, new)
    PROVE  OnceInv'
<1> DEFINE rest == Unfold(Tail(calls[c].todo), cached'[KeysObject(c)])
           r1 == [calls[c] EXCEPT !.todo = rest]
           call == [r1 EXCEPT !.bag = With(new, calls[c].bag)]
<1>1. \/ AnswerWith(c, call, "ok", TRUE)
      \/ calls' = [calls EXCEPT ![c] = call]
  BY Zenon DEF Proceed
<1>2. Shaped(calls[c])
  BY OpenHasNotSaid, Zenon
<1> HIDE DEF rest
<1>3. /\ Shaped(r1) /\ r1.said = calls[c].said /\ r1.fn = calls[c].fn
      /\ r1.failed = calls[c].failed
  BY <1>2, SetTodo, Zenon
<1> HIDE DEF r1
<1>4. /\ Shaped(call) /\ call.said = calls[c].said /\ call.fn = calls[c].fn
      /\ call.failed = calls[c].failed
  BY <1>3, SetBag, Zenon
<1> HIDE DEF call
<1>5. call.said = << >> /\ Named(c, call) /\ Finished(call)
  BY <1>4, MayGoOn, Zenon
<1>6. CASE AnswerWith(c, call, "ok", TRUE)
  BY <1>4, <1>5, <1>6, AnswerOnce
<1>7. CASE calls' = [calls EXCEPT ![c] = call]
  BY <1>4, <1>5, <1>7, ReplaceCall
<1>8. QED
  BY <1>1, <1>6, <1>7, Zenon

\* An operation that was rejected ends its call with one callback.
LEMMA RejectedOnce ==
    ASSUME OnceInv, NEW c \in Calls, calls[c].todo # << >>,
           NEW ownReason, Rejected(c, ownReason)
    PROVE  OnceInv'
<1> DEFINE r1 == [calls[c] EXCEPT !.failed = ownReason]
           r2 == [r1 EXCEPT !.bag = << >>]
<1>1. AnswerWith(c, r2, "error", FALSE)
  BY Zenon DEF Rejected
<1>0. Shaped(calls[c]) /\ calls[c].said = << >> /\ Named(c, calls[c])
  BY OpenHasNotSaid, Zenon
<1>2. Shaped(r1) /\ r1.said = << >> /\ r1.fn = calls[c].fn
  BY <1>0, SetFailed, Zenon
<1> HIDE DEF r1
<1>3. Shaped(r2) /\ r2.said = << >> /\ Named(c, r2)
  BY <1>0, <1>2, SetBag, Zenon DEF Named
<1> HIDE DEF r2
<1>4. QED
  BY <1>1, <1>3, AnswerOnce

\* So does a result that is a refusal.
LEMMA RefusedOnce ==
    ASSUME OnceInv, NEW c \in Calls, calls[c].todo # << >>, Refused(c)
    PROVE  OnceInv'
<1> DEFINE r == [calls[c] EXCEPT !.bag = << >>]
<1>1. AnswerWith(c, r, "error", TRUE)
  BY Zenon DEF Refused
<1>0. Shaped(calls[c]) /\ calls[c].said = << >> /\ Named(c, calls[c])
  BY OpenHasNotSaid, Zenon
<1>2. Shaped(r) /\ r.said = << >> /\ Named(c, r)
  BY <1>0, SetBag, Zenon DEF Named
<1> HIDE DEF r
<1>3. QED
  BY <1>1, <1>2, AnswerOnce

\* So does a misused operation, or it ends the call with none.
LEMMA MisusedOnce ==
    ASSUME OnceInv, NEW c \in Calls, calls[c].todo # << >>, Misused(c)
    PROVE  OnceInv'
<1> DEFINE r1 == [calls[c] EXCEPT !.todo = << >>]
           r2 == [r1 EXCEPT !.bag = << >>]
<1>1. CASE calls' = [calls EXCEPT ![c] = r2]
  <2>0. Shaped(calls[c])
    BY OpenHasNotSaid, Zenon
  <2>1. /\ Shaped(r1) /\ r1.said = calls[c].said /\ r1.fn = calls[c].fn
        /\ r1.failed = calls[c].failed
    BY <2>0, SetTodo, Zenon
  <2> HIDE DEF r1
  <2>2. /\ Shaped(r2) /\ r2.said = calls[c].said /\ r2.fn = calls[c].fn
        /\ r2.failed = calls[c].failed
    BY <2>1, SetBag, Zenon
  <2> HIDE DEF r2
  <2>3. Finished(r2) /\ Named(c, r2)
    BY <2>2, MayGoOn, Zenon
  <2>4. QED
    BY <1>1, <2>2, <2>3, ReplaceCall
<1>2. CASE Rejected(c, FALSE)
  BY <1>2, RejectedOnce
<1>3. QED
  BY <1>1, <1>2, Zenon DEF Misused

----------------------------------------------------------------------------
\* The first state and the steps.

\* No call has begun, so none has been answered.
LEMMA OnceInit == Init => OnceInv
<1> SUFFICES ASSUME Init PROVE OnceInv
  OBVIOUS
<1>1. calls = [c \in Calls |-> Idle]
  BY DEF Init
<1>2. Shaped(Idle)
  BY Zenon DEF Idle, Shaped
<1>3. Idle.said = << >> /\ ~Idle.failed /\ Idle.fn = "none" /\ << >> \in Answers
  BY DEF Idle, Answers
<1>4. Finished(Idle) /\ \A c \in Calls : Named(c, Idle)
  BY <1>3, Zenon DEF Finished, Named
<1>5. \A c \in Calls : calls[c] = Idle
  BY <1>1
<1>6. calls = [c \in Calls |-> calls[c]]
  BY <1>1
<1>7. QED
  BY <1>2, <1>4, <1>5, <1>6, Zenon DEF OnceInv

\* A call begins with operations to do or is answered at once, with one
\* callback.
LEMMA StartOnce ==
    ASSUME OnceInv, NEW c \in Calls, Start(c)
    PROVE  OnceInv'
<1>1. PICK fn, p, args, held, todo, said :
        /\ fn \in Functions[c]
        /\ said = <<"error">> \/ said = <<"ok">> \/ said = << >>
        /\ calls' = [calls EXCEPT ![c] = Begun(fn, p, args, held, said, todo)]
  BY Zenon DEF Start
<1> DEFINE left == IF said = << >> THEN todo ELSE << >>
           r == [fn |-> fn, on |-> p, args |-> args, bag |-> held,
                 said |-> said, todo |-> left, failed |-> FALSE, threw |-> FALSE]
<1>2. Shaped(r)
  BY Zenon DEF Shaped
<1>3. r.said = said /\ r.todo = left /\ r.fn = fn /\ ~r.failed
  OBVIOUS
<1>4. said # << >> => left = << >>
  OBVIOUS
<1>5. calls' = [calls EXCEPT ![c] = r]
  BY <1>1, Zenon DEF Begun
<1> HIDE DEF r, left
<1>8. said \in Answers
  BY <1>1 DEF Answers
<1>6. Finished(r) /\ Named(c, r)
  BY <1>1, <1>3, <1>4, <1>8, Zenon DEF Finished, Named
<1>7. QED
  BY <1>2, <1>5, <1>6, ReplaceCall

\* When the platform refuses passwordToKey the chain goes on compatibly.
LEMMA PasswordToKeyOnce ==
    ASSUME OnceInv, NEW c \in Calls, passwordToKey(c)
    PROVE  OnceInv'
<1>1. calls[c].todo # << >>
  BY Zenon DEF passwordToKey, Does, Pending
<1> DEFINE chain == CompatDerive \o SubSeq(calls[c].todo, 3, Len(calls[c].todo))
           r == [calls[c] EXCEPT !.todo = chain]
<1>2. CASE Proceed(c, << >>)
  BY <1>1, <1>2, ProceedOnce
<1>3. CASE calls' = [calls EXCEPT ![c] = r]
  <2> HIDE DEF chain
  <2>0. Shaped(calls[c])
    BY <1>1, OpenHasNotSaid, Zenon
  <2>1. /\ Shaped(r) /\ r.said = calls[c].said /\ r.fn = calls[c].fn
        /\ r.failed = calls[c].failed
    BY <2>0, SetTodo, Zenon
  <2> HIDE DEF r
  <2>2. Finished(r) /\ Named(c, r)
    BY <1>1, <2>1, MayGoOn, Zenon
  <2>3. QED
    BY <1>3, <2>1, <2>2, ReplaceCall
<1>4. QED
  BY <1>2, <1>3, Zenon DEF passwordToKey

\* A round of the HMAC loop leaves the callbacks and the operations alone.
LEMMA HmacBlockOnce ==
    ASSUME OnceInv, NEW c \in Calls, hmacBlock(c)
    PROVE  OnceInv'
<1>1. calls[c].todo # << >>
  BY Zenon DEF hmacBlock, Does, Pending
<1>2. PICK new :
        \/ Proceed(c, new)
        \/ calls' = [calls EXCEPT ![c] = [calls[c] EXCEPT !.bag = new]]
  BY Zenon DEF hmacBlock
<1> DEFINE r == [calls[c] EXCEPT !.bag = new]
<1>3. CASE Proceed(c, new)
  BY <1>1, <1>3, ProceedOnce
<1>4. CASE calls' = [calls EXCEPT ![c] = r]
  <2>0. Shaped(calls[c])
    BY <1>1, OpenHasNotSaid, Zenon
  <2>1. /\ Shaped(r) /\ r.said = calls[c].said /\ r.fn = calls[c].fn
        /\ r.failed = calls[c].failed
    BY <2>0, SetBag, Zenon
  <2> HIDE DEF r
  <2>2. Finished(r) /\ Named(c, r)
    BY <1>1, <2>1, MayGoOn, Zenon
  <2>3. QED
    BY <1>4, <2>1, <2>2, ReplaceCall
<1>5. QED
  BY <1>2, <1>3, <1>4, Zenon

\* However an operation settles, the invariant stays.
LEMMA SettlesOnce ==
    ASSUME OnceInv, NEW c \in Calls, Settles(c)
    PROVE  OnceInv'
<1>1. CASE generateKeyAES(c)
  BY <1>1, ProceedOnce, Zenon DEF generateKeyAES, Does, Pending
<1>2. CASE generateKeyHMAC(c)
  BY <1>2, ProceedOnce, Zenon DEF generateKeyHMAC, Does, Pending
<1>3. CASE symExportKey(c)
  BY <1>3, ProceedOnce, Zenon DEF symExportKey, Does, Pending
<1>4. CASE importKeyAES(c)
  BY <1>4, ProceedOnce, Zenon DEF importKeyAES, importKey, Pending
<1>5. CASE importKeyHMAC(c)
  BY <1>5, ProceedOnce, Zenon DEF importKeyHMAC, importKey, Pending
<1>6. CASE encryptAES(c)
  BY <1>6, ProceedOnce, MisusedOnce, Zenon DEF encryptAES, Does, Pending
<1>7. CASE signHMAC(c)
  BY <1>7, ProceedOnce, MisusedOnce, Zenon DEF signHMAC, Does, Pending
<1>8. CASE verifyHMAC(c)
  BY <1>8, ProceedOnce, RefusedOnce, MisusedOnce, Zenon
     DEF verifyHMAC, Does, Pending
<1>9. CASE decryptAES(c)
  BY <1>9, ProceedOnce, RejectedOnce, MisusedOnce, Zenon
     DEF decryptAES, Does, Pending
<1>10. CASE encryptRSA(c)
  BY <1>10, ProceedOnce, RejectedOnce, Zenon DEF encryptRSA, Does, Pending
<1>11. CASE sign(c)
  BY <1>11, ProceedOnce, Zenon DEF sign, Does, Pending
<1>12. CASE decryptRSA(c)
  BY <1>12, ProceedOnce, RefusedOnce, MisusedOnce, Zenon
     DEF decryptRSA, ProceedWithKeys, Does, Pending
<1>13. CASE verifySignature(c)
  BY <1>13, ProceedOnce, RefusedOnce, MisusedOnce, Zenon
     DEF verifySignature, ProceedWithKeys, Does, Pending
<1>14. CASE generateRsaKeys(c)
  BY <1>14, ProceedOnce, Zenon DEF generateRsaKeys, Does, Pending
<1>15. CASE asymExportKey(c)
  BY <1>15, ProceedOnce, Zenon DEF asymExportKey, Does, Pending
<1>16. CASE asymImportKey(c)
  BY <1>16, ProceedOnce, RejectedOnce, Zenon DEF asymImportKey, Does, Pending
<1>17. CASE passwordToKey(c)
  BY <1>17, PasswordToKeyOnce
<1>18. CASE deriveBits(c)
  BY <1>18, ProceedOnce, Zenon DEF deriveBits, Does, Pending
<1>19. CASE importPassword(c)
  BY <1>19, ProceedOnce, Zenon DEF importPassword, Does, Pending
<1>20. CASE hmacBlock(c)
  BY <1>20, HmacBlockOnce
<1>21. CASE fails(c)
  BY <1>21, RejectedOnce, Zenon DEF fails
<1>22. QED
  BY <1>1, <1>2, <1>3, <1>4, <1>5, <1>6, <1>7, <1>8, <1>9, <1>10, <1>11,
     <1>12, <1>13, <1>14, <1>15, <1>16, <1>17, <1>18, <1>19, <1>20, <1>21,
     Zenon DEF Settles

\* Nothing that may happen breaks the invariant.
LEMMA OnceStep == OnceInv /\ [Next]_vars => OnceInv'
<1> SUFFICES ASSUME OnceInv, [Next]_vars PROVE OnceInv'
  OBVIOUS
<1>1. CASE Next
  <2>1. PICK c \in Calls : Start(c) \/ Settles(c)
    BY <1>1, Zenon DEF Next
  <2>2. QED
    BY <2>1, StartOnce, SettlesOnce, Zenon
<1>2. CASE UNCHANGED vars
  <2>1. calls' = calls
    BY <1>2 DEF vars
  <2>2. calls' = [c \in Calls |-> calls'[c]]
    BY <2>1 DEF OnceInv
  <2>3. ASSUME NEW c \in Calls
        PROVE  (Shaped(calls[c]) /\ Finished(calls[c]) /\ Named(c, calls[c]))'
    <3>1. Shaped(calls'[c]) /\ Finished(calls'[c]) /\ Named(c, calls'[c])
      BY <2>1, Zenon DEF OnceInv
    <3>2. QED
      BY <3>1, Zenon DEF Shaped, Finished, Named
  <2>4. QED
    BY <2>2, <2>3 DEF OnceInv
<1>3. QED
  BY <1>1, <1>2

\* In every reachable state a call that was answered has nothing left to do.
THEOREM OnceInvariant == Spec => []OnceInv
BY OnceInit, OnceStep, PTL DEF Spec

\* A call of the library makes one callback, onError or onSuccess, unless the
\* application's own callback threw: for any calls, pages, platforms, keys
\* objects and messages (wrap and the promise chains of simplecrypto.js).
THEOREM CallsAnsweredOnce == Spec => []AnsweredOnce
<1>1. OnceInv => AnsweredOnce
  <2> SUFFICES ASSUME OnceInv, NEW c \in Calls, Len(calls[c].said) > 1
              PROVE  calls[c].threw
    BY Zenon DEF AnsweredOnce
  <2>1. Finished(calls[c])
    BY Zenon DEF OnceInv
  <2>2. CASE calls[c].said = << >>
    BY <2>2
  <2>3. CASE \E what : calls[c].said = <<what>>
    BY <2>3
  <2>4. QED
    BY <2>1, <2>2, <2>3, Zenon DEF Finished
<1>2. QED
  BY <1>1, OnceInvariant, PTL

----------------------------------------------------------------------------
\* A keys object holds no more than two imported keys.
CachedOK == cached \in [Rings \cup Calls -> SUBSET Both]

\* The keys objects of the first state hold none, and an import adds one of the
\* two.
LEMMA CachedInit == Init => CachedOK
BY DEF Init, CachedOK

\* And every step keeps to these two.
LEMMA CachedStep == CachedOK /\ [Next]_vars => CachedOK'
<1> SUFFICES ASSUME CachedOK, [Next]_vars PROVE CachedOK'
  OBVIOUS
<1>1. ASSUME NEW c, NEW op, NEW half \in Both, importKey(c, op, half)
      PROVE  CachedOK'
  BY <1>1 DEF importKey, CachedOK
<1>2. ASSUME cached' = cached PROVE CachedOK'
  BY <1>2 DEF CachedOK
<1>3. "aes" \in Both /\ "hmac" \in Both
  BY DEF Both
<1>4. ASSUME NEW c \in Calls, Settles(c) PROVE CachedOK'
  <2>1. CASE importKeyAES(c) \/ importKeyHMAC(c)
    BY <1>1, <1>3, <2>1, Zenon DEF importKeyAES, importKeyHMAC
  <2>2. CASE ~importKeyAES(c) /\ ~importKeyHMAC(c)
    <3>1. cached' = cached
      BY <1>4, <2>2, Zenon
      DEF Settles, Does, generateKeyAES, generateKeyHMAC, symExportKey, encryptAES,
          signHMAC, verifyHMAC, decryptAES, encryptRSA, sign, decryptRSA,
          verifySignature, generateRsaKeys, asymExportKey, asymImportKey,
          passwordToKey, deriveBits, importPassword, hmacBlock, fails
    <3>2. QED
      BY <1>2, <3>1
  <2>3. QED
    BY <2>1, <2>2
<1>5. ASSUME NEW c \in Calls, Start(c) PROVE CachedOK'
  BY <1>2, <1>5, Zenon DEF Start
<1>6. QED
  BY <1>2, <1>4, <1>5 DEF Next, vars

\* Every reachable state of the calls is well typed: a call that was answered
\* has nothing left to do, one that failed was answered, and every answer is one
\* of the five that callbacks and catch can make.
THEOREM WellTyped == Spec => []TypeOK
<1>1. OnceInv /\ CachedOK => TypeOK
  BY Zenon DEF OnceInv, CachedOK, Finished, Named, Answers, TypeOK
<1>2. QED
  BY <1>1, OnceInvariant, CachedInit, CachedStep, PTL DEF Spec

----------------------------------------------------------------------------
(* What decode makes of the messages of the calls.                         *)

\* The items of a message, as encode takes them.
Items(labels, held) ==
    [i \in DOMAIN labels |-> [label |-> labels[i], data |-> <<held[labels[i]]>>]]

LEMMA ItemsFacts ==
    ASSUME NEW labels \in Seq(DOMAIN LABEL_TO_INDEX), NEW held
    PROVE  \E V :
            /\ Nat \subseteq V /\ Items(labels, held) \in Seq(Item(V))
            /\ Len(Items(labels, held)) = Len(labels)
            /\ \A i \in 1..Len(labels) : Items(labels, held)[i] =
                    [label |-> labels[i], data |-> <<held[labels[i]]>>]
<1> DEFINE V == Nat \cup {held[l] : l \in DOMAIN LABEL_TO_INDEX}
           items == Items(labels, held)
           n == Len(labels)
<1>1. n \in Nat /\ DOMAIN labels = 1..n
  OBVIOUS
<1>2. ASSUME NEW i \in 1..n
      PROVE  [label |-> labels[i], data |-> <<held[labels[i]]>>] \in Item(V)
  <2>1. labels[i] \in DOMAIN LABEL_TO_INDEX
    BY <1>1
  <2>2. held[labels[i]] \in V
    BY <2>1
  <2> HIDE DEF V
  <2>3. <<held[labels[i]]>> \in Seq(V)
    BY <2>2
  <2>4. QED
    BY <2>1, <2>3 DEF Item
<1>3. Nat \subseteq V
  OBVIOUS
<1> HIDE DEF V
<1>4. items = [i \in 1..n |-> [label |-> labels[i], data |-> <<held[labels[i]]>>]]
  BY <1>1 DEF Items
<1> HIDE DEF items
<1>5. items \in Seq(Item(V))
  <2>1. items \in [1..n -> Item(V)]
    BY <1>2, <1>4
  <2>2. QED
    BY <1>1, <2>1, SeqDef
<1>6. Len(items) = n
  <2>1. DOMAIN items = 1..n
    BY <1>4
  <2>2. QED
    BY <1>1, <1>5, <2>1, LenProperties
<1>7. \A i \in 1..n : items[i] = [label |-> labels[i], data |-> <<held[labels[i]]>>]
  BY <1>4
<1>8. QED
  BY <1>3, <1>5, <1>6, <1>7, Zenon DEF items

\* What is made of a beginning.
Begins(got, labels, held) ==
    got.ok => \A i \in DOMAIN got.items :
                /\ i \in DOMAIN labels
                /\ got.items[i] = [label |-> labels[i], data |-> <<held[labels[i]]>>]
Cuts(labels, held, buffer) ==
    /\ DOMAIN buffer = 1..Len(buffer)
    /\ \A n \in 1..Len(buffer) : \A got : got = decode(SubSeq(buffer, 1, n)) =>
        /\ Begins(got, labels, held)
        /\ n = Len(buffer) => got.ok /\ Len(got.items) = Len(labels)
LEMMA ItemsDecode ==
    ASSUME NEW labels \in Seq(DOMAIN LABEL_TO_INDEX), NEW held,
           NEW buffer, buffer = encode(Items(labels, held))
    PROVE  Cuts(labels, held, buffer)
<1> DEFINE items == Items(labels, held)
<1>1. PICK V : /\ Nat \subseteq V /\ items \in Seq(Item(V))
               /\ Len(items) = Len(labels)
               /\ \A i \in 1..Len(labels) :
                    items[i] = [label |-> labels[i], data |-> <<held[labels[i]]>>]
  BY ItemsFacts, Zenon
<1>2. Len(labels) \in Nat /\ DOMAIN labels = 1..Len(labels)
  OBVIOUS
<1> HIDE DEF items
<1>3. ASSUME NEW k \in 1..Len(items) PROVE Len(items[k].data) < ByteBase * Weight[4]
  <2>1. items[k].data = <<held[labels[k]]>>
    <3>1. k \in 1..Len(labels)
      BY <1>1, <1>3, Zenon
    <3>2. items[k] = [label |-> labels[k], data |-> <<held[labels[k]]>>]
      BY <1>1, <3>1, Zenon
    <3>3. QED
      BY <3>2
  <2>2. Len(items[k].data) = 1
    BY <2>1
  <2>3. 1 < ByteBase * Weight[4]
    <3>1. ByteBase \in Nat /\ ByteBase >= 2
      BY ByteBaseAssumption
    <3>2. ByteBase * ByteBase \in Nat /\ ByteBase * ByteBase >= 2
      BY <3>1
    <3>3. ByteBase * ByteBase * ByteBase \in Nat /\ ByteBase * ByteBase * ByteBase >= 2
      BY <3>1, <3>2
    <3>4. ByteBase * (ByteBase * ByteBase * ByteBase) >= 2
      BY <3>1, <3>3
    <3>5. QED
      BY <3>1, <3>3, <3>4 DEF Weight
  <2>4. QED
    BY <2>2, <2>3
<1>4. buffer \in Seq(V)
  BY <1>1, EncodeSeq DEF items
<1>5. ASSUME NEW n \in 1..Len(buffer), NEW got, got = decode(SubSeq(buffer, 1, n))
      PROVE  /\ Begins(got, labels, held)
             /\ n = Len(buffer) => got.ok /\ Len(got.items) = Len(labels)
  <2>0. buffer = encode(items)
    BY Zenon DEF items
  <2>1. /\ got.items \in Seq(Item(V))
        /\ got.ok => Follow(got.items, items, 0)
        /\ n = Len(buffer) => got.ok /\ Len(got.items) = Len(items)
    <3>1. n \in 1..Len(encode(items)) /\ got = decode(SubSeq(encode(items), 1, n))
      BY <1>5, <2>0, Zenon
    <3>2. /\ got.items \in Seq(Item(V))
          /\ got.ok => Follow(got.items, items, 0)
          /\ n = Len(encode(items)) => got.ok /\ Len(got.items) = Len(items)
      BY <1>1, <1>3, <3>1, BeginningsDecode
    <3>3. QED
      BY <2>0, <3>2, Zenon
  <2>2. ASSUME got.ok, NEW i \in DOMAIN got.items
        PROVE  /\ i \in DOMAIN labels
               /\ got.items[i] = [label |-> labels[i], data |-> <<held[labels[i]]>>]
    <3>1. Len(got.items) \in Nat /\ i \in 1..Len(got.items)
      BY <2>1, <2>2
    <3>2. Follow(got.items, items, 0)
      BY <2>1, <2>2, Zenon
    <3>3. 0 + Len(got.items) <= Len(items) /\ got.items[i] = items[0 + i]
      BY <3>1, <3>2, Zenon DEF Follow
    <3>4. i \in 1..Len(labels) /\ 0 + i = i
      BY <1>1, <1>2, <3>1, <3>3
    <3>5. QED
      BY <1>1, <1>2, <3>3, <3>4, Zenon
  <2>3. QED
    BY <1>1, <2>1, <2>2, Zenon DEF Begins
<1>6. QED
  BY <1>4, <1>5 DEF Cuts

\* The items of any call have labels of the format.
LEMMA LayoutLabels ==
    ASSUME NEW c
    PROVE  Layout(c) \in Seq(DOMAIN LABEL_TO_INDEX)
<1> DEFINE L == DOMAIN LABEL_TO_INDEX
           aes == IF "aesEncrypted" \in DOMAIN calls[c].bag
                  THEN <<"aesEncrypted", "hmac">> ELSE << >>
           rsa == <<"rsaEncrypted">>
           signed == <<"rsaEncrypted", "signatureOfData", "signatureOfEncrypted">>
           derived == <<"pbkdf2_salt", "pbkdf2_iter">>
<1>1. {"aesEncrypted", "hmac", "rsaEncrypted", "signatureOfData",
       "signatureOfEncrypted", "pbkdf2_salt", "pbkdf2_iter"} \subseteq L
  BY DEF LABEL_TO_INDEX
<1>2. /\ aes \in Seq(L) /\ rsa \in Seq(L) /\ signed \in Seq(L) /\ derived \in Seq(L)
  <2> HIDE DEF L
  <2>1. QED
    BY <1>1
<1>3. Layout(c) \in {rsa \o aes, signed \o aes, aes \o derived, aes}
  <2> DEFINE fn == calls[c].fn
  <2>1. Layout(c) = CASE fn = "asym.encrypt" -> rsa \o aes
                      [] fn = "encryptAndSign" -> signed \o aes
                      [] fn = "encryptWithPassword" -> aes \o derived
                      [] OTHER -> aes
    BY Zenon DEF Layout
  <2> HIDE DEF aes, rsa, signed, derived, fn
  <2>2. QED
    BY <2>1
<1> HIDE DEF L, aes, rsa, signed, derived
<1>4. \A x \in Seq(L) : \A y \in Seq(L) : x \o y \in Seq(L)
  OBVIOUS
<1>5. Layout(c) \in Seq(L)
  BY <1>2, <1>3, <1>4
<1>6. QED
  BY <1>5 DEF L

LEMMA PackedItems ==
    ASSUME NEW c PROVE Packed(c) = encode(Items(Layout(c), calls[c].bag))
BY Zenon DEF Packed, Items

\* Whatever part of a packed message arrives, decode makes its first items of
\* it, each as it was encoded, or throws; the whole message is read back whole:
\* for every call, every base and everything the closures of a call hold.
LEMMA CutsDecode == CutIsPrefix
<1> SUFFICES ASSUME NEW m, m \in Sent(Encrypts),
                    NEW n \in DOMAIN Packed(m),
                    NEW got, got = decode(SubSeq(Packed(m), 1, n))
             PROVE  /\ got.ok => \A i \in DOMAIN got.items :
                        got.items[i] = [label |-> Layout(m)[i],
                                        data  |-> <<Message(m)[Layout(m)[i]]>>]
                    /\ n = Len(Packed(m)) => got.ok /\ Len(got.items) = Len(Layout(m))
  BY Zenon DEF CutIsPrefix
<1> DEFINE labels == Layout(m)
           held == calls[m].bag
           buffer == Packed(m)
<1>1. labels \in Seq(DOMAIN LABEL_TO_INDEX) /\ buffer = encode(Items(labels, held))
  BY LayoutLabels, PackedItems
<1>2. ASSUME NEW i \in DOMAIN labels PROVE Message(m)[labels[i]] = held[labels[i]]
  <2>1. labels[i] \in Range(labels)
    BY Zenon DEF Range
  <2>2. QED
    BY <2>1, Zenon DEF Message
<1> HIDE DEF labels, held, buffer
<1>3. /\ DOMAIN buffer = 1..Len(buffer)
      /\ \A k \in 1..Len(buffer) : \A x : x = decode(SubSeq(buffer, 1, k)) =>
            /\ Begins(x, labels, held)
            /\ k = Len(buffer) => x.ok /\ Len(x.items) = Len(labels)
  <2>1. Cuts(labels, held, buffer)
    BY <1>1, ItemsDecode
  <2>2. QED
    BY <2>1, Zenon DEF Cuts
<1>4. n \in 1..Len(buffer) /\ got = decode(SubSeq(buffer, 1, n))
  BY <1>3, Zenon DEF buffer
<1>5. /\ Begins(got, labels, held)
      /\ n = Len(buffer) => got.ok /\ Len(got.items) = Len(labels)
  BY <1>3, <1>4, Zenon
<1>6. ASSUME got.ok, NEW i \in DOMAIN got.items
      PROVE  got.items[i] = [label |-> labels[i], data |-> <<Message(m)[labels[i]]>>]
  <2>1. /\ i \in DOMAIN labels
        /\ got.items[i] = [label |-> labels[i], data |-> <<held[labels[i]]>>]
    BY <1>5, <1>6, Zenon DEF Begins
  <2>2. QED
    BY <1>2, <2>1, Zenon
<1>7. QED
  BY <1>5, <1>6, Zenon DEF labels, buffer

\* So every behaviour of the calls keeps CutIsPrefix: what decode makes of a cut
\* message is what was encoded of it.
THEOREM CutsArePrefixes == Spec => []CutIsPrefix
BY CutsDecode, PTL
=============================================================================
