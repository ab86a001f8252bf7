-------------------------- MODULE AttachmentProofs --------------------------
(***************************************************************************)
(* Theorems about one client that follows one session, for every set of    *)
(* overlapping calls, every length of the log and of the buffers and every *)
(* number of faults.  The argument is about order: a call has one request  *)
(* or answer on its way, both directions keep their order, and whatever    *)
(* would stop or replace the pump of the client's current attachment was   *)
(* asked for before that attachment was.                                   *)
(***************************************************************************)
EXTENDS Attachment, TLAPS

Items(q) == {q[i] : i \in 1..Len(q)}

(* Something of the call is in the queue; it is there once; what is there of *)
(* one call comes before what is there of another.                           *)
Holds(q, c) == \E i \in 1..Len(q) : q[i].call = c

Unique(q) == \A i, j \in 1..Len(q) : q[i].call = q[j].call /\ q[i].call # None => i = j

Before(q, d, c) == \A i, j \in 1..Len(q) : q[i].call = d /\ q[j].call = c => i < j

Replaces == {"resume", "attach"}

(* Each request of another call that replaces the pump is followed by one of *)
(* this call.                                                                *)
Followed(q, c) ==
  \A i \in 1..Len(q) : q[i].op \in Replaces /\ q[i].call # c =>
    \E j \in 1..Len(q) : j > i /\ q[j].call = c

-----------------------------------------------------------------------------
(* The inductive invariant. *)

Begun == {"paging", "turning", "attaching", "done", "failed"}

Waiting == {"leaving", "clearing", "resuming", "paging", "turning", "attaching"}

Stages == {"idle", "asking", "ready", "done", "failed"} \cup Waiting

Requests ==
  [op : {"detach", "snapshot", "attach", "resume"}, call : Calls \cup {None},
   att : Calls, after : Nat]

Messages == [to : Calls \cup {None}, call : Calls \cup {None}, item : Nat, ok : BOOLEAN]

Pumps ==
  [id : Calls \cup {None}, after : Nat, on : BOOLEAN, buf : Seq(Nat), over : BOOLEAN]

Resumptions ==
  [call : Calls \cup {None}, prev : Calls \cup {None}, told : BOOLEAN, last : Nat]

USE DEF Pumps, Resumptions, NewResume

Typed ==
  /\ log \in Seq([gen : Nat, lost : BOOLEAN]) /\ gen \in Nat
  /\ pump \in Pumps
  /\ resuming \in Resumptions
  /\ up \in Seq(Requests) /\ attaching \in Seq(Requests) /\ down \in Seq(Messages)
  /\ stage \in [Calls -> Stages]
  /\ att \in Calls \cup {None}
  /\ view = [cursor |-> view.cursor, gen |-> view.gen, status |-> view.status]
  /\ view.cursor \in Nat

(* The stages in which a call waits for the answer of such a request.        *)
Asks(op) ==
  CASE op = "detach" -> {"leaving", "clearing"}
    [] op = "resume" -> {"resuming"}
    [] op = "snapshot" -> {"paging", "turning"}
    [] op = "attach" -> {"attaching"}

(* What is on its way belongs to a call that waits for it.                   *)
RequestsTrue ==
  /\ \A r \in Items(up) :
       /\ r.call # None => stage[r.call] \in Asks(r.op)
       /\ r.call = None => r.op = "detach"
       /\ r.op # "detach" => r.att = r.call
  /\ \A r \in Items(attaching) :
       r.op = "attach" /\ r.call # None /\ r.att = r.call /\ stage[r.call] = "attaching"
  /\ \A m \in Items(down) :
       /\ m.call # None => stage[m.call] \in Waiting
       /\ m.to # None => m.call = None
  /\ resuming.call # None => stage[resuming.call] = "resuming"

(* A call has one request or answer at a time.                               *)
OneToken ==
  /\ Unique(up) /\ Unique(attaching) /\ Unique(down)
  /\ \A c \in Calls :
       /\ Holds(up, c) => ~Holds(attaching, c) /\ ~Holds(down, c)
       /\ Holds(attaching, c) => ~Holds(down, c)
       /\ resuming.call = c => ~Holds(up, c) /\ ~Holds(down, c)

(* A call that leaves an attachment waits for the answer.                    *)
LeavingTrue == \A c \in Calls : stage[c] = "leaving" => Holds(up, c) \/ Holds(down, c)

(* An attachment that is given up is never the client's again.               *)
DetachTrue ==
  \A r \in Items(up) : r.op = "detach" => r.att # att /\ stage[r.att] \in Begun

(* The service feeds only attachments it was asked for.                      *)
Asked(x) == x # None => stage[x] \in {"attaching", "done", "failed"}

FeedsTrue ==
  /\ Asked(pump.id) /\ Asked(resuming.prev)
  /\ \A m \in Items(down) : Asked(m.to)

CurrentTrue == att # None => stage[att] \in {"paging", "turning", "attaching", "done"}

(* While the current attachment reads its history, the answers for which     *)
(* others wait before they resume come first.                                *)
Behind(d, c) ==
  /\ Before(up, d, c)
  /\ Holds(up, d) => ~Holds(down, c)
  /\ Before(down, d, c)

PagingTrue ==
  att # None /\ stage[att] \in {"paging", "turning"} =>
    \A d \in Calls : stage[d] = "leaving" => Behind(d, att)

(* Once it has asked to be attached, every request that would stop or        *)
(* replace its pump comes before its own.                                    *)
AttachedLast ==
  att # None /\ stage[att] \in {"attaching", "done"} =>
    /\ \A d \in Calls : stage[d] \notin {"leaving", "asking"}
    /\ Followed(up, att)
    /\ Holds(up, att) \/ Followed(attaching, att)

(* The service has attached the client's current attachment.                 *)
ServedNow ==
  /\ att # None
  /\ \/ stage[att] = "done"
     \/ stage[att] = "attaching" /\ \E m \in Items(down) : m.call = att /\ m.ok

Fed ==
  \/ pump.id = att /\ ~pump.over
  \/ \E m \in Items(down) : m.to = att /\ m.item = Resync

ServedTrue == ServedNow => resuming = NoResume /\ (view.status = "attached" => Fed)

(* Events are numbered by the log, and a history that is being read is not   *)
(* older than the view.                                                      *)
CursorsTrue ==
  LET n == Len(log) IN
  /\ view.cursor <= n /\ pump.after <= n /\ resuming.last <= n
  /\ \A e \in Items(pump.buf) : e <= n
  /\ \A m \in Items(down) : m.item <= n
  /\ \A r \in Items(up) \cup Items(attaching) : r.after <= n

HistoryTrue ==
  att # None /\ stage[att] \in {"paging", "turning"} =>
    /\ \A r \in Items(up) : r.call = att => r.after = 0 \/ r.after >= view.cursor
    /\ \A m \in Items(down) : m.call = att /\ m.ok => m.item >= view.cursor

TokensTrue == Typed /\ RequestsTrue /\ OneToken

IInv ==
  /\ TokensTrue /\ LeavingTrue /\ DetachTrue /\ FeedsTrue /\ CurrentTrue
  /\ PagingTrue /\ AttachedLast /\ ServedTrue /\ CursorsTrue /\ HistoryTrue

-----------------------------------------------------------------------------
(* Queues. *)

(* What is appended comes last.                                              *)
LEMMA Appended ==
  ASSUME NEW S, NEW q \in Seq(S), NEW m \in S
  PROVE  /\ Append(q, m) \in Seq(S)
         /\ Items(Append(q, m)) = Items(q) \cup {m}
<1>1. Append(q, m) \in Seq(S) /\ Len(Append(q, m)) = Len(q) + 1 /\ Len(q) \in Nat
  OBVIOUS
<1>2. /\ \A i \in 1..Len(q) : Append(q, m)[i] = q[i]
      /\ Append(q, m)[Len(q) + 1] = m
  OBVIOUS
<1>3. 1..(Len(q) + 1) = 1..Len(q) \cup {Len(q) + 1}
  BY <1>1
<1> QED
  BY <1>1, <1>2, <1>3 DEF Items

(* What is taken was there, and the rest keeps its places.                   *)
LEMMA Taken ==
  ASSUME NEW S, NEW q \in Seq(S), q # << >>
  PROVE  /\ Head(q) \in S /\ Head(q) \in Items(q) /\ Tail(q) \in Seq(S)
         /\ Items(Tail(q)) \subseteq Items(q)
         /\ Items(q) = Items(Tail(q)) \cup {Head(q)}
         /\ Head(q) = q[1]
         /\ Len(Tail(q)) = Len(q) - 1 /\ Len(q) \in Nat \ {0}
         /\ \A i \in 1..Len(Tail(q)) : Tail(q)[i] = q[i + 1] /\ i + 1 \in 1..Len(q)
<1>1. /\ Len(q) \in Nat \ {0} /\ Head(q) = q[1] /\ Tail(q) \in Seq(S)
      /\ Len(Tail(q)) = Len(q) - 1
  OBVIOUS
<1>2. \A i \in 1..Len(Tail(q)) : Tail(q)[i] = q[i + 1] /\ i + 1 \in 1..Len(q)
  BY <1>1
<1>3. Items(Tail(q)) \subseteq Items(q) /\ Head(q) \in Items(q) /\ Head(q) \in S
  BY <1>1, <1>2 DEF Items
<1>4. ASSUME NEW x \in Items(q) PROVE x \in Items(Tail(q)) \cup {Head(q)}
  <2>1. PICK i \in 1..Len(q) : x = q[i]
    BY DEF Items
  <2>2. CASE i = 1
    BY <1>1, <2>1, <2>2
  <2>3. CASE i # 1
    <3>1. i - 1 \in 1..Len(Tail(q)) /\ (i - 1) + 1 = i
      BY <1>1, <2>3
    <3>2. Tail(q)[i - 1] = q[i]
      BY <1>2, <3>1
    <3> QED
      BY <2>1, <3>1, <3>2 DEF Items
  <2> QED
    BY <2>2, <2>3
<1> QED
  BY <1>1, <1>2, <1>3, <1>4

(* The items of a queue have its type.                                       *)
LEMMA ItemsTyped ==
  ASSUME NEW S, NEW q \in Seq(S)
  PROVE  \A m \in Items(q) : m \in S
  BY DEF Items

(* A queue holds a call if one of its items is of that call.                 *)
LEMMA HoldsItem ==
  ASSUME NEW q, NEW c
  PROVE  Holds(q, c) <=> \E m \in Items(q) : m.call = c
  BY DEF Holds, Items

(* Appending to a queue in which the call has nothing.                       *)
LEMMA AppendedOrder ==
  ASSUME NEW S, NEW q \in Seq(S), NEW m \in S, Unique(q), m.call = None \/ ~Holds(q, m.call)
  PROVE  /\ Unique(Append(q, m))
         /\ \A c : Holds(Append(q, m), c) <=> Holds(q, c) \/ m.call = c
         /\ \A c, d : /\ Before(q, d, c)
                      /\ m.call = d => ~Holds(q, c) /\ c # d
                      => Before(Append(q, m), d, c)
         /\ \A c : m.call = c => Followed(Append(q, m), c)
         /\ \A c : Followed(q, c) /\ m.op \notin Replaces => Followed(Append(q, m), c)
<1> DEFINE p == Append(q, m)
<1>1. p \in Seq(S) /\ Len(p) = Len(q) + 1 /\ Len(q) \in Nat
  OBVIOUS
<1>2. /\ \A i \in 1..Len(q) : p[i] = q[i]
      /\ p[Len(q) + 1] = m
  OBVIOUS
<1>3. \A i \in 1..Len(p) : i \in 1..Len(q) \/ i = Len(q) + 1
  BY <1>1
<1>4. 1..Len(q) \subseteq 1..Len(p) /\ Len(q) + 1 \in 1..Len(p)
  BY <1>1
<1>5. \A i \in 1..Len(q) : i < Len(q) + 1
  BY <1>1
<1> HIDE DEF p
<1>6. Unique(p)
  BY <1>1, <1>2, <1>3, <1>5 DEF Unique, Holds
<1>7. \A c : Holds(p, c) <=> Holds(q, c) \/ m.call = c
  BY <1>2, <1>3, <1>4 DEF Holds
<1>8. ASSUME NEW c, NEW d, Before(q, d, c), m.call = d => ~Holds(q, c) /\ c # d
      PROVE  Before(p, d, c)
  BY <1>2, <1>3, <1>5, <1>8 DEF Before, Holds
<1>9. ASSUME NEW c, m.call = c PROVE Followed(p, c)
  <2> SUFFICES ASSUME NEW i \in 1..Len(p), p[i].op \in Replaces, p[i].call # c
               PROVE  \E j \in 1..Len(p) : j > i /\ p[j].call = c
    BY DEF Followed
  <2>1. i \in 1..Len(q) /\ Len(q) + 1 > i
    BY <1>1, <1>2, <1>3, <1>9
  <2> QED
    BY <1>2, <1>4, <1>9, <2>1
<1>10. ASSUME NEW c, Followed(q, c), m.op \notin Replaces PROVE Followed(p, c)
  BY <1>2, <1>3, <1>4, <1>10 DEF Followed
<1> QED
  BY <1>6, <1>7, <1>8, <1>9, <1>10 DEF p

(* Taking the first of a queue.                                              *)
LEMMA TakenOrder ==
  ASSUME NEW S, NEW q \in Seq(S), q # << >>, Unique(q)
  PROVE  /\ Unique(Tail(q))
         /\ Holds(q, Head(q).call)
         /\ Head(q).call # None => ~Holds(Tail(q), Head(q).call)
         /\ \A c : c # Head(q).call => (Holds(Tail(q), c) <=> Holds(q, c))
         /\ \A c : Holds(Tail(q), c) => Holds(q, c)
         /\ \A c, d : Before(q, d, c) => Before(Tail(q), d, c)
         /\ \A c, d : Before(q, d, c) /\ Head(q).call = c => ~Holds(q, d)
         /\ \A c : Followed(q, c) => Followed(Tail(q), c)
         /\ \A c : Followed(q, c) /\ Head(q).op \in Replaces => Holds(q, c)
<1> DEFINE p == Tail(q)
<1>1. /\ Len(q) \in Nat \ {0} /\ Head(q) = q[1] /\ Len(p) = Len(q) - 1
      /\ \A i \in 1..Len(p) : p[i] = q[i + 1] /\ i + 1 \in 1..Len(q)
  BY Taken
<1>2. \A i \in 1..Len(q) : i # 1 => i - 1 \in 1..Len(p) /\ p[i - 1] = q[i]
  <2> SUFFICES ASSUME NEW i \in 1..Len(q), i # 1
               PROVE  i - 1 \in 1..Len(p) /\ p[i - 1] = q[i]
    OBVIOUS
  <2>1. i - 1 \in 1..Len(p) /\ (i - 1) + 1 = i
    BY <1>1
  <2> QED
    BY <1>1, <2>1
<1>3. 1 \in 1..Len(q) /\ \A i \in 1..Len(q) : ~(i < 1)
  BY <1>1
<1> HIDE DEF p
<1>4. Unique(p)
  <2> SUFFICES ASSUME NEW i \in 1..Len(p), NEW j \in 1..Len(p), p[i].call = p[j].call, p[i].call # None
               PROVE  i = j
    BY DEF Unique
  <2>1. i + 1 = j + 1
    BY <1>1 DEF Unique
  <2> QED
    BY <2>1
<1>5. Head(q).call # None => ~Holds(p, Head(q).call)
  <2> SUFFICES ASSUME Head(q).call # None, NEW i \in 1..Len(p), p[i].call = Head(q).call
               PROVE  FALSE
    BY DEF Holds
  <2>1. i + 1 = 1
    BY <1>1, <1>3 DEF Unique
  <2> QED
    BY <2>1
<1>6. \A c : Holds(p, c) => Holds(q, c)
  BY <1>1 DEF Holds
<1>7. \A c : c # Head(q).call => (Holds(p, c) <=> Holds(q, c))
  BY <1>1, <1>2, <1>6 DEF Holds
<1>8. ASSUME NEW c, NEW d, Before(q, d, c) PROVE Before(p, d, c)
  <2> SUFFICES ASSUME NEW i \in 1..Len(p), NEW j \in 1..Len(p), p[i].call = d, p[j].call = c
               PROVE  i < j
    BY DEF Before
  <2>1. i + 1 < j + 1
    BY <1>1, <1>8 DEF Before
  <2> QED
    BY <2>1
<1>9. ASSUME NEW c, NEW d, Before(q, d, c), Head(q).call = c PROVE ~Holds(q, d)
  BY <1>1, <1>3, <1>9 DEF Before, Holds
<1>10. ASSUME NEW c, Followed(q, c) PROVE Followed(p, c)
  <2> SUFFICES ASSUME NEW i \in 1..Len(p), p[i].op \in Replaces, p[i].call # c
               PROVE  \E j \in 1..Len(p) : j > i /\ p[j].call = c
    BY DEF Followed
  <2>0. i + 1 \in 1..Len(q) /\ q[i + 1].op \in Replaces /\ q[i + 1].call # c
    BY <1>1
  <2>1. PICK j \in 1..Len(q) : j > i + 1 /\ q[j].call = c
    BY <1>10, <2>0 DEF Followed
  <2>2. j # 1 /\ j - 1 > i
    BY <2>1
  <2> QED
    BY <1>2, <2>1, <2>2
<1>11. ASSUME NEW c, Followed(q, c), Head(q).op \in Replaces PROVE Holds(q, c)
  BY <1>1, <1>3, <1>11 DEF Followed, Holds
<1>12. Holds(q, Head(q).call)
  BY <1>1, <1>3 DEF Holds
<1> QED
  BY <1>4, <1>5, <1>6, <1>7, <1>8, <1>9, <1>10, <1>11, <1>12 DEF p

-----------------------------------------------------------------------------
(* Where a call has something on its way. *)

Free(c) ==
  ~Holds(up, c) /\ ~Holds(attaching, c) /\ ~Holds(down, c) /\ resuming.call # c

(* No absent call or attachment is a call.                                   *)
LEMMA NoneIsNoCall == None \notin Calls
  BY CallsAssumption

(* The types of what is on its way.                                          *)
LEMMA OnTheWay ==
  ASSUME Typed
  PROVE  /\ \A r \in Items(up) \cup Items(attaching) :
              r \in Requests /\ r.call \in Calls \cup {None} /\ r.att \in Calls /\ r.after \in Nat
         /\ \A m \in Items(down) :
              /\ m \in Messages /\ m.to \in Calls \cup {None}
              /\ m.call \in Calls \cup {None} /\ m.item \in Nat
         /\ \A e \in Items(pump.buf) : e \in Nat
<1>1. up \in Seq(Requests) /\ attaching \in Seq(Requests) /\ down \in Seq(Messages)
  BY DEF Typed
<1>2. /\ \A r \in Items(up) \cup Items(attaching) : r \in Requests
      /\ \A m \in Items(down) : m \in Messages
  BY <1>1, ItemsTyped
<1>3. pump.buf \in Seq(Nat)
  BY DEF Typed
<1>4. \A e \in Items(pump.buf) : e \in Nat
  BY <1>3, ItemsTyped
<1> QED
  BY <1>2, <1>4 DEF Requests, Messages

(* A call that waits for nothing has nothing on its way.                     *)
LEMMA QuietIsFree ==
  ASSUME TokensTrue, NEW c \in Calls, stage[c] \notin Waiting
  PROVE  Free(c)
<1> USE NoneIsNoCall
<1>1. ~Holds(up, c)
  <2> SUFFICES ASSUME NEW r \in Items(up), r.call = c PROVE FALSE
    BY HoldsItem
  <2>1. stage[c] \in Asks(r.op)
    BY DEF TokensTrue, RequestsTrue
  <2>2. r \in Requests
    BY OnTheWay DEF TokensTrue
  <2> QED
    BY <2>1, <2>2 DEF Requests, Asks, Waiting
<1>2. ~Holds(attaching, c)
  BY HoldsItem DEF TokensTrue, RequestsTrue, Waiting
<1>3. ~Holds(down, c)
  BY HoldsItem DEF TokensTrue, RequestsTrue
<1>4. resuming.call # c
  BY DEF TokensTrue, RequestsTrue, Waiting
<1> QED
  BY <1>1, <1>2, <1>3, <1>4 DEF Free

(* The call whose answer is taken has nothing else on its way.               *)
LEMMA AnsweredIsFree ==
  ASSUME TokensTrue, NEW c \in Calls, down # << >>, Head(down).call = c
  PROVE  /\ ~Holds(up, c) /\ ~Holds(attaching, c) /\ resuming.call # c
         /\ ~Holds(Tail(down), c)
<1>1. down \in Seq(Messages) /\ Unique(down)
  BY DEF TokensTrue, Typed, OneToken
<1>2. Holds(down, c) /\ ~Holds(Tail(down), c)
  BY <1>1, TakenOrder, NoneIsNoCall
<1> QED
  BY <1>2 DEF TokensTrue, OneToken

(* A call goes on, with or without a request.                                *)
LEMMA GoesOn ==
  ASSUME TokensTrue, NEW c \in Calls, NEW s \in Stages,
         ~Holds(up, c), ~Holds(attaching, c), ~Holds(down', c), resuming.call # c,
         Items(down') \subseteq Items(down), Unique(down'),
         \A d : Holds(down', d) => Holds(down, d),
         UNCHANGED <<attaching, resuming>>,
         stage' = [stage EXCEPT ![c] = s],
         \/ up' = up
         \/ \E r \in Requests :
              /\ r.call = c /\ s \in Asks(r.op) /\ (r.op # "detach" => r.att = c)
              /\ up' = Append(up, r)
  PROVE  RequestsTrue' /\ OneToken' /\ up' \in Seq(Requests) /\ stage' \in [Calls -> Stages]
<1> USE NoneIsNoCall
<1>1. up \in Seq(Requests) /\ Unique(up) /\ stage \in [Calls -> Stages]
  BY DEF TokensTrue, Typed, OneToken
<1>2. stage' \in [Calls -> Stages] /\ stage'[c] = s /\ \A d \in Calls : d # c => stage'[d] = stage[d]
  BY <1>1
<1>3. /\ up' \in Seq(Requests) /\ Unique(up')
      /\ \A d : d # c => (Holds(up', d) <=> Holds(up, d))
      /\ \A r \in Items(up') :
           \/ r \in Items(up)
           \/ r.call = c /\ s \in Asks(r.op) /\ (r.op # "detach" => r.att = c)
  <2>1. CASE up' = up
    BY <1>1, <2>1
  <2>2. CASE up' # up
    <3>1. PICK r \in Requests :
              /\ r.call = c /\ s \in Asks(r.op) /\ (r.op # "detach" => r.att = c)
              /\ up' = Append(up, r)
      BY <2>2
    <3>2. Append(up, r) \in Seq(Requests) /\ Items(Append(up, r)) = Items(up) \cup {r}
      BY <1>1, Appended
    <3>3. /\ Unique(Append(up, r))
          /\ \A d : Holds(Append(up, r), d) <=> Holds(up, d) \/ r.call = d
      BY <1>1, <3>1, AppendedOrder
    <3> QED
      BY <3>1, <3>2, <3>3
  <2> QED
    BY <2>1, <2>2
<1>4. \A r \in Items(up) \cup Items(attaching) : r.call # c
  BY HoldsItem
<1>5. \A m \in Items(down') : m.call # c /\ m \in Items(down)
  BY HoldsItem
<1>6. RequestsTrue'
  <2>1. \A r \in Items(up) : r.call \in Calls \cup {None}
    BY OnTheWay DEF TokensTrue
  <2>2. ASSUME NEW r \in Items(up')
        PROVE  /\ r.call # None => stage'[r.call] \in Asks(r.op)
               /\ r.call = None => r.op = "detach"
               /\ r.op # "detach" => r.att = r.call
    <3>1. CASE r \in Items(up)
      <4>1. r.call # c /\ r.call \in Calls \cup {None}
        BY <1>4, <2>1, <3>1
      <4> QED
        BY <1>2, <3>1, <4>1 DEF TokensTrue, RequestsTrue
    <3>2. CASE r \notin Items(up)
      BY <1>2, <1>3, <3>2
    <3> QED
      BY <3>1, <3>2
  <2>3. \A r \in Items(attaching) : r.call \in Calls
    BY OnTheWay DEF TokensTrue, RequestsTrue
  <2>4. \A m \in Items(down) : m.call \in Calls \cup {None}
    BY OnTheWay DEF TokensTrue
  <2>5. \A m \in Items(down)' :
          /\ m.call # None => stage'[m.call] \in Waiting
          /\ m.to # None => m.call = None
    BY <1>2, <1>5, <2>4 DEF TokensTrue, RequestsTrue
  <2>6. resuming'.call # None => stage'[resuming'.call] = "resuming"
    BY <1>2 DEF TokensTrue, RequestsTrue, Typed
  <2>7. \A r \in Items(attaching)' :
           r.op = "attach" /\ r.call # None /\ r.att = r.call /\ stage'[r.call] = "attaching"
    BY <1>2, <1>4, <2>3 DEF TokensTrue, RequestsTrue
  <2> QED
    BY <2>2, <2>5, <2>6, <2>7 DEF RequestsTrue
<1>7. OneToken'
  <2>1. ASSUME NEW d \in Calls
        PROVE  /\ Holds(up', d) => ~Holds(attaching, d) /\ ~Holds(down', d)
               /\ Holds(attaching, d) => ~Holds(down', d)
               /\ resuming.call = d => ~Holds(up', d) /\ ~Holds(down', d)
    BY <1>3 DEF TokensTrue, OneToken
  <2>2. Unique(up') /\ Unique(attaching) /\ Unique(down')
    BY <1>3 DEF TokensTrue, OneToken
  <2> QED
    BY <2>1, <2>2 DEF OneToken
<1> QED
  BY <1>2, <1>3, <1>6, <1>7

-----------------------------------------------------------------------------
(* The Host: its commits and subscriptions touch the log and the buffer. *)

HostMoves ==
  /\ UNCHANGED <<attaching, resuming, up, down, stage, att, view>>
  /\ log' \in Seq([gen : Nat, lost : BOOLEAN]) /\ gen' \in Nat /\ Len(log) <= Len(log')
  /\ pump' \in Pumps
  /\ pump'.id = pump.id /\ pump'.after = pump.after /\ pump'.over = pump.over
  /\ \A e \in Items(pump'.buf) : e <= Len(log')

(* A published item is appended, or replaces what is there.                  *)
LEMMA Pushed ==
  ASSUME NEW b \in Seq(Nat), NEW e \in Nat, NEW n \in Nat,
         \A x \in Items(b) : x <= n, e <= n
  PROVE  Push(b, e) \in Seq(Nat) /\ \A x \in Items(Push(b, e)) : x <= n
<1>1. Append(b, e) \in Seq(Nat) /\ Items(Append(b, e)) = Items(b) \cup {e}
  BY Appended
<1>2. <<Resync>> \in Seq(Nat) /\ \A x \in Items(<<Resync>>) : x = 0
  BY DEF Items, Resync
<1> QED
  BY <1>1, <1>2 DEF Push

(* An event in the log is published to the pump.                             *)
LEMMA PublishedMoves ==
  ASSUME Typed, NEW n \in Nat, NEW b \in Seq(Nat), \A e \in Items(b) : e <= n,
         \A e \in Items(pump.buf) : e <= n, pump' = Published(b)
  PROVE  /\ pump' \in Pumps
         /\ pump'.id = pump.id /\ pump'.after = pump.after /\ pump'.over = pump.over
         /\ \A e \in Items(pump'.buf) : e <= n
<1>1. pump \in Pumps
  BY DEF Typed
<1>2. CASE pump.on
  BY <1>1, <1>2 DEF Published
<1>3. CASE ~pump.on
  BY <1>1, <1>3 DEF Published
<1> QED
  BY <1>2, <1>3

(* A commit is published.                                                     *)
LEMMA CommitMoves ==
  ASSUME IInv, NEW lost \in BOOLEAN, Commit(lost)
  PROVE  HostMoves
<1> DEFINE n == Len(log) + 1
           b == Push(pump.buf, n)
<1>1. Typed /\ log \in Seq([gen : Nat, lost : BOOLEAN]) /\ gen \in Nat
  BY DEF IInv, TokensTrue, Typed
<1>2. log' \in Seq([gen : Nat, lost : BOOLEAN]) /\ Len(log') = n /\ n \in Nat /\ Len(log) <= n /\ gen' = gen
  BY <1>1 DEF Commit
<1>3. pump.buf \in Seq(Nat) /\ \A e \in Items(pump.buf) : e \in Nat /\ e <= n
  BY <1>1, <1>2, OnTheWay DEF IInv, CursorsTrue, Typed
<1>4. b \in Seq(Nat) /\ \A e \in Items(b) : e <= n
  BY <1>2, <1>3, Pushed
<1>5. pump' = Published(b)
  BY DEF Commit
<1>6. UNCHANGED <<attaching, resuming, up, down, stage, att, view>>
  BY DEF Commit
<1> HIDE DEF b, n
<1>7. /\ pump' \in Pumps
      /\ pump'.id = pump.id /\ pump'.after = pump.after /\ pump'.over = pump.over
      /\ \A e \in Items(pump'.buf) : e <= n
  BY <1>1, <1>2, <1>3, <1>4, <1>5, PublishedMoves
<1> QED
  BY <1>1, <1>2, <1>6, <1>7 DEF HostMoves

(* A new generation asks to start over and is an event itself.                *)
LEMMA RebindMoves ==
  ASSUME IInv, Rebind
  PROVE  HostMoves
<1> DEFINE n == Len(log) + 1
           a == Push(pump.buf, Resync)
           b == Push(a, n)
<1>1. Typed /\ log \in Seq([gen : Nat, lost : BOOLEAN]) /\ gen \in Nat
  BY DEF IInv, TokensTrue, Typed
<1>2. log' \in Seq([gen : Nat, lost : BOOLEAN]) /\ Len(log') = n /\ Len(log) \in Nat /\ gen' \in Nat
  BY <1>1 DEF Rebind
<1>3. pump.buf \in Seq(Nat) /\ \A e \in Items(pump.buf) : e \in Nat /\ e <= n
  BY <1>1, <1>2, OnTheWay DEF IInv, CursorsTrue, Typed
<1>4. Resync \in Nat /\ Resync <= n
  BY <1>2 DEF Resync
<1>5. a \in Seq(Nat) /\ \A e \in Items(a) : e <= n
  BY <1>2, <1>3, <1>4, Pushed
<1> HIDE DEF a
<1>6. b \in Seq(Nat) /\ \A e \in Items(b) : e <= n
  BY <1>2, <1>5, Pushed
<1>7. pump' = Published(b)
  BY DEF Rebind, a
<1>8. UNCHANGED <<attaching, resuming, up, down, stage, att, view>>
  BY DEF Rebind
<1> HIDE DEF b
<1>9. /\ pump' \in Pumps
      /\ pump'.id = pump.id /\ pump'.after = pump.after /\ pump'.over = pump.over
      /\ \A e \in Items(pump'.buf) : e <= n
  BY <1>1, <1>2, <1>3, <1>6, <1>7, PublishedMoves
<1> QED
  BY <1>1, <1>2, <1>8, <1>9 DEF HostMoves

(* The backlog of a subscription are events of the log, or the demand.       *)
LEMMA BacklogTyped ==
  ASSUME log \in Seq([gen : Nat, lost : BOOLEAN]), NEW k \in Nat, k <= Len(log)
  PROVE  Backlog(k) \in Seq(Nat) /\ \A e \in Items(Backlog(k)) : e <= Len(log)
<1>1. Len(log) \in Nat /\ Len(log) - k \in Nat
  OBVIOUS
<1> DEFINE n == Len(log) - k
           b == [i \in 1..n |-> k + i]
<1>2. b \in Seq(Nat) /\ Len(b) = n
  BY <1>1
<1>3. \A e \in Items(b) : e <= Len(log)
  BY <1>1, <1>2 DEF Items
<1>4. <<Resync>> \in Seq(Nat) /\ \A x \in Items(<<Resync>>) : x <= Len(log)
  BY <1>1 DEF Items, Resync
<1> QED
  BY <1>2, <1>3, <1>4 DEF Backlog

(* A subscription starts with what it has missed.                             *)
LEMMA SubscribeMoves ==
  ASSUME IInv, Subscribe
  PROVE  HostMoves
<1>1. /\ log \in Seq([gen : Nat, lost : BOOLEAN]) /\ gen \in Nat
      /\ pump \in Pumps
      /\ pump.after <= Len(log)
  BY DEF IInv, TokensTrue, Typed, CursorsTrue
<1>2. UNCHANGED <<log, gen, attaching, resuming, up, down, stage, att, view>> /\ Len(log) <= Len(log)
  BY <1>1 DEF Subscribe, host
<1>3. Backlog(pump.after) \in Seq(Nat) /\ \A e \in Items(Backlog(pump.after)) : e <= Len(log)
  BY <1>1, BacklogTyped
<1>4. <<Resync>> \in Seq(Nat) /\ \A e \in Items(<<Resync>>) : e <= Len(log)
  BY <1>1 DEF Items, Resync
<1>5. \E b \in {Backlog(pump.after), <<Resync>>} : pump' = [pump EXCEPT !.on = TRUE, !.buf = b]
  BY DEF Subscribe
<1>6. /\ pump' \in Pumps
      /\ pump'.id = pump.id /\ pump'.after = pump.after /\ pump'.over = pump.over
      /\ \A e \in Items(pump'.buf) : e <= Len(log)
  BY <1>1, <1>3, <1>4, <1>5
<1> QED
  BY <1>1, <1>2, <1>6 DEF HostMoves

(* None of this concerns the calls.                                          *)
LEMMA HostKeeps ==
  ASSUME IInv, HostMoves
  PROVE  IInv'
<1>1. /\ UNCHANGED <<attaching, resuming, up, down, stage, att, view>>
      /\ pump'.id = pump.id /\ pump'.after = pump.after /\ pump'.over = pump.over
  BY DEF HostMoves
<1>2. TokensTrue'
  BY <1>1 DEF IInv, TokensTrue, Typed, RequestsTrue, OneToken, HostMoves
<1>3. LeavingTrue' /\ DetachTrue' /\ CurrentTrue'
  BY <1>1 DEF IInv, LeavingTrue, DetachTrue, CurrentTrue
<1>4. FeedsTrue'
  BY <1>1 DEF IInv, FeedsTrue, Asked
<1>5. PagingTrue' /\ AttachedLast'
  BY <1>1 DEF IInv, PagingTrue, AttachedLast, Behind
<1>6. ServedTrue'
  BY <1>1 DEF IInv, ServedTrue, ServedNow, Fed
<1>7. CursorsTrue'
  <2>1. /\ Len(log) \in Nat /\ Len(log') \in Nat /\ Len(log) <= Len(log')
        /\ pump.after \in Nat /\ view.cursor \in Nat /\ resuming.last \in Nat
    BY DEF IInv, TokensTrue, Typed, HostMoves
  <2>2. view'.cursor <= Len(log') /\ pump'.after <= Len(log') /\ resuming'.last <= Len(log')
    BY <1>1, <2>1 DEF IInv, CursorsTrue
  <2>3. \A m \in Items(down) : m.item <= Len(log')
    BY <2>1, OnTheWay DEF IInv, TokensTrue, CursorsTrue
  <2>4. \A r \in Items(up) \cup Items(attaching) : r.after <= Len(log')
    BY <2>1, OnTheWay DEF IInv, TokensTrue, CursorsTrue
  <2> QED
    BY <1>1, <2>2, <2>3, <2>4 DEF HostMoves, CursorsTrue
<1>8. HistoryTrue'
  BY <1>1 DEF IInv, HistoryTrue
<1> QED
  BY <1>2, <1>3, <1>4, <1>5, <1>6, <1>7, <1>8 DEF IInv

-----------------------------------------------------------------------------
(* The pump: an event, or the demand to start over when it ends. *)

(* A pump that starts has received nothing.                                  *)
LEMMA NothingYet == << >> \in Seq(Nat) /\ Items(<< >>) = {}
  BY DEF Items

(* No pump is one that never receives anything.                              *)
LEMMA NoPumpTyped ==
  /\ NoPump \in Pumps /\ NoPump.id = None /\ NoPump.after = 0
  /\ \A e : e \notin Items(NoPump.buf)
  BY NothingYet DEF NoPump, NewPump

(* No resume is one of no call.                                              *)
LEMMA NoResumeTyped ==
  /\ NoResume \in Resumptions
  /\ NoResume.call = None /\ NoResume.prev = None /\ NoResume.last = 0
  BY DEF NoResume

(* The client is told something: at most one call, whose resume is over,     *)
(* gets its answer.                                                          *)
LEMMA ToldKeeps ==
  ASSUME IInv, UNCHANGED <<log, gen, attaching, up, stage, att, view>>,
         NEW w \in Calls \cup {None}, w # None => stage[w] = "resuming" /\ ~Holds(up, w),
         down' \in Seq(Messages), Unique(down'), Items(down) \subseteq Items(down'),
         \A m \in Items(down') :
           \/ m \in Items(down)
           \/ /\ m.call \in {None, w} /\ Asked(m.to) /\ m.item <= Len(log)
              /\ m.to # None => m.call = None,
         \A d \in Calls : Holds(down', d) <=> Holds(down, d) \/ d = w,
         \A d, e \in Calls : d # w /\ e # w /\ Before(down, d, e) => Before(down', d, e),
         pump' \in Pumps,
         Asked(pump'.id), pump'.after <= Len(log), \A e \in Items(pump'.buf) : e <= Len(log),
         resuming' \in Resumptions, resuming'.call \in {resuming.call, None},
         resuming'.prev \in {resuming.prev, None}, resuming'.last <= Len(log),
         w # None /\ w = resuming.call => resuming'.call = None,
         ServedNow => resuming' \in {resuming, NoResume},
         ServedNow /\ Fed => Fed'
  PROVE  IInv'
<1> USE NoneIsNoCall
<1>1. TokensTrue'
  <2>1. Typed'
    BY DEF IInv, TokensTrue, Typed
  <2>2. RequestsTrue'
    BY DEF IInv, TokensTrue, RequestsTrue, Waiting
  <2>3. OneToken'
    <3>1. w # None => ~Holds(attaching, w)
      BY HoldsItem DEF IInv, TokensTrue, RequestsTrue
    <3> QED
      BY <3>1 DEF IInv, TokensTrue, OneToken
  <2> QED
    BY <2>1, <2>2, <2>3 DEF TokensTrue
<1>2. LeavingTrue' /\ DetachTrue' /\ CurrentTrue'
  BY DEF IInv, LeavingTrue, DetachTrue, CurrentTrue
<1>3. FeedsTrue'
  BY DEF IInv, FeedsTrue, Asked
<1>4. att # None => att \in Calls /\ att # w
  BY DEF IInv, TokensTrue, Typed, CurrentTrue
<1>5. PagingTrue'
  <2> SUFFICES ASSUME att # None, stage[att] \in {"paging", "turning"},
                      NEW d \in Calls, stage[d] = "leaving"
               PROVE  Behind(d, att)'
    BY DEF PagingTrue
  <2>1. Behind(d, att) /\ d # w
    BY DEF IInv, PagingTrue
  <2> QED
    BY <1>4, <2>1 DEF Behind
<1>6. AttachedLast'
  BY DEF IInv, AttachedLast
<1>7. ServedTrue'
  <2>1. ServedNow' => ServedNow
    BY <1>4 DEF ServedNow
  <2> QED
    BY <2>1 DEF IInv, ServedTrue
<1>8. CursorsTrue'
  BY DEF IInv, CursorsTrue
<1>9. HistoryTrue'
  BY <1>4 DEF IInv, HistoryTrue
<1> QED
  BY <1>1, <1>2, <1>3, <1>5, <1>6, <1>7, <1>8, <1>9 DEF IInv

(* The next item of the buffer.                                              *)
LEMMA PumpKeeps ==
  ASSUME IInv, Pump
  PROVE  IInv'
<1> USE NoneIsNoCall
<1>1. /\ pump \in Pumps
      /\ down \in Seq(Messages) /\ Unique(down) /\ Len(log) \in Nat
  BY DEF IInv, TokensTrue, Typed, OneToken
<1>2. UNCHANGED <<log, gen, attaching, resuming, up, stage, att, view>>
  BY DEF Pump, host
<1>3. /\ Head(pump.buf) \in Nat /\ Head(pump.buf) \in Items(pump.buf)
      /\ Tail(pump.buf) \in Seq(Nat) /\ Items(Tail(pump.buf)) \subseteq Items(pump.buf)
  BY <1>1, Taken DEF Pump
<1>4. Head(pump.buf) <= Len(log) /\ pump.after <= Len(log) /\ 0 <= Len(log)
      /\ \A e \in Items(Tail(pump.buf)) : e <= Len(log)
  BY <1>1, <1>3 DEF IInv, CursorsTrue
<1> DEFINE ends == Head(pump.buf) = Resync \/ Head(pump.buf) > pump.after + 1
<1>5. /\ ends => /\ pump' = [pump EXCEPT !.on = FALSE, !.buf = << >>, !.over = TRUE]
                 /\ down' = Append(down, Update(pump.id, Resync))
      /\ ~ends =>
           /\ pump' = [pump EXCEPT !.buf = Tail(@), !.after = IF Head(pump.buf) > @ THEN Head(pump.buf) ELSE @]
           /\ down' = down \/ down' = Append(down, Update(pump.id, Head(pump.buf)))
  BY DEF Pump
<1> HIDE DEF ends
<1>6. /\ pump' \in Pumps
      /\ pump'.id = pump.id /\ (~ends => pump'.over = pump.over)
      /\ pump'.after <= Len(log)
      /\ \A e \in Items(pump'.buf) : e <= Len(log)
  <2>1. CASE ends
    BY <1>1, <1>4, <1>5, <2>1, NothingYet
  <2>2. CASE ~ends
    BY <1>1, <1>3, <1>4, <1>5, <2>2
  <2> QED
    BY <2>1, <2>2
<1>7. \A e \in {Resync, Head(pump.buf)} :
        /\ Update(pump.id, e) \in Messages
        /\ Update(pump.id, e).call = None /\ Update(pump.id, e).to = pump.id
        /\ Update(pump.id, e).item = e /\ e <= Len(log)
  BY <1>1, <1>3, <1>4 DEF Update, Messages, Resync
<1>8. \/ down' = down /\ ~ends
      \/ \E m \in Messages : /\ down' = Append(down, m) /\ m.call = None /\ m.to = pump.id
                             /\ m.item <= Len(log) /\ (ends => m.item = Resync)
  BY <1>5, <1>7
<1>9. /\ down' \in Seq(Messages) /\ Unique(down')
      /\ \A d \in Calls : Holds(down', d) <=> Holds(down, d)
      /\ \A d, e \in Calls : Before(down, d, e) => Before(down', d, e)
      /\ Items(down) \subseteq Items(down')
      /\ \A m \in Items(down') :
            \/ m \in Items(down)
            \/ m.call = None /\ m.to = pump.id /\ m.item <= Len(log)
      /\ ends => \E m \in Items(down') : m.to = pump.id /\ m.item = Resync
  <2>1. CASE down' = down /\ ~ends
    BY <1>1, <2>1
  <2>2. CASE \E m \in Messages : /\ down' = Append(down, m) /\ m.call = None /\ m.to = pump.id
                                 /\ m.item <= Len(log) /\ (ends => m.item = Resync)
    <3>1. PICK m \in Messages : /\ down' = Append(down, m) /\ m.call = None /\ m.to = pump.id
                                /\ m.item <= Len(log) /\ (ends => m.item = Resync)
      BY <2>2
    <3>2. Append(down, m) \in Seq(Messages) /\ Items(Append(down, m)) = Items(down) \cup {m}
      BY <1>1, Appended
    <3>3. /\ Unique(Append(down, m))
          /\ \A c : Holds(Append(down, m), c) <=> Holds(down, c) \/ m.call = c
          /\ \A c, d : /\ Before(down, d, c)
                       /\ m.call = d => ~Holds(down, c) /\ c # d
                       => Before(Append(down, m), d, c)
      BY <1>1, <3>1, AppendedOrder
    <3> QED
      BY <3>1, <3>2, <3>3
  <2> QED
    BY <1>8, <2>1, <2>2
<1>10. Asked(pump.id)
  BY DEF IInv, FeedsTrue
<1>11. Asked(pump'.id) /\ Asked(None)
  BY <1>6, <1>10 DEF Asked
<1>12. Fed /\ ServedNow => Fed'
  BY <1>2, <1>6, <1>9 DEF Fed, ServedNow
<1>13. /\ None \in Calls \cup {None}
       /\ resuming' = resuming /\ resuming' \in Resumptions /\ resuming'.last <= Len(log)
  BY <1>2 DEF IInv, TokensTrue, Typed, CursorsTrue
<1> QED
  BY <1>2, <1>6, <1>9, <1>10, <1>11, <1>12, <1>13, ToldKeeps

(* The pump of an attachment that was told to start over is nobody's.        *)
LEMMA PumpLeavesKeeps ==
  ASSUME IInv, PumpLeaves
  PROVE  IInv'
<1> USE NoneIsNoCall
<1>1. pump.over /\ pump' = NoPump /\ UNCHANGED <<log, gen, attaching, resuming, up, down, stage, att, view>>
  BY DEF PumpLeaves, host
<1>2. /\ down' \in Seq(Messages) /\ Unique(down') /\ Items(down) \subseteq Items(down')
      /\ resuming' \in Resumptions /\ resuming'.last <= Len(log) /\ Len(log) \in Nat
  BY <1>1 DEF IInv, TokensTrue, Typed, OneToken, CursorsTrue
<1>3. /\ \A m \in Items(down') : m \in Items(down)
      /\ \A d \in Calls : Holds(down', d) <=> Holds(down, d)
      /\ \A d, e \in Calls : Before(down, d, e) => Before(down', d, e)
  BY <1>1
<1>4. /\ pump' \in Pumps /\ Asked(pump'.id) /\ pump'.after <= Len(log)
      /\ \A e \in Items(pump'.buf) : e <= Len(log)
  BY <1>1, <1>2, NoPumpTyped DEF Asked
<1>5. Fed => Fed'
  BY <1>1 DEF Fed
<1> QED
  BY <1>1, <1>2, <1>3, <1>4, <1>5, ToldKeeps

-----------------------------------------------------------------------------
(* The service's handlers: a request leaves the one queue, its answer or the *)
(* rest of its handling enters another. *)

(* The first request is taken.                                               *)
LEMMA RequestTaken ==
  ASSUME TokensTrue, up # << >>
  PROVE  /\ Head(up) \in Items(up) /\ Head(up) \in Requests
         /\ Tail(up) \in Seq(Requests) /\ Items(Tail(up)) \subseteq Items(up) /\ Unique(Tail(up))
         /\ Holds(up, Head(up).call)
         /\ Head(up).call # None => Head(up).call \in Calls /\ stage[Head(up).call] \in Asks(Head(up).op)
         /\ \A c \in Calls : Holds(Tail(up), c) <=> Holds(up, c) /\ c # Head(up).call
         /\ \A c, d \in Calls : Before(up, d, c) => Before(Tail(up), d, c)
         /\ \A c, d \in Calls : Before(up, d, c) /\ Head(up).call = c => ~Holds(up, d)
         /\ \A c \in Calls : Followed(up, c) => Followed(Tail(up), c)
         /\ \A c \in Calls : Followed(up, c) /\ Head(up).op \in Replaces => Holds(up, c)
<1>1. up \in Seq(Requests) /\ Unique(up)
  BY DEF TokensTrue, Typed, OneToken
<1>2. /\ Head(up) \in Items(up) /\ Head(up) \in Requests
      /\ Tail(up) \in Seq(Requests) /\ Items(Tail(up)) \subseteq Items(up)
  BY <1>1, Taken
<1>3. /\ Unique(Tail(up))
      /\ Holds(up, Head(up).call)
      /\ Head(up).call # None => ~Holds(Tail(up), Head(up).call)
      /\ \A c : c # Head(up).call => (Holds(Tail(up), c) <=> Holds(up, c))
      /\ \A c : Holds(Tail(up), c) => Holds(up, c)
      /\ \A c, d : Before(up, d, c) => Before(Tail(up), d, c)
      /\ \A c, d : Before(up, d, c) /\ Head(up).call = c => ~Holds(up, d)
      /\ \A c : Followed(up, c) => Followed(Tail(up), c)
      /\ \A c : Followed(up, c) /\ Head(up).op \in Replaces => Holds(up, c)
  BY <1>1, TakenOrder
<1>4. Head(up).call # None => Head(up).call \in Calls /\ stage[Head(up).call] \in Asks(Head(up).op)
  BY <1>2, OnTheWay DEF TokensTrue, RequestsTrue
<1> QED
  BY <1>2, <1>3, <1>4, NoneIsNoCall

(* A message is appended to those for the client.                            *)
LEMMA MessageSent ==
  ASSUME TokensTrue, NEW m \in Messages, m.call = None \/ ~Holds(down, m.call)
  PROVE  /\ Append(down, m) \in Seq(Messages) /\ Items(Append(down, m)) = Items(down) \cup {m}
         /\ Unique(Append(down, m))
         /\ \A c : Holds(Append(down, m), c) <=> Holds(down, c) \/ m.call = c
         /\ \A c, d : /\ Before(down, d, c)
                      /\ m.call = d => ~Holds(down, c) /\ c # d
                      => Before(Append(down, m), d, c)
<1>1. down \in Seq(Messages) /\ Unique(down)
  BY DEF TokensTrue, Typed, OneToken
<1> QED
  BY <1>1, Appended, AppendedOrder

(* A request that does not attach is answered.                               *)
LEMMA AnswerKeeps ==
  ASSUME IInv, up # << >>, Head(up).op \in {"detach", "snapshot"},
         NEW m \in Messages, m.call = Head(up).call, m.to = None, m.item <= Len(log),
         m.call = att /\ m.ok /\ Head(up).op = "snapshot" => m.item >= view.cursor,
         up' = Tail(up), down' = Append(down, m),
         UNCHANGED <<log, gen, attaching, stage, att, view>>,
         pump' \in {pump, NoPump}, resuming' \in {resuming, NoResume},
         ServedNow => resuming' = NoResume /\ (pump' = pump \/ pump.id # att)
  PROVE  IInv'
<1> USE NoneIsNoCall
<1> DEFINE h == Head(up)
<1>1. TokensTrue
  BY DEF IInv
<1>2. /\ h \in Items(up) /\ h \in Requests /\ m.call = h.call
      /\ up' \in Seq(Requests) /\ Items(up') \subseteq Items(up) /\ Unique(up')
      /\ Holds(up, h.call)
      /\ h.call # None => h.call \in Calls /\ stage[h.call] \in Asks(h.op)
      /\ \A c \in Calls : Holds(up', c) <=> Holds(up, c) /\ c # h.call
      /\ \A c, d \in Calls : Before(up, d, c) => Before(up', d, c)
      /\ \A c, d \in Calls : Before(up, d, c) /\ h.call = c => ~Holds(up, d)
      /\ \A c \in Calls : Followed(up, c) => Followed(up', c)
  BY <1>1, RequestTaken
<1>3. m.call # None => ~Holds(down, m.call) /\ ~Holds(attaching, m.call) /\ m.call # resuming.call
  BY <1>1, <1>2 DEF TokensTrue, OneToken
<1>4. /\ down' \in Seq(Messages) /\ Items(down') = Items(down) \cup {m} /\ Unique(down')
      /\ \A c : Holds(down', c) <=> Holds(down, c) \/ m.call = c
      /\ \A c, d : /\ Before(down, d, c)
                   /\ m.call = d => ~Holds(down, c) /\ c # d
                   => Before(down', d, c)
  BY <1>1, <1>3, MessageSent
<1>5. m.call # None => stage[m.call] \in {"leaving", "clearing", "paging", "turning"}
  BY <1>2 DEF Asks
<1> HIDE DEF h
<1>6. TokensTrue'
  <2>1. Typed'
    BY <1>1, <1>2, <1>4, NoPumpTyped, NoResumeTyped DEF TokensTrue, Typed
  <2>2. RequestsTrue'
    BY <1>1, <1>2, <1>4, <1>5 DEF TokensTrue, RequestsTrue, NoResume, Waiting
  <2>3. OneToken'
    BY <1>1, <1>2, <1>3, <1>4 DEF TokensTrue, OneToken, NoResume
  <2> QED
    BY <2>1, <2>2, <2>3 DEF TokensTrue
<1>7. LeavingTrue'
  BY <1>2, <1>4 DEF IInv, LeavingTrue
<1>8. DetachTrue' /\ CurrentTrue'
  BY <1>2 DEF IInv, DetachTrue, CurrentTrue
<1>9. FeedsTrue'
  BY <1>4, NoPumpTyped DEF IInv, FeedsTrue, Asked, NoResume
<1>10. PagingTrue'
  <2> SUFFICES ASSUME att # None, stage[att] \in {"paging", "turning"},
                      NEW d \in Calls, stage[d] = "leaving"
               PROVE  Behind(d, att)'
    BY DEF PagingTrue
  <2>1. att \in Calls /\ d # att /\ Behind(d, att)
    BY <1>1 DEF IInv, PagingTrue, TokensTrue, Typed
  <2>2. Before(up', d, att)
    BY <1>2, <2>1 DEF Behind
  <2>3. Holds(up', d) => ~Holds(down', att)
    BY <1>2, <1>4, <2>1 DEF Behind
  <2>4. Before(down', d, att)
    BY <1>2, <1>4, <2>1 DEF Behind
  <2> QED
    BY <2>2, <2>3, <2>4 DEF Behind
<1>11. AttachedLast'
  <2> SUFFICES ASSUME att # None, stage[att] \in {"attaching", "done"}
               PROVE  /\ \A d \in Calls : stage[d] \notin {"leaving", "asking"}
                      /\ Followed(up', att)
                      /\ Holds(up', att) \/ Followed(attaching, att)
    BY DEF AttachedLast
  <2>1. att \in Calls /\ m.call # att
    BY <1>1, <1>5 DEF TokensTrue, Typed
  <2> QED
    BY <1>2, <2>1 DEF IInv, AttachedLast
<1>12. ServedTrue'
  <2>1. ServedNow' => ServedNow
    BY <1>4, <1>5 DEF ServedNow
  <2>2. ServedNow /\ Fed => Fed'
    BY <1>4, NoPumpTyped DEF Fed
  <2> QED
    BY <2>1, <2>2 DEF IInv, ServedTrue
<1>13. CursorsTrue'
  <2>1. Len(log) \in Nat
    BY <1>1 DEF TokensTrue, Typed
  <2> QED
    BY <1>2, <1>4, <2>1, NoPumpTyped, NoResumeTyped DEF IInv, CursorsTrue
<1>14. HistoryTrue'
  <2> SUFFICES ASSUME att # None, stage[att] \in {"paging", "turning"}
               PROVE  /\ \A r \in Items(up') : r.call = att => r.after = 0 \/ r.after >= view.cursor
                      /\ \A x \in Items(down') : x.call = att /\ x.ok => x.item >= view.cursor
    BY DEF HistoryTrue
  <2>1. m.call = att => h.op = "snapshot"
    BY <1>2 DEF Asks, h
  <2> QED
    BY <1>2, <1>4, <2>1 DEF IInv, HistoryTrue, h
<1> QED
  BY <1>6, <1>7, <1>8, <1>9, <1>10, <1>11, <1>12, <1>13, <1>14 DEF IInv

(* A detach stops only the pump of an attachment that was given up.          *)
LEMMA HandleDetachKeeps ==
  ASSUME IInv, HandleDetach
  PROVE  IInv'
<1> USE NoneIsNoCall
<1> DEFINE m == Answer(Head(up).call, TRUE, 0)
<1>1. /\ TokensTrue /\ up # << >> /\ Head(up).op = "detach"
      /\ up' = Tail(up) /\ down' = Append(down, m)
      /\ UNCHANGED <<log, gen, attaching, stage, att, view>>
  BY DEF IInv, HandleDetach, Request, host
<1>2. /\ Head(up) \in Items(up) /\ Head(up).call \in Calls \cup {None} /\ Head(up).att \in Calls
      /\ Len(log) \in Nat
  BY <1>1, RequestTaken, OnTheWay DEF TokensTrue, Typed
<1>3. m \in Messages /\ m.call = Head(up).call /\ m.to = None /\ m.item <= Len(log)
  BY <1>2 DEF Messages, Answer
<1>4. pump' \in {pump, NoPump} /\ resuming' \in {resuming, NoResume}
  BY DEF HandleDetach, StopPump
<1>5. ServedNow => resuming' = NoResume /\ (pump' = pump \/ pump.id # att)
  <2> SUFFICES ASSUME ServedNow
               PROVE  resuming' = NoResume /\ (pump' = pump \/ pump.id # att)
    OBVIOUS
  <2>1. resuming = NoResume /\ Head(up).att # att
    BY <1>1, <1>2 DEF IInv, ServedTrue, DetachTrue
  <2>2. Head(up).att # resuming.prev
    BY <1>2, <2>1 DEF NoResume
  <2> QED
    BY <2>1, <2>2 DEF HandleDetach, StopPump
<1> HIDE DEF m
<1> QED
  BY <1>1, <1>3, <1>4, <1>5, AnswerKeeps

(* A page of the history is not older than the view.                         *)
LEMMA HandleSnapshotKeeps ==
  ASSUME IInv, HandleSnapshot
  PROVE  IInv'
<1> USE NoneIsNoCall
<1>1. /\ TokensTrue /\ up # << >> /\ Head(up).op = "snapshot" /\ up' = Tail(up)
      /\ UNCHANGED <<log, gen, attaching, stage, att, view, pump, resuming>>
  BY DEF IInv, HandleSnapshot, Request, host
<1>2. /\ Head(up) \in Items(up) /\ Head(up).call \in Calls \cup {None} /\ Head(up).after \in Nat
      /\ Head(up).call # None => stage[Head(up).call] \in {"paging", "turning"}
      /\ Len(log) \in Nat /\ view.cursor \in Nat
  BY <1>1, RequestTaken, OnTheWay DEF TokensTrue, Typed, Asks
<1>3. Head(up).after <= Len(log) /\ view.cursor <= Len(log)
  BY <1>2 DEF IInv, CursorsTrue
<1>4. PICK ok \in BOOLEAN, item \in {Snapshot(Head(up)), 0} :
        /\ down' = Append(down, Answer(Head(up).call, ok, item))
        /\ ok => item = Snapshot(Head(up))
  BY DEF HandleSnapshot
<1> DEFINE m == Answer(Head(up).call, ok, item)
<1>5. /\ m \in Messages /\ m.call = Head(up).call /\ m.to = None /\ m.item <= Len(log)
      /\ m.ok = ok /\ m.item = item
  BY <1>2, <1>3 DEF Messages, Answer, Snapshot
<1>6. m.call = att /\ m.ok /\ Head(up).op = "snapshot" => m.item >= view.cursor
  <2> SUFFICES ASSUME m.call = att, ok PROVE item >= view.cursor
    BY <1>5
  <2>1. CASE att = None
    <3>1. Head(up).call # None
      BY <1>1, <1>2 DEF TokensTrue, RequestsTrue
    <3> QED
      BY <1>5, <2>1, <3>1
  <2>2. CASE att # None
    <3>1. Head(up).after = 0 \/ Head(up).after >= view.cursor
      BY <1>2, <1>5, <2>2 DEF IInv, HistoryTrue
    <3> QED
      BY <1>2, <1>3, <1>4, <3>1 DEF Snapshot
  <2> QED
    BY <2>1, <2>2
<1>7. ServedNow => resuming' = NoResume
  BY <1>1 DEF IInv, ServedTrue
<1>8. down' = Append(down, m)
  BY <1>4
<1> HIDE DEF m
<1> QED
  BY <1>1, <1>5, <1>6, <1>7, <1>8, AnswerKeeps

(* An attach waits for the store, in order.                                  *)
LEMMA HandleAttachKeeps ==
  ASSUME IInv, HandleAttach
  PROVE  IInv'
<1> USE NoneIsNoCall
<1> DEFINE h == Head(up)
<1>1. /\ TokensTrue /\ up # << >> /\ h.op = "attach" /\ up' = Tail(up)
      /\ attaching' = Append(attaching, h)
      /\ UNCHANGED <<log, gen, down, stage, att, view, pump, resuming>>
  BY DEF IInv, HandleAttach, Request, host
<1>2. /\ h \in Items(up) /\ h \in Requests
      /\ up' \in Seq(Requests) /\ Items(up') \subseteq Items(up) /\ Unique(up')
      /\ Holds(up, h.call)
      /\ h.call # None => h.call \in Calls /\ stage[h.call] \in Asks(h.op)
      /\ \A c \in Calls : Holds(up', c) <=> Holds(up, c) /\ c # h.call
      /\ \A c, d \in Calls : Before(up, d, c) => Before(up', d, c)
      /\ \A c \in Calls : Followed(up, c) => Followed(up', c)
      /\ \A c \in Calls : Followed(up, c) /\ h.op \in Replaces => Holds(up, c)
  BY <1>1, RequestTaken
<1>3. h.call \in Calls /\ h.att = h.call /\ stage[h.call] = "attaching"
  BY <1>1, <1>2 DEF TokensTrue, RequestsTrue, Asks
<1>4. ~Holds(attaching, h.call) /\ ~Holds(down, h.call)
  BY <1>1, <1>2, <1>3 DEF TokensTrue, OneToken
<1>5. attaching \in Seq(Requests) /\ Unique(attaching)
  BY <1>1 DEF TokensTrue, Typed, OneToken
<1>6. attaching' \in Seq(Requests) /\ Items(attaching') = Items(attaching) \cup {h}
  BY <1>1, <1>2, <1>5, Appended
<1>7. /\ Unique(attaching')
      /\ \A c : Holds(attaching', c) <=> Holds(attaching, c) \/ h.call = c
      /\ \A c : h.call = c => Followed(attaching', c)
  BY <1>1, <1>2, <1>4, <1>5, AppendedOrder
<1>8. h.op = "attach" /\ h.op \in Replaces /\ stage' = stage /\ att' = att
  BY <1>1 DEF Replaces
<1> HIDE DEF h
<1>9. TokensTrue'
  <2>1. Typed'
    BY <1>1, <1>2, <1>6 DEF TokensTrue, Typed
  <2>2. RequestsTrue'
    BY <1>1, <1>2, <1>3, <1>6, <1>8 DEF TokensTrue, RequestsTrue
  <2>3. OneToken'
    BY <1>1, <1>2, <1>3, <1>4, <1>7 DEF TokensTrue, OneToken
  <2> QED
    BY <2>1, <2>2, <2>3 DEF TokensTrue
<1>10. LeavingTrue'
  BY <1>1, <1>2, <1>3 DEF IInv, LeavingTrue
<1>11. DetachTrue' /\ CurrentTrue' /\ FeedsTrue'
  BY <1>1, <1>2 DEF IInv, DetachTrue, CurrentTrue, FeedsTrue, Asked
<1>12. PagingTrue'
  BY <1>1, <1>2 DEF IInv, PagingTrue, Behind, TokensTrue, Typed
<1>13. AttachedLast'
  <2> SUFFICES ASSUME att # None, stage[att] \in {"attaching", "done"}
               PROVE  /\ \A d \in Calls : stage[d] \notin {"leaving", "asking"}
                      /\ Followed(up', att)
                      /\ Holds(up', att) \/ Followed(attaching', att)
    BY <1>8 DEF AttachedLast
  <2>1. att \in Calls /\ Followed(up, att)
    BY <1>1 DEF TokensTrue, Typed, IInv, AttachedLast
  <2>2. CASE h.call = att
    BY <1>2, <1>7, <2>1, <2>2 DEF IInv, AttachedLast
  <2>3. CASE h.call # att
    BY <1>2, <1>8, <2>1, <2>3 DEF IInv, AttachedLast
  <2> QED
    BY <2>2, <2>3
<1>14. ServedTrue'
  BY <1>1 DEF IInv, ServedTrue, ServedNow, Fed
<1>15. CursorsTrue'
  BY <1>1, <1>2, <1>6 DEF IInv, CursorsTrue
<1>16. HistoryTrue'
  BY <1>1, <1>2 DEF IInv, HistoryTrue
<1> QED
  BY <1>9, <1>10, <1>11, <1>12, <1>13, <1>14, <1>15, <1>16 DEF IInv

(* A served attachment has nothing on its way to the service.                *)
LEMMA ServedIsFree ==
  ASSUME IInv, ServedNow
  PROVE  /\ att \in Calls /\ ~Holds(up, att) /\ ~Holds(attaching, att)
         /\ Followed(up, att) /\ Followed(attaching, att)
<1>1. att \in Calls /\ TokensTrue
  BY DEF IInv, ServedNow, TokensTrue, Typed
<1>2. ~Holds(up, att) /\ ~Holds(attaching, att)
  <2>1. CASE stage[att] = "done"
    BY <1>1, <2>1, QuietIsFree DEF Free, Waiting
  <2>2. CASE stage[att] = "attaching" /\ \E m \in Items(down) : m.call = att /\ m.ok
    <3>1. Holds(down, att)
      BY <2>2, HoldsItem
    <3> QED
      BY <1>1, <3>1 DEF TokensTrue, OneToken
  <2> QED
    BY <2>1, <2>2 DEF ServedNow
<1>3. att # None /\ stage[att] \in {"attaching", "done"}
  BY DEF ServedNow
<1> QED
  BY <1>1, <1>2, <1>3 DEF IInv, AttachedLast

(* The pump of the attach that waited longest starts, or the read failed.    *)
LEMMA StartPumpKeeps ==
  ASSUME IInv, StartPump
  PROVE  IInv'
<1> USE NoneIsNoCall
<1> DEFINE r == Head(attaching)
<1>1. /\ TokensTrue /\ attaching # << >> /\ attaching' = Tail(attaching)
      /\ UNCHANGED <<log, gen, up, stage, att, view>>
  BY DEF IInv, StartPump, host
<1>2. attaching \in Seq(Requests) /\ Unique(attaching) /\ Len(log) \in Nat
  BY <1>1 DEF TokensTrue, Typed, OneToken
<1>3. /\ r \in Items(attaching) /\ r \in Requests
      /\ attaching' \in Seq(Requests) /\ Items(attaching') \subseteq Items(attaching)
  BY <1>1, <1>2, Taken
<1>4. /\ Unique(attaching')
      /\ Holds(attaching, r.call)
      /\ r.call # None => ~Holds(attaching', r.call)
      /\ \A c : Holds(attaching', c) => Holds(attaching, c)
      /\ \A c : Followed(attaching, c) => Followed(attaching', c)
      /\ \A c : Followed(attaching, c) /\ r.op \in Replaces => Holds(attaching, c)
  BY <1>1, <1>2, TakenOrder
<1>5. /\ r.op = "attach" /\ r.call \in Calls /\ r.att = r.call /\ stage[r.call] = "attaching"
      /\ r.after \in Nat /\ r.after <= Len(log) /\ r.call \in Calls \cup {None}
  BY <1>1, <1>3, OnTheWay DEF TokensTrue, RequestsTrue, IInv, CursorsTrue
<1>6. ~Holds(up, r.call) /\ ~Holds(down, r.call)
  BY <1>1, <1>4, <1>5 DEF TokensTrue, OneToken
<1>7. PICK ok \in BOOLEAN :
        /\ down' = Append(down, Answer(r.call, ok, 0))
        /\ ok => /\ pump' = NewPump(r.att, r.after)
                 /\ resuming' = NoResume
        /\ ~ok => pump' = pump /\ resuming' = resuming
  BY DEF StartPump
<1> DEFINE m == Answer(r.call, ok, 0)
<1>8. m \in Messages /\ m.call = r.call /\ m.to = None /\ m.item = 0 /\ m.ok = ok
  BY <1>5 DEF Messages, Answer
<1>9. down' = Append(down, m)
  BY <1>7
<1> HIDE DEF m
<1>10. /\ down' \in Seq(Messages) /\ Items(down') = Items(down) \cup {m} /\ Unique(down')
       /\ \A c : Holds(down', c) <=> Holds(down, c) \/ m.call = c
       /\ \A c, d : /\ Before(down, d, c)
                    /\ m.call = d => ~Holds(down, c) /\ c # d
                    => Before(down', d, c)
  BY <1>1, <1>6, <1>8, <1>9, MessageSent
<1>11. /\ pump' \in Pumps
       /\ pump'.id \in {pump.id, r.call} /\ pump'.after <= Len(log)
       /\ \A e \in Items(pump'.buf) : e <= Len(log)
       /\ resuming' \in {resuming, NoResume}
       /\ ok => pump'.id = r.call /\ ~pump'.over /\ resuming' = NoResume
  <2>1. r.att \in Calls \cup {None} /\ r.after \in Nat
    BY <1>5
  <2>2. CASE ok
    <3>1. pump' = NewPump(r.att, r.after)
      BY <1>7, <2>2
    <3> HIDE DEF r
    <3>2. pump' \in Pumps /\ pump'.id = r.att /\ pump'.after = r.after /\ pump'.over = FALSE
      BY ONLY <2>1, <3>1, NothingYet DEF NewPump
    <3>3. \A e : e \notin Items(pump'.buf)
      BY ONLY <2>1, <3>1, NothingYet DEF NewPump
    <3> QED
      BY <1>5, <1>7, <2>2, <3>2, <3>3
  <2>3. CASE ~ok
    BY <1>1, <1>7, <2>3 DEF IInv, TokensTrue, Typed, CursorsTrue
  <2> QED
    BY <2>2, <2>3
<1> HIDE DEF r
<1>12. TokensTrue'
  <2>1. Typed'
    BY <1>1, <1>3, <1>10, <1>11, NoResumeTyped DEF TokensTrue, Typed
  <2>2. RequestsTrue'
    BY <1>1, <1>3, <1>5, <1>8, <1>10, <1>11 DEF TokensTrue, RequestsTrue, NoResume, Waiting
  <2>3. resuming.call # r.call
    BY <1>1, <1>5 DEF TokensTrue, RequestsTrue
  <2>4. OneToken'
    BY <1>1, <1>4, <1>5, <1>6, <1>8, <1>10, <1>11, <2>3 DEF TokensTrue, OneToken, NoResume
  <2> QED
    BY <2>1, <2>2, <2>4 DEF TokensTrue
<1>13. LeavingTrue' /\ DetachTrue' /\ CurrentTrue'
  BY <1>1, <1>10 DEF IInv, LeavingTrue, DetachTrue, CurrentTrue
<1>14. FeedsTrue'
  BY <1>1, <1>5, <1>8, <1>10, <1>11 DEF IInv, FeedsTrue, Asked, NoResume
<1>15. PagingTrue'
  <2> SUFFICES ASSUME att # None, stage[att] \in {"paging", "turning"},
                      NEW d \in Calls, stage[d] = "leaving"
               PROVE  Behind(d, att)'
    BY <1>1 DEF PagingTrue
  <2>1. Behind(d, att) /\ m.call # d /\ m.call # att
    BY <1>5, <1>8 DEF IInv, PagingTrue
  <2> QED
    BY <1>1, <1>10, <2>1 DEF Behind
<1>16. AttachedLast'
  BY <1>1, <1>4 DEF IInv, AttachedLast
<1>17. ServedTrue'
  <2> SUFFICES ASSUME ServedNow' PROVE resuming' = NoResume /\ (view.status = "attached" => Fed')
    BY <1>1 DEF ServedTrue
  <2>1. CASE r.call = att
    <3>1. ok
      BY <1>1, <1>5, <1>6, <1>8, <1>10, <2>1, HoldsItem DEF ServedNow
    <3> QED
      BY <1>1, <1>11, <2>1, <3>1 DEF Fed
  <2>2. CASE r.call # att
    <3>1. ServedNow
      BY <1>1, <1>8, <1>10, <2>2 DEF ServedNow
    <3>2. Holds(attaching, att)
      BY <1>4, <1>5, <3>1, ServedIsFree DEF Replaces
    <3> QED
      BY <3>1, <3>2, ServedIsFree
  <2> QED
    BY <2>1, <2>2
<1>18. CursorsTrue'
  BY <1>1, <1>2, <1>3, <1>8, <1>10, <1>11, NoResumeTyped DEF IInv, CursorsTrue
<1>19. HistoryTrue'
  BY <1>1, <1>5, <1>8, <1>10 DEF IInv, HistoryTrue
<1> QED
  BY <1>12, <1>13, <1>14, <1>15, <1>16, <1>17, <1>18, <1>19 DEF IInv

(* A resume stops the pump.                                                  *)
LEMMA HandleResumeKeeps ==
  ASSUME IInv, HandleResume
  PROVE  IInv'
<1> USE NoneIsNoCall
<1> DEFINE h == Head(up)
<1>1. /\ TokensTrue /\ up # << >> /\ h.op = "resume" /\ up' = Tail(up)
      /\ pump' = NoPump /\ resuming' = NewResume(h.call, pump.id)
      /\ UNCHANGED <<log, gen, attaching, down, stage, att, view>>
  BY DEF IInv, HandleResume, Request, host
<1>2. /\ h \in Items(up) /\ h \in Requests
      /\ up' \in Seq(Requests) /\ Items(up') \subseteq Items(up) /\ Unique(up')
      /\ Holds(up, h.call)
      /\ h.call # None => h.call \in Calls /\ stage[h.call] \in Asks(h.op)
      /\ \A c \in Calls : Holds(up', c) <=> Holds(up, c) /\ c # h.call
      /\ \A c, d \in Calls : Before(up, d, c) => Before(up', d, c)
      /\ \A c \in Calls : Followed(up, c) => Followed(up', c)
      /\ \A c \in Calls : Followed(up, c) /\ h.op \in Replaces => Holds(up, c)
  BY <1>1, RequestTaken
<1>3. h.call \in Calls /\ stage[h.call] = "resuming"
  BY <1>1, <1>2 DEF TokensTrue, RequestsTrue, Asks
<1>4. resuming'.call = h.call /\ resuming'.prev = pump.id /\ resuming'.last = 0
  BY <1>1
<1> HIDE DEF h
<1>5. TokensTrue'
  <2>1. Typed'
    BY <1>1, <1>2, <1>3, NoPumpTyped DEF TokensTrue, Typed
  <2>2. RequestsTrue'
    BY <1>1, <1>2, <1>3, <1>4 DEF TokensTrue, RequestsTrue
  <2>3. OneToken'
    BY <1>1, <1>2, <1>3, <1>4 DEF TokensTrue, OneToken
  <2> QED
    BY <2>1, <2>2, <2>3 DEF TokensTrue
<1>6. LeavingTrue'
  BY <1>1, <1>2, <1>3 DEF IInv, LeavingTrue
<1>7. DetachTrue' /\ CurrentTrue'
  BY <1>1, <1>2 DEF IInv, DetachTrue, CurrentTrue
<1>8. FeedsTrue'
  BY <1>1, <1>4, NoPumpTyped DEF IInv, FeedsTrue, Asked
<1>9. PagingTrue'
  BY <1>1, <1>2 DEF IInv, PagingTrue, Behind, TokensTrue, Typed
<1>10. AttachedLast'
  <2> SUFFICES ASSUME att # None, stage[att] \in {"attaching", "done"}
               PROVE  /\ \A d \in Calls : stage[d] \notin {"leaving", "asking"}
                      /\ Followed(up', att)
                      /\ Holds(up', att) \/ Followed(attaching, att)
    BY <1>1 DEF AttachedLast
  <2>1. att \in Calls /\ h.call # att
    BY <1>1, <1>3 DEF TokensTrue, Typed
  <2> QED
    BY <1>2, <2>1 DEF IInv, AttachedLast
<1>11. ServedTrue'
  <2> SUFFICES ASSUME ServedNow' PROVE FALSE
    BY DEF ServedTrue
  <2>1. ServedNow
    BY <1>1 DEF ServedNow
  <2>2. Holds(up, att)
    BY <1>1, <1>2, <2>1, ServedIsFree DEF Replaces
  <2> QED
    BY <2>1, <2>2, ServedIsFree
<1>12. CursorsTrue'
  <2>1. Len(log) \in Nat
    BY <1>1 DEF TokensTrue, Typed
  <2> QED
    BY <1>1, <1>2, <1>4, <2>1, NoPumpTyped DEF IInv, CursorsTrue
<1>13. HistoryTrue'
  BY <1>1, <1>2 DEF IInv, HistoryTrue
<1> QED
  BY <1>5, <1>6, <1>7, <1>8, <1>9, <1>10, <1>11, <1>12, <1>13 DEF IInv

(* The Host has resumed: an attachment that was stopped is told to start over. *)
LEMMA ResumeToldKeeps ==
  ASSUME IInv, ResumeTold
  PROVE  IInv'
<1> USE NoneIsNoCall
<1> DEFINE u == Update(resuming.prev, Resync)
<1>1. /\ TokensTrue /\ resuming.prev # None /\ down' = Append(down, u)
      /\ resuming' = [resuming EXCEPT !.told = TRUE, !.last = Len(log)]
      /\ UNCHANGED <<log, gen, pump, attaching, up, stage, att, view>>
  BY DEF IInv, ResumeTold, host
<1>2. /\ resuming \in Resumptions /\ Len(log) \in Nat /\ Asked(resuming.prev)
      /\ pump' \in Pumps /\ Asked(pump'.id) /\ pump'.after <= Len(log)
      /\ \A e \in Items(pump'.buf) : e <= Len(log)
  BY <1>1 DEF IInv, TokensTrue, Typed, FeedsTrue, CursorsTrue, Asked
<1>3. u \in Messages /\ u.call = None /\ u.to = resuming.prev /\ u.item <= Len(log)
  BY <1>2 DEF Messages, Update, Resync
<1>4. ~ServedNow
  BY <1>1 DEF IInv, ServedTrue, NoResume
<1>5. /\ resuming' \in Resumptions /\ resuming'.call = resuming.call
      /\ resuming'.prev = resuming.prev /\ resuming'.last <= Len(log)
  <2>1. /\ Len(log) \in Nat /\ Len(log) <= Len(log) /\ resuming \in Resumptions
        /\ resuming' = [resuming EXCEPT !.told = TRUE, !.last = Len(log)]
    BY <1>1, <1>2
  <2> QED
    BY ONLY <2>1 DEF Resumptions
<1> HIDE DEF u
<1>6. /\ down' \in Seq(Messages) /\ Items(down') = Items(down) \cup {u} /\ Unique(down')
      /\ \A c : Holds(down', c) <=> Holds(down, c) \/ u.call = c
      /\ \A c, d : /\ Before(down, d, c)
                   /\ u.call = d => ~Holds(down, c) /\ c # d
                   => Before(down', d, c)
  BY <1>1, <1>3, MessageSent
<1>7. /\ \A d \in Calls : Holds(down', d) <=> Holds(down, d)
      /\ \A d, e \in Calls : Before(down, d, e) => Before(down', d, e)
  BY <1>3, <1>6
<1>8. \A m \in Items(down') :
        \/ m \in Items(down)
        \/ m.call = None /\ Asked(m.to) /\ m.item <= Len(log)
  BY <1>2, <1>3, <1>6
<1>9. None \in Calls \cup {None} /\ Items(down) \subseteq Items(down')
  BY <1>6
<1> QED
  BY <1>1, <1>2, <1>4, <1>5, <1>6, <1>7, <1>8, <1>9, ToldKeeps

(* It gets a pump again, and the call its answer.                            *)
LEMMA ResumedKeeps ==
  ASSUME IInv, Resumed
  PROVE  IInv'
<1> USE NoneIsNoCall
<1> DEFINE w == resuming.call
           prev == resuming.prev
           a == Answer(w, TRUE, 0)
<1>1. /\ TokensTrue /\ w # None /\ resuming' = NoResume /\ down' = Append(down, a)
      /\ pump' = IF prev # None THEN NewPump(prev, resuming.last) ELSE pump
      /\ UNCHANGED <<log, gen, attaching, up, stage, att, view>>
  BY DEF IInv, Resumed, host
<1>2. /\ w \in Calls /\ w \in Calls \cup {None} /\ prev \in Calls \cup {None}
      /\ Asked(prev) /\ Asked(None) /\ resuming.last \in Nat /\ resuming.last <= Len(log)
      /\ stage[w] = "resuming" /\ ~Holds(up, w) /\ ~Holds(down, w) /\ Len(log) \in Nat
  BY <1>1 DEF IInv, TokensTrue, Typed, RequestsTrue, OneToken, FeedsTrue, CursorsTrue, Asked
<1>3. a \in Messages /\ a.call = w /\ a.to = None /\ a.item <= Len(log)
  BY <1>2 DEF Messages, Answer
<1>4. ~ServedNow
  BY <1>1 DEF IInv, ServedTrue, NoResume
<1>5. /\ resuming' \in Resumptions /\ resuming'.call = None /\ resuming'.prev = None
      /\ resuming'.last <= Len(log)
  BY <1>1, <1>2, NoResumeTyped
<1> HIDE DEF w, prev, a
<1>6. /\ down' \in Seq(Messages) /\ Items(down') = Items(down) \cup {a} /\ Unique(down')
      /\ \A c : Holds(down', c) <=> Holds(down, c) \/ a.call = c
      /\ \A c, d : /\ Before(down, d, c)
                   /\ a.call = d => ~Holds(down, c) /\ c # d
                   => Before(down', d, c)
  BY <1>1, <1>2, <1>3, MessageSent
<1>7. /\ pump' \in Pumps /\ Asked(pump'.id) /\ pump'.after <= Len(log)
      /\ \A e \in Items(pump'.buf) : e <= Len(log)
  <2>1. CASE prev # None
    <3>1. pump' = NewPump(prev, resuming.last) /\ prev \in Calls \cup {None} /\ resuming.last \in Nat
      BY <1>1, <1>2, <2>1
    <3>2. pump' \in Pumps /\ pump'.id = prev /\ pump'.after = resuming.last
      BY ONLY <3>1, NothingYet DEF NewPump
    <3>3. \A e : e \notin Items(pump'.buf)
      BY ONLY <3>1, NothingYet DEF NewPump
    <3> QED
      BY <1>2, <3>2, <3>3
  <2>2. CASE prev = None
    BY <1>1, <2>2 DEF IInv, TokensTrue, Typed, FeedsTrue, CursorsTrue, Asked
  <2> QED
    BY <2>1, <2>2
<1>8. /\ Items(down) \subseteq Items(down')
      /\ \A m \in Items(down') :
            \/ m \in Items(down)
            \/ /\ m.call \in {None, w} /\ Asked(m.to) /\ m.item <= Len(log)
               /\ m.to # None => m.call = None
  BY <1>2, <1>3, <1>6
<1>9. /\ \A d \in Calls : Holds(down', d) <=> Holds(down, d) \/ d = w
      /\ \A d, e \in Calls : d # w /\ e # w /\ Before(down, d, e) => Before(down', d, e)
  BY <1>3, <1>6
<1> QED
  BY <1>1, <1>2, <1>4, <1>5, <1>6, <1>7, <1>8, <1>9, ToldKeeps

(* The resume failed, or was withdrawn.                                      *)
LEMMA ResumeFailsKeeps ==
  ASSUME IInv, NEW c \in Calls, ResumeFails(c)
  PROVE  IInv'
<1> USE NoneIsNoCall
<1> DEFINE a == Answer(c, FALSE, 0)
<1>1. /\ TokensTrue /\ stage[c] = "resuming" /\ resuming' \in {resuming, NoResume}
      /\ c = resuming.call => resuming' = NoResume
      /\ down' = Append(down, a)
      /\ UNCHANGED <<log, gen, pump, attaching, up, stage, att, view>>
  BY DEF IInv, ResumeFails, host
<1>2. ~Holds(up, c) /\ ~Holds(down, c)
  BY DEF ResumeFails, Holds
<1>3. Len(log) \in Nat /\ Asked(None) /\ c \in Calls \cup {None}
  BY <1>1 DEF TokensTrue, Typed, Asked
<1>4. a \in Messages /\ a.call = c /\ a.to = None /\ a.item <= Len(log)
  BY <1>3 DEF Messages, Answer
<1> HIDE DEF a
<1>5. /\ down' \in Seq(Messages) /\ Items(down') = Items(down) \cup {a} /\ Unique(down')
      /\ \A d : Holds(down', d) <=> Holds(down, d) \/ a.call = d
      /\ \A e, d : /\ Before(down, d, e)
                   /\ a.call = d => ~Holds(down, e) /\ e # d
                   => Before(down', d, e)
  BY <1>1, <1>2, <1>4, MessageSent
<1>6. /\ pump' \in Pumps
      /\ Asked(pump'.id) /\ pump'.after <= Len(log)
      /\ \A e \in Items(pump'.buf) : e <= Len(log)
      /\ resuming' \in Resumptions /\ resuming'.last <= Len(log)
      /\ resuming'.call \in {resuming.call, None} /\ resuming'.prev \in {resuming.prev, None}
      /\ c = resuming.call => resuming'.call = None
  BY <1>1, <1>3, NoResumeTyped DEF IInv, TokensTrue, Typed, FeedsTrue, CursorsTrue, Asked
<1>7. Fed => Fed'
  BY <1>1, <1>5 DEF Fed
<1>8. \A d, e \in Calls : d # c /\ e # c /\ Before(down, d, e) => Before(down', d, e)
  BY <1>4, <1>5
<1>9. \A d \in Calls : Holds(down', d) <=> Holds(down, d) \/ d = c
  BY <1>4, <1>5
<1>10. \A m \in Items(down') :
            \/ m \in Items(down)
            \/ /\ m.call \in {None, c} /\ Asked(m.to) /\ m.item <= Len(log)
               /\ m.to # None => m.call = None
  BY <1>3, <1>4, <1>5
<1> QED
  BY <1>1, <1>2, <1>3, <1>5, <1>6, <1>7, <1>8, <1>9, <1>10, ToldKeeps

-----------------------------------------------------------------------------
(* The client: a call goes on, perhaps with its answer and a new request. *)

(* What every step of a call does with the queues and the stages.            *)
CallMoves(c, s) ==
  /\ UNCHANGED <<log, gen, pump, attaching, resuming>>
  /\ ~Holds(up, c) /\ ~Holds(attaching, c) /\ ~Holds(down', c) /\ resuming.call # c
  /\ down' \in Seq(Messages) /\ Unique(down') /\ Items(down') \subseteq Items(down)
  /\ \A m \in Items(down) : m.to # None => m \in Items(down')
  /\ \A d \in Calls : d # c => (Holds(down', d) <=> Holds(down, d))
  /\ \A d, e \in Calls : Before(down, d, e) => Before(down', d, e)
  /\ stage' = [stage EXCEPT ![c] = s]
  /\ \/ up' = up
     \/ \E r \in Requests :
          /\ r.call = c /\ s \in Asks(r.op) /\ (r.op # "detach" => r.att = c)
          /\ r.after <= Len(log)
          /\ r.op = "detach" => r.att # att' /\ stage'[r.att] \in Begun
          /\ up' = Append(up, r)

(* What that means for the requests.                                         *)
LEMMA RequestsMove ==
  ASSUME TokensTrue, NEW c \in Calls, NEW s \in Stages, CallMoves(c, s)
  PROVE  /\ stage'[c] = s /\ \A d \in Calls : d # c => stage'[d] = stage[d]
         /\ \A d \in Calls : d # c => (Holds(up', d) <=> Holds(up, d))
         /\ \A d, e \in Calls : d # c /\ Before(up, d, e) => Before(up', d, e)
         /\ up' # up => Holds(up', c) /\ Followed(up', c)
         /\ \A r \in Items(up') :
              \/ r \in Items(up)
              \/ /\ up' # up /\ r.call = c /\ r.after <= Len(log)
                 /\ r.op = "detach" => r.att # att' /\ stage'[r.att] \in Begun
<1>1. up \in Seq(Requests) /\ Unique(up) /\ stage \in [Calls -> Stages]
  BY DEF TokensTrue, Typed, OneToken
<1>2. stage'[c] = s /\ \A d \in Calls : d # c => stage'[d] = stage[d]
  BY <1>1 DEF CallMoves
<1>3. CASE up' = up
  BY <1>2, <1>3
<1>4. CASE up' # up
  <2>1. PICK r \in Requests :
          /\ r.call = c /\ r.after <= Len(log)
          /\ r.op = "detach" => r.att # att' /\ stage'[r.att] \in Begun
          /\ up' = Append(up, r)
    BY <1>4 DEF CallMoves
  <2>2. ~Holds(up, c)
    BY DEF CallMoves
  <2>3. up' \in Seq(Requests) /\ Items(up') = Items(up) \cup {r}
    BY <1>1, <2>1, Appended
  <2>4. /\ \A d : Holds(up', d) <=> Holds(up, d) \/ r.call = d
        /\ \A e, d : /\ Before(up, d, e)
                     /\ r.call = d => ~Holds(up, e) /\ e # d
                     => Before(up', d, e)
        /\ \A d : r.call = d => Followed(up', d)
    BY <1>1, <2>1, <2>2, AppendedOrder
  <2> QED
    BY <1>2, <1>4, <2>1, <2>3, <2>4
<1> QED
  BY <1>3, <1>4

(* What every such step keeps.                                               *)
LEMMA MoveKeeps ==
  ASSUME IInv, NEW c \in Calls, NEW s \in Stages, CallMoves(c, s),
         att' \in {None, att, c}, att' = c => att = c \/ stage[c] \notin Begun,
         view' = [cursor |-> view'.cursor, gen |-> view'.gen, status |-> view'.status],
         view'.cursor \in Nat, view'.cursor <= Len(log),
         s = "leaving" => up' # up,
         stage[c] \in Begun => s \in Begun,
         stage[c] \in {"attaching", "done", "failed"} => s \in {"attaching", "done", "failed"}
  PROVE  TokensTrue' /\ LeavingTrue' /\ DetachTrue' /\ FeedsTrue' /\ CursorsTrue'
<1> USE NoneIsNoCall
<1>1. TokensTrue
  BY DEF IInv
<1>2. /\ UNCHANGED <<log, gen, pump, attaching, resuming>>
      /\ down' \in Seq(Messages) /\ Items(down') \subseteq Items(down)
      /\ \A d \in Calls : d # c => (Holds(down', d) <=> Holds(down, d))
  BY DEF CallMoves
<1>3. /\ stage'[c] = s /\ \A d \in Calls : d # c => stage'[d] = stage[d]
      /\ \A d \in Calls : d # c => (Holds(up', d) <=> Holds(up, d))
      /\ up' # up => Holds(up', c)
      /\ \A r \in Items(up') :
           \/ r \in Items(up)
           \/ /\ up' # up /\ r.call = c /\ r.after <= Len(log)
              /\ r.op = "detach" => r.att # att' /\ stage'[r.att] \in Begun
  BY <1>1, RequestsMove
<1>4. RequestsTrue' /\ OneToken' /\ up' \in Seq(Requests) /\ stage' \in [Calls -> Stages]
  <2>1. \A d : Holds(down', d) => Holds(down, d)
    BY <1>2, HoldsItem
  <2> QED
    BY <1>1, <2>1, GoesOn DEF CallMoves
<1>5. TokensTrue'
  BY <1>1, <1>2, <1>4 DEF TokensTrue, Typed
<1>6. LeavingTrue'
  BY <1>2, <1>3 DEF IInv, LeavingTrue
<1>7. DetachTrue'
  <2> SUFFICES ASSUME NEW r \in Items(up'), r.op = "detach"
               PROVE  r.att # att' /\ stage'[r.att] \in Begun
    BY DEF DetachTrue
  <2>1. CASE r \in Items(up)
    <3>1. r.att \in Calls /\ r.att # att /\ stage[r.att] \in Begun
      BY <1>1, <2>1, OnTheWay DEF TokensTrue, IInv, DetachTrue
    <3> QED
      BY <1>3, <3>1
  <2>2. CASE r \notin Items(up)
    BY <1>3, <2>2
  <2> QED
    BY <2>1, <2>2
<1>8. FeedsTrue'
  <2>1. \A x \in Calls \cup {None} : Asked(x) => Asked(x)'
    BY <1>3 DEF Asked
  <2>2. /\ pump.id \in Calls \cup {None} /\ resuming.prev \in Calls \cup {None}
        /\ \A m \in Items(down) : m.to \in Calls \cup {None}
    BY <1>1, OnTheWay DEF TokensTrue, Typed
  <2>3. Asked(pump.id)' /\ Asked(resuming.prev)'
    BY <1>2, <2>1, <2>2 DEF IInv, FeedsTrue, Asked
  <2>4. \A m \in Items(down') : m.to # None => stage'[m.to] \in {"attaching", "done", "failed"}
    BY <1>2, <2>1, <2>2 DEF IInv, FeedsTrue, Asked
  <2> QED
    BY <2>3, <2>4 DEF FeedsTrue, Asked
<1>9. CursorsTrue'
  BY <1>2, <1>3 DEF IInv, CursorsTrue
<1> QED
  BY <1>5, <1>6, <1>7, <1>8, <1>9

(* The client takes the answer to a call.                                    *)
LEMMA AnswerTaken ==
  ASSUME TokensTrue, NEW c \in Calls, NEW s, Answered(c, s)
  PROVE  /\ UNCHANGED <<log, gen, pump, attaching, resuming>>
         /\ down # << >> /\ stage[c] = s
         /\ Head(down) \in Items(down) /\ Head(down) \in Messages /\ Head(down).call = c
         /\ ~Holds(up, c) /\ ~Holds(attaching, c) /\ ~Holds(down', c) /\ resuming.call # c
         /\ down' \in Seq(Messages) /\ Unique(down') /\ Items(down') \subseteq Items(down)
         /\ \A m \in Items(down) : m.to # None => m \in Items(down')
         /\ Holds(down, c)
         /\ \A d \in Calls : d # c => (Holds(down', d) <=> Holds(down, d))
         /\ \A d, e \in Calls : Before(down, d, e) => Before(down', d, e)
         /\ \A d \in Calls : Before(down, d, c) => ~Holds(down, d)
         /\ \A d \in Calls : stage[d] \notin {"asking", "ready"}
<1> USE NoneIsNoCall
<1>1. /\ down # << >> /\ Head(down).call = c /\ down' = Tail(down) /\ stage[c] = s
      /\ UNCHANGED <<log, gen, pump, attaching, resuming>>
      /\ \A d \in Calls : stage[d] \notin {"asking", "ready"}
  BY DEF Answered, NextMessage, host
<1>2. down \in Seq(Messages) /\ Unique(down)
  BY DEF TokensTrue, Typed, OneToken
<1>3. /\ Head(down) \in Messages /\ Head(down) \in Items(down) /\ Tail(down) \in Seq(Messages)
      /\ Items(Tail(down)) \subseteq Items(down)
      /\ Items(down) = Items(Tail(down)) \cup {Head(down)}
  BY <1>1, <1>2, Taken
<1>4. /\ Unique(Tail(down))
      /\ Holds(down, c)
      /\ ~Holds(Tail(down), c)
      /\ \A d : d # c => (Holds(Tail(down), d) <=> Holds(down, d))
      /\ \A e, d : Before(down, d, e) => Before(Tail(down), d, e)
      /\ \A d : Before(down, d, c) => ~Holds(down, d)
  BY <1>1, <1>2, TakenOrder
<1>5. ~Holds(up, c) /\ ~Holds(attaching, c) /\ resuming.call # c
  BY <1>1, AnsweredIsFree
<1>6. Head(down).to = None
  BY <1>1, <1>3 DEF TokensTrue, RequestsTrue
<1> QED
  BY <1>1, <1>3, <1>4, <1>5, <1>6

(* An attachment that is given up leaves nothing to keep but the queues.     *)
LEMMA GivenUpKeeps ==
  ASSUME IInv, NEW c \in Calls, NEW s \in Stages, CallMoves(c, s), att' = None,
         view' \in {view, [view EXCEPT !.status = "detached"], [view EXCEPT !.status = "resync"]},
         s = "leaving" => up' # up,
         stage[c] \in Begun => s \in Begun,
         stage[c] \in {"attaching", "done", "failed"} => s \in {"attaching", "done", "failed"}
  PROVE  IInv'
<1>1. /\ view'.cursor = view.cursor
      /\ view' = [cursor |-> view'.cursor, gen |-> view'.gen, status |-> view'.status]
  BY DEF IInv, TokensTrue, Typed
<1>2. view'.cursor \in Nat /\ view'.cursor <= Len(log)
  BY <1>1 DEF IInv, TokensTrue, Typed, CursorsTrue
<1>3. TokensTrue' /\ LeavingTrue' /\ DetachTrue' /\ FeedsTrue' /\ CursorsTrue'
  <2>1. att' \in {None, att, c} /\ (att' = c => att = c \/ stage[c] \notin Begun)
    BY NoneIsNoCall
  <2> QED
    BY <1>1, <1>2, <2>1, MoveKeeps
<1>4. CurrentTrue' /\ PagingTrue' /\ AttachedLast' /\ ServedTrue' /\ HistoryTrue'
  BY DEF CurrentTrue, PagingTrue, AttachedLast, ServedTrue, ServedNow, HistoryTrue
<1> QED
  BY <1>3, <1>4 DEF IInv

(* A call that does not have the client's attachment does not disturb it.    *)
LEMMA OtherKeeps ==
  ASSUME IInv, NEW c \in Calls, NEW s \in Stages, CallMoves(c, s),
         c # att, UNCHANGED <<att, view>>,
         s # "leaving", s = "asking" => stage[c] = "leaving", up' = up \/ stage[c] = "asking",
         stage[c] \in Begun => s \in Begun,
         stage[c] \in {"attaching", "done", "failed"} => s \in {"attaching", "done", "failed"}
  PROVE  IInv'
<1> USE NoneIsNoCall
<1>1. TokensTrue
  BY DEF IInv
<1>2. /\ stage'[c] = s /\ \A d \in Calls : d # c => stage'[d] = stage[d]
      /\ \A d \in Calls : d # c => (Holds(up', d) <=> Holds(up, d))
      /\ \A d, e \in Calls : d # c /\ Before(up, d, e) => Before(up', d, e)
      /\ \A r \in Items(up') : r \in Items(up) \/ r.call = c
  BY <1>1, RequestsMove
<1>3. /\ UNCHANGED <<log, gen, pump, attaching, resuming>>
      /\ down' \in Seq(Messages) /\ Items(down') \subseteq Items(down)
      /\ \A m \in Items(down) : m.to # None => m \in Items(down')
      /\ \A d \in Calls : d # c => (Holds(down', d) <=> Holds(down, d))
      /\ \A d, e \in Calls : Before(down, d, e) => Before(down', d, e)
  BY DEF CallMoves
<1>4. att # None => att \in Calls /\ stage'[att] = stage[att]
  BY <1>1, <1>2 DEF TokensTrue, Typed
<1>5. TokensTrue' /\ LeavingTrue' /\ DetachTrue' /\ FeedsTrue' /\ CursorsTrue'
  <2>1. att' \in {None, att, c} /\ (att' = c => att = c \/ stage[c] \notin Begun)
    OBVIOUS
  <2>2. /\ view' = [cursor |-> view'.cursor, gen |-> view'.gen, status |-> view'.status]
        /\ view'.cursor \in Nat /\ view'.cursor <= Len(log)
    BY DEF IInv, TokensTrue, Typed, CursorsTrue
  <2> QED
    BY <2>1, <2>2, MoveKeeps
<1>6. CurrentTrue'
  BY <1>4 DEF IInv, CurrentTrue
<1>7. PagingTrue'
  <2> SUFFICES ASSUME att # None, stage[att] \in {"paging", "turning"},
                      NEW d \in Calls, stage'[d] = "leaving"
               PROVE  Behind(d, att)'
    BY <1>4 DEF PagingTrue
  <2>1. d # c /\ stage[d] = "leaving" /\ Behind(d, att)
    BY <1>2 DEF IInv, PagingTrue
  <2> QED
    BY <1>2, <1>3, <1>4, <2>1 DEF Behind
<1>8. AttachedLast'
  <2> SUFFICES ASSUME att # None, stage[att] \in {"attaching", "done"}
               PROVE  /\ \A d \in Calls : stage'[d] \notin {"leaving", "asking"}
                      /\ Followed(up', att)
                      /\ Holds(up', att) \/ Followed(attaching, att)
    BY <1>3, <1>4 DEF AttachedLast
  <2>1. stage[c] \notin {"leaving", "asking"}
    BY DEF IInv, AttachedLast
  <2> QED
    BY <1>2, <2>1 DEF IInv, AttachedLast
<1>9. ServedTrue'
  <2>1. ServedNow' => ServedNow
    BY <1>3, <1>4 DEF ServedNow
  <2>2. ServedNow /\ Fed => Fed'
    BY <1>3 DEF Fed, ServedNow
  <2> QED
    BY <1>3, <2>1, <2>2 DEF IInv, ServedTrue
<1>10. HistoryTrue'
  BY <1>2, <1>3, <1>4 DEF IInv, HistoryTrue
<1> QED
  BY <1>5, <1>6, <1>7, <1>8, <1>9, <1>10 DEF IInv

(* A call that waits for nothing goes on by itself.                          *)
LEMMA StartsMove ==
  ASSUME TokensTrue, NEW c \in Calls, NEW s \in Stages, stage[c] \notin Waiting,
         UNCHANGED <<log, gen, pump, attaching, resuming, down>>,
         stage' = [stage EXCEPT ![c] = s],
         \/ up' = up
         \/ \E r \in Requests :
              /\ r.call = c /\ s \in Asks(r.op) /\ (r.op # "detach" => r.att = c)
              /\ r.after <= Len(log)
              /\ r.op = "detach" => r.att # att' /\ stage'[r.att] \in Begun
              /\ up' = Append(up, r)
  PROVE  CallMoves(c, s)
<1>1. Free(c)
  BY QuietIsFree
<1> QED
  BY <1>1 DEF CallMoves, Free, TokensTrue, Typed, OneToken

(* A call goes on with its answer.                                           *)
LEMMA ContinuesMove ==
  ASSUME TokensTrue, NEW c \in Calls, NEW s \in Stages, NEW t, Answered(c, t),
         stage' = [stage EXCEPT ![c] = s],
         \/ up' = up
         \/ \E r \in Requests :
              /\ r.call = c /\ s \in Asks(r.op) /\ (r.op # "detach" => r.att = c)
              /\ r.after <= Len(log)
              /\ r.op = "detach" => r.att # att' /\ stage'[r.att] \in Begun
              /\ up' = Append(up, r)
  PROVE  CallMoves(c, s)
<1>1. /\ UNCHANGED <<log, gen, pump, attaching, resuming>>
      /\ ~Holds(up, c) /\ ~Holds(attaching, c) /\ ~Holds(down', c) /\ resuming.call # c
      /\ down' \in Seq(Messages) /\ Unique(down') /\ Items(down') \subseteq Items(down)
      /\ \A m \in Items(down) : m.to # None => m \in Items(down')
      /\ \A d \in Calls : d # c => (Holds(down', d) <=> Holds(down, d))
      /\ \A d, e \in Calls : Before(down, d, e) => Before(down', d, e)
  BY AnswerTaken
<1> QED
  BY <1>1 DEF CallMoves

(* What detach() does: the attachment is forgotten, the service told of it.  *)
LEMMA DetachDoes ==
  ASSUME IInv, NEW c \in Calls, NEW w \in {"leaving", "clearing"}, NEW n \in {"asking", "ready"},
         Detach(c, w, n), stage[c] \in {"idle", "resuming"}
  PROVE  /\ att' = None
         /\ view' \in {view, [view EXCEPT !.status = "detached"], [view EXCEPT !.status = "resync"]}
         /\ \E s \in {w, n} :
              /\ stage' = [stage EXCEPT ![c] = s] /\ (s = "leaving" => up' # up)
              /\ \/ up' = up
                 \/ \E r \in Requests :
                      /\ r.call = c /\ s \in Asks(r.op) /\ (r.op # "detach" => r.att = c)
                      /\ r.after <= Len(log)
                      /\ r.op = "detach" => r.att # att' /\ stage'[r.att] \in Begun
                      /\ up' = Append(up, r)
<1> USE NoneIsNoCall
<1>1. /\ att' = None
      /\ view' \in {view, [view EXCEPT !.status = "detached"], [view EXCEPT !.status = "resync"]}
  BY DEF Detach, Status
<1>2. /\ stage \in [Calls -> Stages] /\ up \in Seq(Requests) /\ att \in Calls \cup {None}
      /\ Len(log) \in Nat
  BY DEF IInv, TokensTrue, Typed
<1>3. CASE att = None
  <2>1. stage' = [stage EXCEPT ![c] = n] /\ up' = up /\ n # "leaving"
    BY <1>3 DEF Detach, At
  <2> QED
    BY <1>1, <2>1
<1>4. CASE att # None
  <2> DEFINE r == [op |-> "detach", call |-> c, att |-> att, after |-> 0]
  <2>1. stage' = [stage EXCEPT ![c] = w] /\ up' = Append(up, r)
    BY <1>4 DEF Detach, At
  <2>2. r \in Requests /\ r.op = "detach" /\ r.call = c /\ r.att = att /\ r.after = 0
    BY <1>2, <1>4 DEF Requests
  <2> HIDE DEF r
  <2>3. stage[att] \in Begun /\ stage[c] \notin Begun
    BY <1>4 DEF IInv, CurrentTrue, Begun
  <2>4. stage'[att] \in Begun /\ w \in Asks(r.op)
    BY <1>2, <1>4, <2>1, <2>2, <2>3 DEF Asks
  <2>5. up' # up
    <3>1. Len(Append(up, r)) = Len(up) + 1 /\ Len(up) \in Nat
      BY <1>2
    <3> QED
      BY <2>1, <3>1
  <2>6. r.after <= Len(log) /\ r.att # att'
    BY <1>1, <1>2, <1>4, <2>2
  <2> QED
    BY <1>1, <2>1, <2>2, <2>4, <2>5, <2>6
<1> QED
  BY <1>3, <1>4

(* restore() and resume() begin.                                             *)
LEMMA BeginKeeps ==
  ASSUME IInv, NEW c \in Calls, Begin(c)
  PROVE  IInv'
<1>1. stage[c] = "idle" /\ UNCHANGED <<log, gen, pump, attaching, resuming, down>> /\ TokensTrue
  BY DEF Begin, host, IInv
<1>2. Detach(c, "leaving", "asking") \/ Detach(c, "clearing", "ready")
  BY DEF Begin
<1>3. /\ att' = None
      /\ view' \in {view, [view EXCEPT !.status = "detached"], [view EXCEPT !.status = "resync"]}
      /\ \E s \in {"leaving", "clearing", "asking", "ready"} :
              /\ stage' = [stage EXCEPT ![c] = s] /\ (s = "leaving" => up' # up)
              /\ \/ up' = up
                 \/ \E r \in Requests :
                      /\ r.call = c /\ s \in Asks(r.op) /\ (r.op # "detach" => r.att = c)
                      /\ r.after <= Len(log)
                      /\ r.op = "detach" => r.att # att' /\ stage'[r.att] \in Begun
                      /\ up' = Append(up, r)
  <2>1. CASE Detach(c, "leaving", "asking")
    BY <1>1, <2>1, DetachDoes
  <2>2. CASE Detach(c, "clearing", "ready")
    BY <1>1, <2>2, DetachDoes
  <2> QED
    BY <1>2, <2>1, <2>2
<1>4. PICK s \in {"leaving", "clearing", "asking", "ready"} :
              /\ stage' = [stage EXCEPT ![c] = s] /\ (s = "leaving" => up' # up)
              /\ \/ up' = up
                 \/ \E r \in Requests :
                      /\ r.call = c /\ s \in Asks(r.op) /\ (r.op # "detach" => r.att = c)
                      /\ r.after <= Len(log)
                      /\ r.op = "detach" => r.att # att' /\ stage'[r.att] \in Begun
                      /\ up' = Append(up, r)
  BY <1>3
<1>5. s \in Stages /\ stage[c] \notin Waiting /\ stage[c] \notin Begun
  BY <1>1 DEF Stages, Waiting, Begun
<1>6. CallMoves(c, s)
  BY <1>1, <1>4, <1>5, StartsMove
<1> QED
  BY <1>1, <1>3, <1>4, <1>5, <1>6, GivenUpKeeps

(* The service has resumed the session, or could not.                        *)
LEMMA ResumeAnsweredKeeps ==
  ASSUME IInv, NEW c \in Calls, ResumeAnswered(c)
  PROVE  IInv'
<1>1. Answered(c, "resuming") /\ TokensTrue
  BY DEF ResumeAnswered, IInv
<1>2. stage[c] = "resuming" /\ stage[c] \notin Begun
  BY <1>1 DEF Answered, Begun
<1>3. CASE Detach(c, "clearing", "ready")
  <2>1. /\ att' = None
        /\ view' \in {view, [view EXCEPT !.status = "detached"], [view EXCEPT !.status = "resync"]}
        /\ \E s \in {"clearing", "ready"} :
                /\ stage' = [stage EXCEPT ![c] = s] /\ (s = "leaving" => up' # up)
                /\ \/ up' = up
                   \/ \E r \in Requests :
                        /\ r.call = c /\ s \in Asks(r.op) /\ (r.op # "detach" => r.att = c)
                        /\ r.after <= Len(log)
                        /\ r.op = "detach" => r.att # att' /\ stage'[r.att] \in Begun
                        /\ up' = Append(up, r)
    BY <1>2, <1>3, DetachDoes
  <2>2. PICK s \in {"clearing", "ready"} :
                /\ stage' = [stage EXCEPT ![c] = s] /\ (s = "leaving" => up' # up)
                /\ \/ up' = up
                   \/ \E r \in Requests :
                        /\ r.call = c /\ s \in Asks(r.op) /\ (r.op # "detach" => r.att = c)
                        /\ r.after <= Len(log)
                        /\ r.op = "detach" => r.att # att' /\ stage'[r.att] \in Begun
                        /\ up' = Append(up, r)
    BY <2>1
  <2>3. s \in Stages
    BY DEF Stages, Waiting
  <2>4. CallMoves(c, s)
    BY <1>1, <2>2, <2>3, ContinuesMove
  <2> QED
    BY <1>2, <2>1, <2>2, <2>3, <2>4, GivenUpKeeps
<1>4. CASE At(c, "failed") /\ UNCHANGED <<up, att, view>>
  <2>1. "failed" \in Stages /\ stage' = [stage EXCEPT ![c] = "failed"]
    BY <1>4 DEF Stages, At
  <2>2. CallMoves(c, "failed")
    BY <1>1, <1>4, <2>1, ContinuesMove
  <2>3. c # att
    BY <1>2, NoneIsNoCall DEF IInv, CurrentTrue
  <2> QED
    BY <1>2, <1>4, <2>1, <2>2, <2>3, OtherKeeps
<1> QED
  BY <1>3, <1>4 DEF ResumeAnswered

(* The answer to a detach.                                                   *)
LEMMA DetachedKeeps ==
  ASSUME IInv, NEW c \in Calls, Detached(c)
  PROVE  IInv'
<1>1. PICK t \in {"leaving", "clearing"}, s \in {"asking", "ready"} :
        /\ Answered(c, t) /\ stage' = [stage EXCEPT ![c] = s] /\ UNCHANGED <<up, att, view>>
        /\ s = "asking" => t = "leaving"
  BY DEF Detached, At
<1>2. stage[c] = t /\ stage[c] \notin Begun /\ s \in Stages /\ TokensTrue
  BY <1>1 DEF Answered, Begun, Stages, IInv
<1>3. CallMoves(c, s)
  BY <1>1, <1>2, ContinuesMove
<1>4. c # att
  BY <1>2, NoneIsNoCall DEF IInv, CurrentTrue
<1> QED
  BY <1>1, <1>2, <1>3, <1>4, OtherKeeps

(* The resume is asked for once the attachment is left.                      *)
LEMMA AskKeeps ==
  ASSUME IInv, NEW c \in Calls, Ask(c)
  PROVE  IInv'
<1> DEFINE r == [op |-> "resume", call |-> c, att |-> c, after |-> 0]
<1>1. /\ stage[c] = "asking" /\ stage' = [stage EXCEPT ![c] = "resuming"] /\ up' = Append(up, r)
      /\ UNCHANGED <<log, gen, pump, attaching, resuming, down, att, view>>
      /\ TokensTrue /\ Len(log) \in Nat
  BY DEF Ask, At, Send, host, IInv, TokensTrue, Typed
<1>2. r \in Requests /\ r.call = c /\ r.op = "resume" /\ r.att = c /\ r.after <= Len(log)
  BY <1>1 DEF Requests
<1> HIDE DEF r
<1>3. "resuming" \in Stages /\ stage[c] \notin Waiting /\ stage[c] \notin Begun /\ "resuming" \in Asks(r.op)
  BY <1>1, <1>2 DEF Stages, Waiting, Begun, Asks
<1>4. CallMoves(c, "resuming")
  BY <1>1, <1>2, <1>3, StartsMove
<1>5. c # att
  BY <1>1, NoneIsNoCall DEF IInv, CurrentTrue
<1> QED
  BY <1>1, <1>3, <1>4, <1>5, OtherKeeps

(* The catch of restore(): the attachment is given up if it is this call's.  *)
LEMMA GiveUpKeeps ==
  ASSUME IInv, NEW c \in Calls, NEW t \in {"paging", "turning", "attaching"},
         Answered(c, t), GiveUp(c)
  PROVE  IInv'
<1>1. /\ TokensTrue /\ stage[c] = t
      /\ stage' = [stage EXCEPT ![c] = "failed"] /\ up' = up
  BY DEF IInv, Answered, GiveUp, At
<1>2. "failed" \in Stages /\ "failed" \in Begun
  BY DEF Stages, Begun
<1>3. CallMoves(c, "failed")
  BY <1>1, <1>2, ContinuesMove
<1>4. CASE att = c
  <2>1. att' = None /\ view' \in {view, [view EXCEPT !.status = "resync"]}
    BY <1>4 DEF GiveUp, Status
  <2> QED
    BY <1>2, <1>3, <2>1, GivenUpKeeps
<1>5. CASE att # c
  <2>1. UNCHANGED <<att, view>>
    BY <1>5 DEF GiveUp
  <2> QED
    BY <1>1, <1>2, <1>3, <1>5, <2>1, OtherKeeps
<1> QED
  BY <1>4, <1>5

(* The history of the current attachment is asked for, a page at a time.     *)
LEMMA PagesKeep ==
  ASSUME IInv, NEW c \in Calls, NEW s \in {"paging", "turning"}, CallMoves(c, s),
         att' = c, view' = view, stage[c] \in {"ready", "paging"}, stage[c] = "paging" => att = c,
         \A r \in Items(up') : r.call = c => r.after = 0 \/ r.after >= view.cursor
  PROVE  IInv'
<1> USE NoneIsNoCall
<1>1. TokensTrue
  BY DEF IInv
<1>2. /\ stage'[c] = s /\ \A d \in Calls : d # c => stage'[d] = stage[d]
      /\ \A d, e \in Calls : d # c /\ Before(up, d, e) => Before(up', d, e)
  BY <1>1, RequestsMove DEF Stages, Waiting
<1>3. ~Holds(down', c) /\ ~Holds(up, c)
  BY DEF CallMoves
<1>4. TokensTrue' /\ LeavingTrue' /\ DetachTrue' /\ FeedsTrue' /\ CursorsTrue'
  <2>1. att' \in {None, att, c} /\ (att' = c => att = c \/ stage[c] \notin Begun)
    BY DEF Begun
  <2>2. /\ view' = [cursor |-> view'.cursor, gen |-> view'.gen, status |-> view'.status]
        /\ view'.cursor \in Nat /\ view'.cursor <= Len(log)
    BY DEF IInv, TokensTrue, Typed, CursorsTrue
  <2>3. s \in Stages /\ s # "leaving" /\ s \in Begun /\ stage[c] \notin {"attaching", "done", "failed"}
    BY DEF Stages, Waiting, Begun
  <2> QED
    BY <2>1, <2>2, <2>3, MoveKeeps
<1>5. CurrentTrue'
  BY <1>2 DEF CurrentTrue
<1>6. PagingTrue'
  <2> SUFFICES ASSUME NEW d \in Calls, stage'[d] = "leaving"
               PROVE  Behind(d, c)'
    BY DEF PagingTrue
  <2>1. d # c
    BY <1>2
  <2>2. Before(up, d, c)
    BY <1>3 DEF Before, Holds
  <2>3. Before(up', d, c)
    BY <1>2, <2>1, <2>2
  <2>4. Before(down', d, c)
    BY <1>3 DEF Before, Holds
  <2> QED
    BY <1>3, <2>3, <2>4 DEF Behind
<1>7. AttachedLast' /\ ServedTrue'
  BY <1>2 DEF AttachedLast, ServedTrue, ServedNow
<1>8. HistoryTrue'
  <2>1. \A m \in Items(down') : m.call # c
    BY <1>3, HoldsItem
  <2> QED
    BY <2>1 DEF HistoryTrue
<1> QED
  BY <1>4, <1>5, <1>6, <1>7, <1>8 DEF IInv

(* The first page is asked for.                                              *)
LEMMA PageKeeps ==
  ASSUME IInv, NEW c \in Calls, Page(c)
  PROVE  IInv'
<1> DEFINE r == [op |-> "snapshot", call |-> c, att |-> c, after |-> 0]
<1>1. /\ stage[c] = "ready" /\ stage' = [stage EXCEPT ![c] = "paging"] /\ up' = Append(up, r)
      /\ UNCHANGED <<log, gen, pump, attaching, resuming, down, view>> /\ att' = c
      /\ TokensTrue /\ Len(log) \in Nat /\ up \in Seq(Requests)
  BY DEF Page, At, Send, host, IInv, TokensTrue, Typed
<1>2. r \in Requests /\ r.call = c /\ r.op = "snapshot" /\ r.att = c /\ r.after = 0 /\ 0 <= Len(log)
  BY <1>1 DEF Requests
<1> HIDE DEF r
<1>3. "paging" \in Stages /\ stage[c] \notin Waiting /\ "paging" \in Asks(r.op)
  BY <1>1, <1>2 DEF Stages, Waiting, Asks
<1>4. CallMoves(c, "paging")
  BY <1>1, <1>2, <1>3, StartsMove
<1>5. \A x \in Items(up') : x.call = c => x.after = 0
  <2>1. Items(up') = Items(up) \cup {r}
    BY <1>1, <1>2, Appended
  <2>2. \A x \in Items(up) : x.call # c
    BY <1>4, HoldsItem DEF CallMoves
  <2> QED
    BY <1>2, <2>1, <2>2
<1> QED
  BY <1>1, <1>4, <1>5, PagesKeep

(* The next page continues the snapshot of the first.                        *)
LEMMA TurnPageKeeps ==
  ASSUME IInv, NEW c \in Calls, TurnPage(c)
  PROVE  IInv'
<1> USE NoneIsNoCall
<1> DEFINE n == Head(down).item
           r == [op |-> "snapshot", call |-> c, att |-> c, after |-> n]
<1>1. /\ Answered(c, "paging") /\ stage' = [stage EXCEPT ![c] = "turning"] /\ up' = Append(up, r)
      /\ att' = att /\ view' = view /\ att = c /\ Head(down).ok
      /\ TokensTrue /\ Len(log) \in Nat /\ up \in Seq(Requests)
  BY DEF TurnPage, At, Send, OK, Superseded, IInv, TokensTrue, Typed
<1>2. stage[c] = "paging" /\ Head(down) \in Items(down) /\ Head(down).call = c
  BY <1>1, AnswerTaken
<1>3. n \in Nat /\ n <= Len(log) /\ n >= view.cursor
  BY <1>1, <1>2, OnTheWay DEF TokensTrue, IInv, CursorsTrue, HistoryTrue
<1>4. r \in Requests /\ r.call = c /\ r.op = "snapshot" /\ r.att = c /\ r.after = n
  BY <1>3 DEF Requests
<1> HIDE DEF r, n
<1>5. "turning" \in Stages /\ "turning" \in Asks(r.op)
  BY <1>4 DEF Stages, Waiting, Asks
<1>6. CallMoves(c, "turning")
  BY <1>1, <1>3, <1>4, <1>5, ContinuesMove
<1>7. \A x \in Items(up') : x.call = c => x.after >= view.cursor
  <2>1. Items(up') = Items(up) \cup {r}
    BY <1>1, <1>4, Appended
  <2>2. \A x \in Items(up) : x.call # c
    BY <1>6, HoldsItem DEF CallMoves
  <2> QED
    BY <1>3, <1>4, <2>1, <2>2
<1> QED
  BY <1>1, <1>2, <1>6, <1>7, PagesKeep

(* The history is complete: nobody is still leaving an older attachment.     *)
LEMMA PagedKeeps ==
  ASSUME IInv, NEW c \in Calls, NEW t \in {"paging", "turning"}, Paged(c, t)
  PROVE  IInv' /\ view'.cursor >= view.cursor
<1> USE NoneIsNoCall
<1>1. Answered(c, t) /\ TokensTrue
  BY DEF Paged, IInv
<1>2. view.cursor \in Nat /\ Len(log) \in Nat /\ up \in Seq(Requests)
  BY <1>1 DEF TokensTrue, Typed
<1>3. CASE ~(OK /\ ~Superseded(c))
  <2>1. GiveUp(c)
    BY <1>3 DEF Paged
  <2>2. IInv'
    BY <1>1, <2>1, GiveUpKeeps
  <2>3. view'.cursor = view.cursor
    BY <2>1 DEF GiveUp, Status, IInv, TokensTrue, Typed
  <2> QED
    BY <1>2, <2>2, <2>3
<1>4. CASE OK /\ ~Superseded(c)
  <2> DEFINE n == Head(down).item
             r == [op |-> "attach", call |-> c, att |-> c, after |-> n]
  <2>1. /\ stage' = [stage EXCEPT ![c] = "attaching"] /\ up' = Append(up, r)
        /\ view' = [cursor |-> n, gen |-> log[n].gen, status |-> "attached"]
        /\ att' = att /\ att = c /\ Head(down).ok
    BY <1>4 DEF Paged, At, Send, OK, Superseded
  <2>2. /\ stage[c] = t /\ Head(down) \in Items(down) /\ Head(down).call = c /\ Holds(down, c)
        /\ \A d \in Calls : stage[d] \notin {"asking", "ready"}
        /\ \A d \in Calls : Before(down, d, c) => ~Holds(down, d)
    BY <1>1, AnswerTaken
  <2>3. n \in Nat /\ n <= Len(log) /\ n >= view.cursor
    BY <1>1, <2>1, <2>2, OnTheWay DEF TokensTrue, IInv, CursorsTrue, HistoryTrue
  <2>4. r \in Requests /\ r.call = c /\ r.op = "attach" /\ r.att = c /\ r.after = n
    BY <2>3 DEF Requests
  <2>5. /\ view' = [cursor |-> view'.cursor, gen |-> view'.gen, status |-> view'.status]
        /\ view'.cursor = n
    BY <2>1
  <2> HIDE DEF r, n
  <2>6. "attaching" \in Stages /\ "attaching" \in Asks(r.op) /\ "attaching" \in Begun
    BY <2>4 DEF Stages, Waiting, Asks, Begun
  <2>7. CallMoves(c, "attaching")
    BY <1>1, <2>1, <2>3, <2>4, <2>6, ContinuesMove
  <2>8. /\ stage'[c] = "attaching" /\ \A d \in Calls : d # c => stage'[d] = stage[d]
        /\ up' # up => Holds(up', c) /\ Followed(up', c)
    BY <1>1, <2>6, <2>7, RequestsMove
  <2>9. up' # up
    <3>1. Len(Append(up, r)) = Len(up) + 1 /\ Len(up) \in Nat
      BY <1>2
    <3> QED
      BY <2>1, <3>1
  <2>10. TokensTrue' /\ LeavingTrue' /\ DetachTrue' /\ FeedsTrue' /\ CursorsTrue'
    <3>1. att' \in {None, att, c} /\ (att' = c => att = c \/ stage[c] \notin Begun)
      BY <2>1
    <3> QED
      BY <2>3, <2>5, <2>6, <2>7, <3>1, MoveKeeps
  <2>11. CurrentTrue' /\ PagingTrue' /\ HistoryTrue'
    BY <2>1, <2>8 DEF CurrentTrue, PagingTrue, HistoryTrue
  <2>12. AttachedLast'
    <3>1. ASSUME NEW d \in Calls, stage[d] = "leaving" PROVE FALSE
      <4>1. Behind(d, c)
        BY <2>1, <2>2, <3>1 DEF IInv, PagingTrue
      <4>2. ~Holds(up, d) /\ ~Holds(down, d)
        BY <2>2, <4>1 DEF Behind
      <4> QED
        BY <3>1, <4>2 DEF IInv, LeavingTrue
    <3>2. \A d \in Calls : stage'[d] \notin {"leaving", "asking"}
      BY <2>2, <2>8, <3>1
    <3> QED
      BY <2>1, <2>8, <2>9, <3>2 DEF AttachedLast
  <2>13. ServedTrue'
    <3>1. \A m \in Items(down') : m.call # c
      BY <2>7, HoldsItem DEF CallMoves
    <3> QED
      BY <2>1, <2>8, <3>1 DEF ServedTrue, ServedNow
  <2> QED
    BY <2>3, <2>5, <2>10, <2>11, <2>12, <2>13 DEF IInv
<1> QED
  BY <1>3, <1>4

(* The answer to the attach.                                                 *)
LEMMA AttachedKeeps ==
  ASSUME IInv, NEW c \in Calls, Attached(c)
  PROVE  IInv' /\ view'.cursor = view.cursor
<1> USE NoneIsNoCall
<1>1. Answered(c, "attaching") /\ TokensTrue
  BY DEF Attached, IInv
<1>2. CASE ~OK
  <2>1. GiveUp(c)
    BY <1>2 DEF Attached
  <2>2. view'.cursor = view.cursor
    BY <2>1 DEF GiveUp, Status, IInv, TokensTrue, Typed
  <2> QED
    BY <1>1, <2>1, <2>2, GiveUpKeeps
<1>3. CASE OK
  <2>1. stage' = [stage EXCEPT ![c] = "done"] /\ up' = up /\ att' = att /\ view' = view
    BY <1>3 DEF Attached, At
  <2>2. "done" \in Stages /\ "done" \in Begun /\ stage[c] = "attaching"
    BY <1>1 DEF Stages, Begun, Answered
  <2>3. CallMoves(c, "done")
    BY <1>1, <2>1, <2>2, ContinuesMove
  <2>4. CASE att # c
    BY <2>1, <2>2, <2>3, <2>4, OtherKeeps
  <2>5. CASE att = c
    <3>1. stage'[c] = "done" /\ \A d \in Calls : d # c => stage'[d] = stage[d]
      BY <1>1, <2>2, <2>3, RequestsMove
    <3>2. TokensTrue' /\ LeavingTrue' /\ DetachTrue' /\ FeedsTrue' /\ CursorsTrue'
      <4>1. att' \in {None, att, c} /\ (att' = c => att = c \/ stage[c] \notin Begun)
        BY <2>1, <2>5
      <4>2. /\ view' = [cursor |-> view'.cursor, gen |-> view'.gen, status |-> view'.status]
            /\ view'.cursor \in Nat /\ view'.cursor <= Len(log)
        BY <2>1 DEF IInv, TokensTrue, Typed, CursorsTrue
      <4> QED
        BY <2>2, <2>3, <4>1, <4>2, MoveKeeps
    <3>3. CurrentTrue' /\ PagingTrue' /\ HistoryTrue'
      BY <2>1, <2>5, <3>1 DEF CurrentTrue, PagingTrue, HistoryTrue
    <3>4. AttachedLast'
      BY <2>1, <2>2, <2>3, <2>5, <3>1 DEF IInv, AttachedLast, CallMoves
    <3>5. ServedNow
      BY <1>1, <1>3, <2>2, <2>5, AnswerTaken DEF ServedNow, OK
    <3>6. resuming' = resuming /\ (Fed => Fed')
      BY <2>1, <2>3, <2>5 DEF Fed, CallMoves
    <3>7. ServedTrue'
      BY <2>1, <3>5, <3>6 DEF IInv, ServedTrue
    <3> QED
      BY <2>1, <3>2, <3>3, <3>4, <3>7 DEF IInv
  <2> QED
    BY <2>1, <2>4, <2>5
<1> QED
  BY <1>2, <1>3

(* An update takes the view forward or asks it to start over.                *)
LEMMA AppliedForward ==
  ASSUME Typed, view.cursor <= Len(log), NEW n \in Nat, n <= Len(log),
         NEW v, v = Apply(view, n)
  PROVE  /\ v = [cursor |-> v.cursor, gen |-> v.gen, status |-> v.status]
         /\ v.cursor \in Nat /\ v.cursor <= Len(log) /\ v.cursor >= view.cursor
         /\ v.status = "attached" => view.status = "attached" /\ n # Resync
<1>1. /\ view = [cursor |-> view.cursor, gen |-> view.gen, status |-> view.status]
      /\ view.cursor \in Nat /\ Len(log) \in Nat
  BY DEF Typed
<1>2. \/ v = [view EXCEPT !.status = "resync"]
      \/ v = view /\ n # Resync
      \/ /\ v = [view EXCEPT !.cursor = n, !.status = IF log[n].lost THEN "resync" ELSE @]
         /\ n = view.cursor + 1 /\ n # Resync
  <2>1. CASE n = Resync
    BY <2>1 DEF Apply
  <2>2. CASE n # Resync /\ view.status = "resync"
    BY <2>2 DEF Apply
  <2>3. CASE n # Resync /\ view.status # "resync" /\ log[n].gen # view.gen
    BY <2>3 DEF Apply
  <2>4. CASE n # Resync /\ view.status # "resync" /\ log[n].gen = view.gen
    BY <2>4 DEF Apply
  <2> QED
    BY <2>1, <2>2, <2>3, <2>4
<1>3. CASE v = [view EXCEPT !.status = "resync"]
  <2>1. v.cursor = view.cursor /\ v.gen = view.gen /\ v.status = "resync"
    BY <1>1, <1>3
  <2>2. v = [cursor |-> v.cursor, gen |-> v.gen, status |-> v.status]
    BY <1>1, <1>3
  <2> QED
    BY <1>1, <2>1, <2>2
<1>4. CASE v = view /\ n # Resync
  BY <1>1, <1>4
<1>5. CASE /\ v = [view EXCEPT !.cursor = n, !.status = IF log[n].lost THEN "resync" ELSE @]
           /\ n = view.cursor + 1 /\ n # Resync
  <2>1. v.cursor = n /\ v.gen = view.gen /\ v.status \in {"resync", view.status}
    BY <1>1, <1>5
  <2>2. v = [cursor |-> v.cursor, gen |-> v.gen, status |-> v.status]
    BY <1>1, <1>5
  <2> QED
    BY <1>1, <1>5, <2>1, <2>2
<1> QED
  BY <1>2, <1>3, <1>4, <1>5

(* The client takes an update.                                               *)
LEMMA ReceiveKeeps ==
  ASSUME IInv, Receive
  PROVE  IInv' /\ view'.cursor >= view.cursor
<1> USE NoneIsNoCall
<1> DEFINE h == Head(down)
<1>1. /\ TokensTrue /\ Typed /\ down # << >> /\ h.call = None /\ down' = Tail(down)
      /\ UNCHANGED <<log, gen, pump, attaching, resuming, up, stage, att>>
  BY DEF IInv, TokensTrue, Receive, NextMessage, host
<1>2. /\ down \in Seq(Messages) /\ Unique(down) /\ view.cursor \in Nat /\ Len(log) \in Nat
      /\ att \in Calls \cup {None}
      /\ view = [cursor |-> view.cursor, gen |-> view.gen, status |-> view.status]
      /\ view.cursor <= Len(log)
  BY <1>1 DEF TokensTrue, Typed, OneToken, IInv, CursorsTrue
<1>3. /\ h \in Items(down) /\ down' \in Seq(Messages) /\ Items(down') \subseteq Items(down)
      /\ Items(down) = Items(down') \cup {h}
  BY <1>1, <1>2, Taken
<1>4. /\ Unique(down')
      /\ \A d \in Calls : Holds(down', d) <=> Holds(down, d)
      /\ \A e, d : Before(down, d, e) => Before(down', d, e)
  BY <1>1, <1>2, TakenOrder
<1>5. h.item \in Nat /\ h.item <= Len(log)
  BY <1>1, <1>3, OnTheWay DEF IInv, CursorsTrue
<1> DEFINE mine == h.to # None /\ h.to = att /\ view # NoView
<1>6. /\ mine => view' = Apply(view, h.item)
      /\ ~mine => view' = view
  BY DEF Receive
<1> HIDE DEF mine
<1>7. /\ view' = [cursor |-> view'.cursor, gen |-> view'.gen, status |-> view'.status]
      /\ view'.cursor \in Nat /\ view'.cursor <= Len(log) /\ view'.cursor >= view.cursor
      /\ view'.status = "attached" => view.status = "attached" /\ (mine => h.item # Resync)
  <2>1. CASE mine
    <3>1. view' = Apply(view, h.item)
      BY <1>6, <2>1
    <3> HIDE DEF h
    <3> QED
      BY <1>1, <1>2, <1>5, <3>1, AppliedForward
  <2>2. CASE ~mine
    BY <1>2, <1>6, <2>2
  <2> QED
    BY <2>1, <2>2
<1>8. mine => att # None /\ stage[att] \in {"attaching", "done", "failed"}
  BY <1>3 DEF mine, IInv, FeedsTrue, Asked
<1>9. att # None /\ view.status = "attached" /\ h.to = att => mine
  BY DEF mine, NoView, None
<1> HIDE DEF h
<1>10. TokensTrue'
  <2>1. Typed'
    BY <1>1, <1>3, <1>7 DEF Typed
  <2>2. RequestsTrue'
    BY <1>1, <1>3 DEF TokensTrue, RequestsTrue
  <2>3. OneToken'
    BY <1>1, <1>4 DEF TokensTrue, OneToken
  <2> QED
    BY <2>1, <2>2, <2>3 DEF TokensTrue
<1>11. LeavingTrue' /\ DetachTrue' /\ CurrentTrue' /\ AttachedLast'
  BY <1>1, <1>4 DEF IInv, LeavingTrue, DetachTrue, CurrentTrue, AttachedLast
<1>12. FeedsTrue'
  BY <1>1, <1>3 DEF IInv, FeedsTrue, Asked
<1>13. PagingTrue'
  <2> SUFFICES ASSUME att # None, stage[att] \in {"paging", "turning"},
                      NEW d \in Calls, stage[d] = "leaving"
               PROVE  Behind(d, att)'
    BY <1>1 DEF PagingTrue
  <2>1. Behind(d, att) /\ att \in Calls
    BY <1>2 DEF IInv, PagingTrue
  <2> QED
    BY <1>1, <1>4, <2>1 DEF Behind
<1>14. ServedTrue'
  <2> SUFFICES ASSUME ServedNow'
               PROVE  resuming = NoResume /\ (view'.status = "attached" => Fed')
    BY <1>1 DEF ServedTrue
  <2>1. ServedNow
    BY <1>1, <1>3 DEF ServedNow
  <2>2. ASSUME view'.status = "attached" PROVE Fed'
    <3>1. Fed /\ view.status = "attached"
      BY <1>7, <2>1, <2>2 DEF IInv, ServedTrue
    <3>2. CASE pump.id = att /\ ~pump.over
      BY <1>1, <3>2 DEF Fed
    <3>3. CASE ~(pump.id = att /\ ~pump.over)
      <4>1. PICK m \in Items(down) : m.to = att /\ m.item = Resync
        BY <3>1, <3>3 DEF Fed
      <4>2. m # h
        BY <1>7, <1>9, <2>1, <2>2, <3>1, <4>1 DEF ServedNow
      <4>3. m \in Items(down')
        BY <1>3, <4>1, <4>2
      <4> QED
        BY <1>1, <4>1, <4>3 DEF Fed
    <3> QED
      BY <3>2, <3>3
  <2> QED
    BY <2>1, <2>2 DEF IInv, ServedTrue
<1>15. CursorsTrue'
  BY <1>1, <1>3, <1>7 DEF IInv, CursorsTrue
<1>16. HistoryTrue'
  <2> SUFFICES ASSUME att # None, stage[att] \in {"paging", "turning"}
               PROVE  /\ \A r \in Items(up) : r.call = att => r.after = 0 \/ r.after >= view'.cursor
                      /\ \A m \in Items(down') : m.call = att /\ m.ok => m.item >= view'.cursor
    BY <1>1 DEF HistoryTrue
  <2>1. view' = view
    BY <1>6, <1>8
  <2> QED
    BY <1>3, <2>1 DEF IInv, HistoryTrue
<1> QED
  BY <1>7, <1>10, <1>11, <1>12, <1>13, <1>14, <1>15, <1>16 DEF IInv

(* A view is closed: detach() by itself.                                     *)
LEMMA LeaveKeeps ==
  ASSUME IInv, Leave
  PROVE  IInv' /\ view'.cursor = view.cursor
<1> USE NoneIsNoCall
<1> DEFINE r == [op |-> "detach", call |-> None, att |-> att, after |-> 0]
<1>1. /\ TokensTrue /\ att # None /\ att' = None /\ up' = Append(up, r)
      /\ view' \in {view, [view EXCEPT !.status = "detached"]}
      /\ UNCHANGED <<log, gen, pump, attaching, resuming, down, stage>>
  BY DEF IInv, Leave, Status, host
<1>2. /\ up \in Seq(Requests) /\ Unique(up) /\ att \in Calls /\ view.cursor \in Nat /\ Len(log) \in Nat
      /\ view = [cursor |-> view.cursor, gen |-> view.gen, status |-> view.status]
  BY <1>1 DEF TokensTrue, Typed, OneToken
<1>3. r \in Requests /\ r.op = "detach" /\ r.call = None /\ r.att = att /\ r.after = 0 /\ r.after <= Len(log)
  BY <1>2 DEF Requests
<1> HIDE DEF r
<1>4. up' \in Seq(Requests) /\ Items(up') = Items(up) \cup {r}
  BY <1>1, <1>2, <1>3, Appended
<1>5. Unique(up') /\ \A c : Holds(up', c) <=> Holds(up, c) \/ c = None
  BY <1>1, <1>2, <1>3, AppendedOrder
<1>6. /\ view' = [cursor |-> view'.cursor, gen |-> view'.gen, status |-> view'.status]
      /\ view'.cursor = view.cursor
  BY <1>1, <1>2
<1>7. TokensTrue'
  <2>1. Typed'
    BY <1>1, <1>2, <1>4, <1>6 DEF TokensTrue, Typed
  <2>2. RequestsTrue'
    BY <1>1, <1>3, <1>4 DEF TokensTrue, RequestsTrue
  <2>3. OneToken'
    BY <1>1, <1>5 DEF TokensTrue, OneToken
  <2> QED
    BY <2>1, <2>2, <2>3 DEF TokensTrue
<1>8. LeavingTrue'
  BY <1>1, <1>5 DEF IInv, LeavingTrue
<1>9. DetachTrue'
  <2>1. stage[att] \in Begun
    BY <1>1 DEF IInv, CurrentTrue, Begun
  <2>2. \A x \in Items(up) : x.att # None
    BY <1>1, OnTheWay DEF TokensTrue
  <2> QED
    BY <1>1, <1>2, <1>3, <1>4, <2>1, <2>2 DEF IInv, DetachTrue
<1>10. FeedsTrue'
  BY <1>1 DEF IInv, FeedsTrue, Asked
<1>11. CurrentTrue' /\ PagingTrue' /\ AttachedLast' /\ ServedTrue' /\ HistoryTrue'
  BY <1>1 DEF CurrentTrue, PagingTrue, AttachedLast, ServedTrue, ServedNow, HistoryTrue
<1>12. CursorsTrue'
  BY <1>1, <1>3, <1>4, <1>6 DEF IInv, CursorsTrue
<1> QED
  BY <1>6, <1>7, <1>8, <1>9, <1>10, <1>11, <1>12 DEF IInv

-----------------------------------------------------------------------------
(* The theorems. *)

(* Nothing is on its way at first.                                           *)
LEMMA InitHolds == Init => IInv
<1> SUFFICES ASSUME Init PROVE IInv
  OBVIOUS
<1> USE NoneIsNoCall
<1>1. /\ Items(up) = {} /\ Items(attaching) = {} /\ Items(down) = {} /\ Items(pump.buf) = {}
      /\ up = << >> /\ attaching = << >> /\ down = << >>
  BY DEF Init, NoPump, NewPump, Items
<1>2. /\ stage = [c \in Calls |-> "idle"] /\ att = None /\ view = NoView
      /\ pump = NoPump /\ resuming = NoResume
  BY DEF Init
<1>3. log \in Seq([gen : Nat, lost : BOOLEAN]) /\ Len(log) = 1 /\ gen \in Nat
  BY DEF Init
<1>4. \A S : << >> \in Seq(S)
  OBVIOUS
<1>5. Typed
  <2>1. stage \in [Calls -> Stages]
    BY <1>2 DEF Stages
  <2>2. up \in Seq(Requests) /\ attaching \in Seq(Requests) /\ down \in Seq(Messages)
    BY <1>1, <1>4
  <2>3. /\ view = [cursor |-> view.cursor, gen |-> view.gen, status |-> view.status]
        /\ view.cursor \in Nat
    BY <1>2 DEF NoView
  <2>4. /\ pump \in Pumps
        /\ resuming \in Resumptions
        /\ att \in Calls \cup {None}
    BY <1>2, NoPumpTyped, NoResumeTyped
  <2> QED
    BY <1>3, <2>1, <2>2, <2>3, <2>4 DEF Typed
<1>6. RequestsTrue
  BY <1>1, <1>2 DEF RequestsTrue, NoResume
<1>7. OneToken
  <2>1. \A c \in Calls : ~Holds(up, c) /\ ~Holds(attaching, c) /\ ~Holds(down, c)
    BY <1>1, HoldsItem
  <2>2. Unique(<< >>)
    BY DEF Unique
  <2> QED
    BY <1>1, <2>1, <2>2 DEF OneToken
<1>8. LeavingTrue /\ DetachTrue /\ FeedsTrue /\ CurrentTrue
  BY <1>1, <1>2, NoPumpTyped DEF LeavingTrue, DetachTrue, FeedsTrue, Asked, CurrentTrue, NoResume
<1>9. PagingTrue /\ AttachedLast /\ ServedTrue /\ HistoryTrue
  BY <1>2 DEF PagingTrue, AttachedLast, ServedTrue, ServedNow, HistoryTrue
<1>10. CursorsTrue
  BY <1>1, <1>2, <1>3, NoPumpTyped, NoResumeTyped DEF CursorsTrue, NoView
<1> QED
  BY <1>5, <1>6, <1>7, <1>8, <1>9, <1>10 DEF IInv, TokensTrue

(* Every step keeps the invariant and takes the view only forward.           *)
LEMMA StepKeeps == IInv /\ [Next]_vars => IInv' /\ view'.cursor >= view.cursor
<1> SUFFICES ASSUME IInv, [Next]_vars
             PROVE  IInv' /\ view'.cursor >= view.cursor
  OBVIOUS
<1>1. view.cursor \in Nat
  BY DEF IInv, TokensTrue, Typed
<1>2. ASSUME NEW lost \in BOOLEAN, Commit(lost) PROVE IInv' /\ view' = view
  BY <1>2, CommitMoves, HostKeeps DEF HostMoves
<1>3. CASE Rebind
  BY <1>1, <1>3, RebindMoves, HostKeeps DEF HostMoves
<1>4. CASE Leave
  BY <1>1, <1>4, LeaveKeeps
<1>5. CASE Service
  <2>1. CASE Subscribe
    BY <1>1, <2>1, SubscribeMoves, HostKeeps DEF HostMoves
  <2>2. CASE Pump
    <3>1. view' = view
      BY <2>2 DEF Pump
    <3> QED
      BY <1>1, <2>2, <3>1, PumpKeeps
  <2>3. CASE HandleDetach
    <3>1. view' = view
      BY <2>3 DEF HandleDetach
    <3> QED
      BY <1>1, <2>3, <3>1, HandleDetachKeeps
  <2>4. CASE HandleSnapshot
    <3>1. view' = view
      BY <2>4 DEF HandleSnapshot
    <3> QED
      BY <1>1, <2>4, <3>1, HandleSnapshotKeeps
  <2>5. CASE HandleAttach
    BY <1>1, <2>5, HandleAttachKeeps DEF HandleAttach
  <2>6. CASE StartPump
    <3>1. view' = view
      BY <2>6 DEF StartPump
    <3> QED
      BY <1>1, <2>6, <3>1, StartPumpKeeps
  <2>7. CASE HandleResume
    <3>1. view' = view
      BY <2>7 DEF HandleResume
    <3> QED
      BY <1>1, <2>7, <3>1, HandleResumeKeeps
  <2>8. CASE Resumed
    <3>1. view' = view
      BY <2>8 DEF Resumed
    <3> QED
      BY <1>1, <2>8, <3>1, ResumedKeeps
  <2>9. CASE PumpLeaves
    BY <1>1, <2>9, PumpLeavesKeeps DEF PumpLeaves
  <2>10. CASE ResumeTold
    BY <1>1, <2>10, ResumeToldKeeps DEF ResumeTold
  <2>11. ASSUME NEW c \in Calls, ResumeFails(c) PROVE IInv' /\ view' = view
    BY <2>11, ResumeFailsKeeps DEF ResumeFails
  <2> QED
    BY <1>1, <1>5, <2>1, <2>2, <2>3, <2>4, <2>5, <2>6, <2>7, <2>8, <2>9, <2>10, <2>11
       DEF Service
<1>6. CASE Client
  <2>1. CASE Receive
    BY <2>1, ReceiveKeeps
  <2>2. ASSUME NEW c \in Calls, Ask(c) PROVE IInv' /\ view' = view
    BY <2>2, AskKeeps DEF Ask
  <2>3. ASSUME NEW c \in Calls, Page(c) PROVE IInv' /\ view' = view
    BY <2>3, PageKeeps DEF Page
  <2>4. ASSUME NEW c \in Calls, Continue(c) PROVE IInv' /\ view'.cursor >= view.cursor
    <3>1. CASE Detached(c)
      BY <1>1, <3>1, DetachedKeeps DEF Detached
    <3>2. CASE ResumeAnswered(c)
      <4>1. view'.cursor = view.cursor
        BY <3>2 DEF ResumeAnswered, Detach, Status, IInv, TokensTrue, Typed
      <4> QED
        BY <1>1, <3>2, <4>1, ResumeAnsweredKeeps
    <3>3. CASE TurnPage(c)
      BY <1>1, <3>3, TurnPageKeeps DEF TurnPage
    <3>4. CASE Attached(c)
      BY <1>1, <3>4, AttachedKeeps
    <3>5. CASE \E s \in {"paging", "turning"} : Paged(c, s)
      BY <3>5, PagedKeeps
    <3> QED
      BY <2>4, <3>1, <3>2, <3>3, <3>4, <3>5 DEF Continue
  <2> QED
    BY <1>1, <1>6, <2>1, <2>2, <2>3, <2>4 DEF Client
<1>7. ASSUME NEW c \in Calls, Begin(c) PROVE IInv' /\ view'.cursor >= view.cursor
  <2>1. view'.cursor = view.cursor
    BY <1>7 DEF Begin, Detach, Status, IInv, TokensTrue, Typed
  <2> QED
    BY <1>1, <1>7, <2>1, BeginKeeps
<1>8. CASE UNCHANGED vars
  <2>1. HostMoves
    BY <1>8 DEF vars, host, HostMoves, IInv, TokensTrue, Typed, CursorsTrue
  <2> QED
    BY <1>1, <2>1, HostKeeps DEF HostMoves
<1> QED
  BY <1>1, <1>2, <1>3, <1>4, <1>5, <1>6, <1>7, <1>8 DEF Next

(* The order of the requests is kept, whatever calls overlap.                *)
THEOREM OrderHolds == Spec => []IInv
<1>1. Init => IInv
  BY InitHolds
<1>2. IInv /\ [Next]_vars => IInv'
  BY StepKeeps
<1> QED
  BY <1>1, <1>2, PTL DEF Spec

(* AttachedIsFed: the attachment a view shows is the one the service feeds,  *)
(* however restores, resumes and detaches overlap.                           *)
THEOREM ViewsAreFed == Spec => []AttachedIsFed
<1>1. IInv => AttachedIsFed
  <2> SUFFICES ASSUME IInv, view.status = "attached", att # None, stage[att] = "done"
               PROVE  \/ att = pump.id /\ ~pump.over
                      \/ att = resuming.prev
                      \/ \E i \in 1..Len(down) : down[i].to = att /\ down[i].item = Resync
    BY DEF AttachedIsFed
  <2>1. Fed
    BY DEF IInv, ServedTrue, ServedNow
  <2> QED
    BY <2>1 DEF Fed, Items
<1> QED
  BY <1>1, OrderHolds, PTL

(* ViewNeverGoesBack: no overlap of restores takes an event back.            *)
THEOREM ViewsOnlyGrow == Spec => ViewNeverGoesBack
<1>1. IInv /\ [Next]_vars => [view'.cursor >= view.cursor]_vars
  BY StepKeeps
<1> QED
  BY <1>1, OrderHolds, PTL DEF Spec, ViewNeverGoesBack
=============================================================================
