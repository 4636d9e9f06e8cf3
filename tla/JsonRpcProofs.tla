--------------------------- MODULE JsonRpcProofs ---------------------------
(***************************************************************************)
(* Proofs about JsonRpc, for any set of requests and any width of the key. *)
(*                                                                         *)
(* The safety properties rest on one inductive invariant, IInv: while a    *)
(* thread is between registering and sending it holds rpc_mutex_, so the   *)
(* id its entry is keyed on is still the next id; every other entry sits   *)
(* at the id its request was sent with, and these ids are all different.   *)
(***************************************************************************)
EXTENDS JsonRpc, TLAPS

\* rpc_mutex_ is held exactly between registering and sending.
MutexOK ==
  \A t \in Thread :
    /\ rpc_mutex_ = t <=> pc[t] = "reg"
    /\ pc[t] = "reg" <=> cur[t] # NoReq
    /\ pc[t] = "reg" => /\ id < MaxId
                        /\ carried[cur[t]] = NoId
                        /\ ret[t] \in {"tap", "body", "body_lv"}

\* Ids are used once: below id, and different for different requests.
IdsOK ==
  /\ \A r \in Req : carried[r] # NoId => carried[r] < id
  /\ \A r, s \in Req : carried[r] = carried[s] /\ carried[r] # NoId => r = s

\* An entry of r sits at the id r carries, or at the id r is about to carry,
\* and belongs to a request that has not been handled and is not being handled.
EntryOK(k, r) ==
  /\ \/ carried[r] = k
     \/ k = id /\ \E t \in Thread : cur[t] = r
  /\ calls[r] = 0
  /\ found.of # r

TablesOK ==
  \A k \in Key :
    /\ callbacks[k] # NoReq => callbacks[k] \in CbReq /\ EntryOK(k, callbacks[k])
    /\ consumers[k] # NoReq => consumers[k] \in ConsReq /\ EntryOK(k, consumers[k])

\* Messages carry the id their request was sent with.
NetOK == \A m \in wire \cup inbox : carried[m.req] = m.id

\* What onmessage copied out belongs to the reply it is dispatching.
FoundOK ==
  /\ found.of # NoReq <=> pc["ws"] = "invoke"
  /\ found.of # NoReq => carried[found.of] # NoId
  /\ found.cb \in {NoReq, found.of}
  /\ found.consumer \in {NoReq, found.of}
  /\ found.cb # NoReq => calls[found.cb] = 0
  /\ found.consumer # NoReq => calls[found.consumer] = 0

CallsOK ==
  \A r \in Req : calls[r] \in {0, 1} /\ (calls[r] = 1 => carried[r] # NoId)

IInv ==
  /\ TypeOK /\ MutexOK /\ IdsOK /\ TablesOK /\ NetOK /\ FoundOK /\ CallsOK

-----------------------------------------------------------------------------
\* Below the bound the uint32_t key of an id is the id itself
\* (websocket_client.h:49-56).
LEMMA KeyIsId == ASSUME NEW i \in Nat, i < MaxId
                 PROVE  KeyOf(i) = i /\ i \in Key
  BY IdAssumption DEF KeyOf, Key

\* The state the constructor leaves satisfies the invariant.
LEMMA InitIInv == Init => IInv
  <1> SUFFICES ASSUME Init PROVE IInv
    OBVIOUS
  <1> USE ReqAssumption, IdAssumption DEF Init
  <1>1. TypeOK
    BY DEF TypeOK, Ids, Key, Thread, Place, NoFound, Free, NoId
  <1>2. MutexOK /\ IdsOK /\ NetOK /\ FoundOK /\ CallsOK
    BY DEF MutexOK, IdsOK, NetOK, FoundOK, CallsOK, NoFound, Thread, Free
  <1>3. TablesOK
    BY DEF TablesOK
  <1> QED BY <1>1, <1>2, <1>3 DEF IInv

\* Registering: the entry is keyed on the id the request is about to carry.
LEMMA RegisterIInv ==
  ASSUME NEW t \in Thread, NEW r \in Req, IInv, Register(t, r)
  PROVE  IInv'
  <1> USE ReqAssumption, IdAssumption DEF IInv, Register, client, locks, net
  <1>0. id \in Nat /\ KeyOf(id) = id /\ id \in Key
    BY KeyIsId DEF TypeOK, Ids
  <1>1. TypeOK'
    BY <1>0 DEF TypeOK, Place, Thread
  <1>2. MutexOK'
    BY DEF MutexOK, MaySend, Fresh, TypeOK, Thread, Free
  <1>3. IdsOK' /\ NetOK' /\ CallsOK'
    BY DEF IdsOK, NetOK, CallsOK
  <1>4. FoundOK'
    BY DEF FoundOK, TypeOK, MaySend, Thread
  <1>5. TablesOK'
    <2> SUFFICES ASSUME NEW k \in Key
                 PROVE  /\ callbacks'[k] # NoReq =>
                             callbacks'[k] \in CbReq /\ EntryOK(k, callbacks[k])'
                        /\ consumers'[k] # NoReq =>
                             consumers'[k] \in ConsReq /\ EntryOK(k, consumers[k])'
      BY DEF TablesOK
    <2>1. calls[r] = 0 /\ found.of # r
      BY DEF CallsOK, FoundOK, Fresh
    <2>2. EntryOK(id, r)'
      BY <2>1 DEF EntryOK, TypeOK
    <2>3. \A s \in Req : EntryOK(k, s) => EntryOK(k, s)'
      BY DEF EntryOK, TypeOK, MutexOK, Thread, Free
    <2>4. callbacks'[k] = callbacks[k] \/ (k = id /\ r \in CbReq /\ callbacks'[k] = r)
      BY <1>0 DEF TypeOK
    <2>5. consumers'[k] = consumers[k] \/ (k = id /\ r \in ConsReq /\ consumers'[k] = r)
      BY <1>0 DEF TypeOK
    <2> QED BY <2>2, <2>3, <2>4, <2>5 DEF TablesOK
  <1> QED BY <1>1, <1>2, <1>3, <1>4, <1>5

\* Sending: the entry's key becomes the id its request carries.
LEMMA SendIInv ==
  ASSUME NEW t \in Thread, IInv, Send(t)
  PROVE  IInv'
  <1> USE ReqAssumption, IdAssumption DEF IInv, Send, client, locks, net
  <1>0. /\ id \in Nat /\ id < MaxId /\ cur[t] \in Req
        /\ carried[cur[t]] = NoId /\ id + 1 \in Ids
    BY DEF TypeOK, MutexOK, Ids
  <1>1. TypeOK'
    BY <1>0 DEF TypeOK, Place, Thread, Msg, Ids
  <1>2. MutexOK'
    BY <1>0 DEF MutexOK, TypeOK, Thread, Free
  <1>3. IdsOK'
    BY <1>0 DEF IdsOK, TypeOK, Ids, NoId
  <1>4. NetOK'
    BY <1>0 DEF NetOK, TypeOK, Msg, Ids, NoId
  <1>5. FoundOK'
    BY <1>0 DEF FoundOK, TypeOK, MutexOK, Thread, NoId, Ids
  <1>6. CallsOK'
    BY <1>0 DEF CallsOK, TypeOK, NoId, Ids
  <1>7. TablesOK'
    <2> SUFFICES ASSUME NEW k \in Key, NEW s \in Req, EntryOK(k, s)
                 PROVE  EntryOK(k, s)'
      BY DEF TablesOK
    <2>1. CASE s = cur[t]
      BY <2>1, <1>0 DEF EntryOK, TypeOK, Key, NoId
    <2>2. CASE s # cur[t]
      <3>1. \A u \in Thread : cur[u] # s
        BY <2>2 DEF MutexOK, TypeOK, Thread
      <3> QED BY <2>2, <3>1 DEF EntryOK, TypeOK
    <2> QED BY <2>1, <2>2
  <1> QED BY <1>1, <1>2, <1>3, <1>4, <1>5, <1>6, <1>7

\* Dispatching: the entry found at a reply's id is the entry of the request
\* the reply answers, and it is gone afterwards.
LEMMA LookupIInv ==
  ASSUME NEW m \in inbox, IInv, Lookup(m)
  PROVE  IInv'
  <1> USE ReqAssumption, IdAssumption DEF IInv, Lookup, client, locks, net
  <1>0. /\ m \in Msg /\ carried[m.req] = m.id
        /\ m.id < id /\ m.id \in Nat /\ m.id < MaxId
    BY DEF TypeOK, NetOK, IdsOK, Msg, Ids, NoId
  <1>1. KeyOf(m.id) = m.id /\ m.id \in Key
    BY <1>0, KeyIsId
  <1>2. m.req \in Req
    BY <1>0 DEF Msg
  <1>3. \A s \in Req : EntryOK(m.id, s) => s = m.req
    BY <1>0, <1>2 DEF EntryOK, IdsOK, NoId
  <1>4. /\ callbacks[m.id] \in {NoReq, m.req}
        /\ consumers[m.id] \in {NoReq, m.req}
    BY <1>1, <1>3 DEF TablesOK, TypeOK
  <1>5. TypeOK'
    BY <1>1, <1>2 DEF TypeOK, Place, Thread, Erase
  <1>6. MutexOK'
    BY DEF MutexOK, TypeOK, Thread
  <1>7. IdsOK' /\ NetOK' /\ CallsOK'
    BY DEF IdsOK, NetOK, CallsOK
  <1>8. FoundOK'
    <2>1. pc'["ws"] = "invoke" /\ found'.of = m.req
      BY <1>1 DEF TypeOK, Thread
    <2>2. found'.cb = callbacks[m.id] /\ found'.consumer = consumers[m.id]
      BY <1>1
    <2>3. /\ callbacks[m.id] # NoReq => calls[callbacks[m.id]] = 0
          /\ consumers[m.id] # NoReq => calls[consumers[m.id]] = 0
      BY <1>1 DEF TablesOK, EntryOK
    <2> QED BY <2>1, <2>2, <2>3, <1>4, <1>0, <1>2 DEF FoundOK, NoId
  <1>9. TablesOK'
    <2> SUFFICES ASSUME NEW k \in Key
                 PROVE  /\ callbacks'[k] # NoReq =>
                             callbacks'[k] \in CbReq /\ EntryOK(k, callbacks[k])'
                        /\ consumers'[k] # NoReq =>
                             consumers'[k] \in ConsReq /\ EntryOK(k, consumers[k])'
      BY DEF TablesOK
    <2>1. CASE k = m.id
      BY <2>1, <1>1 DEF Erase, TypeOK
    <2>2. CASE k # m.id
      <3>1. callbacks'[k] = callbacks[k] /\ consumers'[k] = consumers[k]
        BY <2>2, <1>1 DEF Erase, TypeOK
      <3>2. \A s \in Req : EntryOK(k, s) => s # m.req
        BY <2>2, <1>0, <1>2 DEF EntryOK, MutexOK, TypeOK, NoId
      <3>3. \A s \in Req : EntryOK(k, s) => EntryOK(k, s)'
        BY <3>2 DEF EntryOK
      <3> QED BY <3>1, <3>3 DEF TablesOK
    <2> QED BY <2>1, <2>2
  <1> QED BY <1>5, <1>6, <1>7, <1>8, <1>9

\* Invoking: what runs has not run before.
LEMMA InvokeIInv ==
  ASSUME IInv, Invoke
  PROVE  IInv'
  <1> USE ReqAssumption, IdAssumption DEF IInv, Invoke, client, locks, net
  <1>1. TypeOK'
    BY DEF TypeOK, Place, Thread, NoFound
  <1>2. MutexOK' /\ IdsOK' /\ NetOK'
    BY DEF MutexOK, IdsOK, NetOK, TypeOK, Thread
  <1>3. FoundOK'
    BY DEF FoundOK, NoFound, TypeOK, Thread
  <1>4. CallsOK'
    BY DEF CallsOK, FoundOK, TypeOK
  <1>5. TablesOK'
    <2>1. \A k \in Key, s \in Req : EntryOK(k, s) => EntryOK(k, s)'
      BY DEF EntryOK, FoundOK, NoFound, TypeOK
    <2> QED BY <2>1 DEF TablesOK
  <1> QED BY <1>1, <1>2, <1>3, <1>4, <1>5

\* The other steps leave the tables, the ids and the mutex alone.
LEMMA OtherIInv ==
  ASSUME IInv,
         \/ UiLock \/ UiUnlock \/ WantLv \/ TakeLv \/ DropLv \/ Return
         \/ OnOpen \/ OnClose \/ (\E m \in wire : Reply(m)) \/ LinkDrop
         \/ UNCHANGED vars
  PROVE  IInv'
  <1> USE DEF IInv, UiLock, UiUnlock, WantLv, TakeLv, DropLv, Return, OnOpen,
          OnClose, Reply, LinkDrop, vars, client, locks, thread, net
  <1>1. TypeOK'
    BY DEF TypeOK, Place, Thread, Free
  <1>2. MutexOK'
    BY DEF MutexOK, TypeOK, Thread
  <1>3. IdsOK' /\ CallsOK'
    BY DEF IdsOK, CallsOK
  <1>4. NetOK'
    BY DEF NetOK
  <1>5. FoundOK'
    BY DEF FoundOK, TypeOK, Thread
  <1>6. TablesOK'
    BY DEF TablesOK, EntryOK
  <1> QED BY <1>1, <1>2, <1>3, <1>4, <1>5, <1>6

\* IInv is an invariant of the client.
THEOREM Inductive == Spec => []IInv
  <1>1. IInv /\ [Next]_vars => IInv'
    BY RegisterIInv, SendIInv, LookupIInv, InvokeIInv, OtherIInv DEF Next
  <1> QED BY InitIInv, <1>1, PTL DEF Spec

\* The reply tables, ids, locks and threads keep their types.
THEOREM TypeCorrect == Spec => []TypeOK
  <1>1. IInv => TypeOK
    BY DEF IInv
  <1> QED BY <1>1, Inductive, PTL

\* A reply only ever runs the callback of the request it answers, whatever
\* the number of requests and however the two threads interleave.
THEOREM ReplyRouting == Spec => []RepliesGoHome
  <1>1. IInv => RepliesGoHome
    BY DEF IInv, FoundOK, RepliesGoHome
  <1> QED BY <1>1, Inductive, PTL

\* No entry outlives its reply.
THEOREM NoStaleEntries == Spec => []EntriesAreOutstanding
  <1>1. IInv => EntriesAreOutstanding
    <2> SUFFICES ASSUME IInv, NEW k \in Key,
                        NEW r \in {callbacks[k], consumers[k]} \ {NoReq}
                 PROVE  Outstanding(r)
      BY DEF EntriesAreOutstanding
    <2>1. EntryOK(k, r)
      BY DEF IInv, TablesOK
    <2>2. k # NoId
      BY IdAssumption DEF Key, NoId
    <2> QED BY <2>1, <2>2 DEF EntryOK, Outstanding
  <1> QED BY <1>1, Inductive, PTL

\* The websocket thread never waits for lv_lock while it holds rpc_mutex_.
THEOREM LockOrder == Spec => []NoLockInversion
  <1>1. IInv => NoLockInversion
    BY DEF IInv, MutexOK, NoLockInversion, Thread
  <1> QED BY <1>1, Inductive, PTL

-----------------------------------------------------------------------------
\* The two mutexes together.

\* The thread is between taking lv_lock and releasing it: in its drawing or
\* tap handlers, or inside send_jsonrpc called from there.
InLv(t) == \/ pc[t] \in {"tap", "body_lv"}
           \/ pc[t] = "reg" /\ ret[t] \in {"tap", "body_lv"}

\* lv_lock is held by exactly the thread that is inside.
LvOK == \A t \in Thread : lv_lock = t <=> InLv(t)

LEMMA LvSteps ==
  ASSUME IInv, LvOK, [Next]_vars PROVE LvOK'
  <1> USE DEF LvOK, InLv
  <1>1. /\ pc \in [Thread -> Place] /\ ret \in [Thread -> Place]
        /\ lv_lock \in Thread \cup {Free} /\ Thread = {"ui", "ws"} /\ Free = "none"
        /\ \A t \in Thread : pc[t] = "reg" => ret[t] \in {"tap", "body", "body_lv"}
    BY DEF IInv, TypeOK, MutexOK, Thread, Free
  <1>2. ASSUME NEW t \in Thread, NEW r \in Req, Register(t, r) PROVE LvOK'
    BY <1>1, <1>2 DEF Register, MaySend
  <1>3. ASSUME NEW t \in Thread, Send(t) PROVE LvOK'
    BY <1>1, <1>3 DEF Send
  <1>4. CASE UiLock \/ UiUnlock
    BY <1>1, <1>4 DEF UiLock, UiUnlock
  <1>5. CASE TakeLv \/ DropLv
    BY <1>1, <1>5 DEF TakeLv, DropLv
  <1>6. CASE \/ (\E m \in inbox : Lookup(m)) \/ Invoke \/ WantLv \/ Return
             \/ OnOpen \/ OnClose
    BY <1>1, <1>6 DEF Lookup, Invoke, WantLv, Return, OnOpen, OnClose, locks
  <1>7. CASE (\E m \in wire : Reply(m)) \/ LinkDrop \/ UNCHANGED vars
    BY <1>1, <1>7 DEF Reply, LinkDrop, vars, locks, thread
  <1> QED BY <1>2, <1>3, <1>4, <1>5, <1>6, <1>7 DEF Next

\* At most one thread is ever inside an lv_lock section, and no wait for the
\* two mutexes is a circle: who holds rpc_mutex_ is between registering and
\* sending and asks for nothing, and who holds lv_lock asks for rpc_mutex_ at
\* most (guppyscreen.cpp:152-154, websocket_client.cpp:64).
THEOREM LocksNeverCircle ==
  Spec => [](/\ ~(InLv("ui") /\ InLv("ws"))
             /\ \A t \in Thread : rpc_mutex_ = t => pc[t] = "reg"
             /\ \A t \in Thread : lv_lock = t => pc[t] \in {"tap", "body_lv", "reg"})
  <1>1. Init => LvOK
    BY DEF Init, LvOK, InLv, Thread, Free
  <1>2. IInv /\ LvOK => /\ ~(InLv("ui") /\ InLv("ws"))
                        /\ \A t \in Thread : rpc_mutex_ = t => pc[t] = "reg"
                        /\ \A t \in Thread : lv_lock = t => pc[t] \in {"tap", "body_lv", "reg"}
    BY DEF IInv, MutexOK, LvOK, InLv, Thread
  <1> QED BY <1>1, <1>2, LvSteps, Inductive, PTL DEF Spec

-----------------------------------------------------------------------------
(***************************************************************************)
(* The refinement of RpcContract. Besides IInv it needs to know that a     *)
(* request has at most one message under way, that a message under way is  *)
(* for a callback that has not run, and that the table still holds the     *)
(* entry of an awaited request until its reply is looked up.               *)
(***************************************************************************)

\* A request is in one place at a time.
PlacesOK ==
  /\ wire # {} => link = "up"
  /\ wire \cap inbox = {}
  /\ \A m \in wire \cup inbox : calls[m.req] = 0 /\ found.of # m.req
  /\ found.of # NoReq => calls[found.of] = 0

\* The tables hold r at k if r is awaited.
HasEntry(r, k) ==
  /\ r \in CbReq => callbacks[k] = r
  /\ r \in ConsReq => consumers[k] = r

EntriesOK ==
  /\ \A t \in Thread : cur[t] # NoReq => HasEntry(cur[t], id)
  /\ \A m \in wire \cup inbox : HasEntry(m.req, m.id)
  /\ found.of \in CbReq <=> found.cb # NoReq
  /\ found.of \in ConsReq <=> found.consumer # NoReq

RefInv == PlacesOK /\ EntriesOK

\* Facts about a message under way that every step below needs.
LEMMA MessageFacts ==
  ASSUME IInv, NEW m \in wire \cup inbox
  PROVE  /\ m \in Msg /\ m.req \in Req /\ carried[m.req] = m.id
         /\ m.id \in Nat /\ m.id < id /\ m.id # NoId /\ m.req # NoReq
         /\ \A n \in wire \cup inbox : n.id = m.id \/ n.req = m.req => n = m
  <1> USE ReqAssumption, IdAssumption DEF IInv
  <1>1. \A n \in wire \cup inbox :
          n \in Msg /\ n.req \in Req /\ carried[n.req] = n.id /\ n.id \in Nat
    BY DEF TypeOK, NetOK, Msg, Ids
  <1>2. m.id < id /\ m.id # NoId /\ m.req # NoReq
    BY <1>1 DEF IdsOK, NoId
  <1>3. ASSUME NEW n \in wire \cup inbox, n.id = m.id \/ n.req = m.req
        PROVE  n = m
    <2>1. n.req = m.req /\ n.id = m.id
      BY <1>1, <1>2, <1>3 DEF IdsOK
    <2> QED BY <2>1, <1>1 DEF Msg
  <1> QED BY <1>1, <1>2, <1>3

LEMMA RegisterRefInv ==
  ASSUME NEW t \in Thread, NEW r \in Req, IInv, RefInv, Register(t, r)
  PROVE  RefInv'
  <1> USE ReqAssumption, IdAssumption DEF IInv, RefInv, Register, client, locks, net
  <1>0. id \in Nat /\ KeyOf(id) = id /\ id \in Key
    BY KeyIsId DEF TypeOK, Ids
  <1>1. PlacesOK'
    BY DEF PlacesOK
  <1>2. \A u \in Thread : cur'[u] # NoReq => HasEntry(cur[u], id)'
    <2>1. \A u \in Thread : cur'[u] # NoReq => cur'[u] = r
      BY DEF MutexOK, TypeOK, Thread, Free
    <2>2. HasEntry(r, id)'
      BY <1>0 DEF HasEntry, TypeOK
    <2> QED BY <2>1, <2>2 DEF HasEntry
  <1>3. \A m \in wire' \cup inbox' : HasEntry(m.req, m.id)'
    BY <1>0, MessageFacts DEF EntriesOK, HasEntry, TypeOK
  <1>4. EntriesOK'
    BY <1>2, <1>3 DEF EntriesOK
  <1> QED BY <1>1, <1>4

LEMMA SendRefInv ==
  ASSUME NEW t \in Thread, IInv, RefInv, Send(t)
  PROVE  RefInv'
  <1> USE ReqAssumption, IdAssumption DEF IInv, RefInv, Send, client, locks, net
  <1> DEFINE new == [req |-> cur[t], id |-> id]
  <1>0. cur[t] \in Req /\ carried[cur[t]] = NoId
    BY DEF TypeOK, MutexOK
  <1>1. calls[cur[t]] = 0 /\ found.of # cur[t]
    BY <1>0 DEF CallsOK, FoundOK
  <1>2. \A m \in wire \cup inbox : m # new
    BY <1>0, MessageFacts
  <1>3. wire' \subseteq wire \cup {new} /\ (wire' # wire => link = "up")
    OBVIOUS
  <1>4. PlacesOK'
    BY <1>1, <1>2, <1>3 DEF PlacesOK
  <1>5. HasEntry(cur[t], id)
    BY <1>0 DEF EntriesOK
  <1>6. \A u \in Thread : cur'[u] = NoReq
    BY DEF MutexOK, TypeOK, Thread
  <1>7. \A r, k : HasEntry(r, k)' <=> HasEntry(r, k)
    BY DEF HasEntry
  <1>8. EntriesOK'
    BY <1>3, <1>5, <1>6, <1>7 DEF EntriesOK
  <1> QED BY <1>4, <1>8

LEMMA LookupRefInv ==
  ASSUME NEW m \in inbox, IInv, RefInv, Lookup(m)
  PROVE  RefInv'
  <1> USE ReqAssumption, IdAssumption DEF IInv, RefInv, Lookup, client, locks, net
  <1>0. /\ m.req \in Req /\ m.id \in Nat /\ m.id < id /\ m.id < MaxId
        /\ \A n \in wire \cup inbox : n.id = m.id \/ n.req = m.req => n = m
    BY MessageFacts DEF TypeOK, Ids
  <1>1. KeyOf(m.id) = m.id /\ m.id \in Key
    BY <1>0, KeyIsId
  <1>2. found' = [of |-> m.req, consumer |-> consumers[m.id], cb |-> callbacks[m.id]]
    BY <1>1
  <1>3. HasEntry(m.req, m.id)
    BY DEF EntriesOK
  <1>4. PlacesOK'
    BY <1>0, <1>2 DEF PlacesOK
  <1>5. /\ callbacks[m.id] # NoReq => callbacks[m.id] = m.req /\ m.req \in CbReq
        /\ consumers[m.id] # NoReq => consumers[m.id] = m.req /\ m.req \in ConsReq
    <2>1. \A s \in Req : EntryOK(m.id, s) => s = m.req
      BY <1>0, MessageFacts DEF EntryOK, IdsOK, NoId
    <2> QED BY <2>1, <1>1 DEF TablesOK, TypeOK
  <1>6. \A r \in Req : \A k : k # m.id /\ HasEntry(r, k) => HasEntry(r, k)'
    BY <1>1 DEF HasEntry, Erase, TypeOK
  <1>7. \A n \in wire' \cup inbox' : HasEntry(n.req, n.id)'
    <2>1. \A n \in wire' \cup inbox' : n \in wire \cup inbox /\ n # m
      BY DEF PlacesOK
    <2>2. \A n \in wire \cup inbox : n.req \in Req /\ HasEntry(n.req, n.id)
      BY MessageFacts DEF EntriesOK
    <2> QED BY <2>1, <2>2, <1>0, <1>6
  <1>8. \A u \in Thread : cur'[u] # NoReq => HasEntry(cur[u], id)'
    BY DEF MutexOK, Thread, Free
  <1>9. EntriesOK'
    BY <1>0, <1>2, <1>3, <1>5, <1>7, <1>8 DEF EntriesOK, HasEntry
  <1> QED BY <1>4, <1>9

LEMMA InvokeRefInv ==
  ASSUME IInv, RefInv, Invoke
  PROVE  RefInv'
  <1> USE ReqAssumption DEF IInv, RefInv, Invoke, client, locks, net
  <1>1. PlacesOK'
    <2>1. ASSUME NEW m \in wire \cup inbox
          PROVE  calls'[m.req] = 0 /\ found'.of # m.req
      BY MessageFacts DEF PlacesOK, FoundOK, NoFound
    <2> QED BY <2>1 DEF PlacesOK, NoFound
  <1>2. EntriesOK'
    BY DEF EntriesOK, HasEntry, NoFound
  <1> QED BY <1>1, <1>2

LEMMA OtherRefInv ==
  ASSUME IInv, RefInv,
         \/ UiLock \/ UiUnlock \/ WantLv \/ TakeLv \/ DropLv \/ Return
         \/ OnOpen \/ OnClose \/ (\E m \in wire : Reply(m)) \/ LinkDrop
         \/ UNCHANGED vars
  PROVE  RefInv'
  <1> USE DEF RefInv, UiLock, UiUnlock, WantLv, TakeLv, DropLv, Return, OnOpen,
          OnClose, Reply, LinkDrop, vars, client, locks, thread, net
  <1>1. PlacesOK'
    BY DEF PlacesOK
  <1>2. EntriesOK'
    BY DEF EntriesOK, HasEntry
  <1> QED BY <1>1, <1>2

\* RefInv is an invariant of the client.
THEOREM InductiveRef == Spec => []RefInv
  <1>1. Init => RefInv
    BY ReqAssumption DEF Init, RefInv, PlacesOK, EntriesOK, NoFound
  <1>2. IInv /\ RefInv /\ [Next]_vars => RefInv'
    BY RegisterRefInv, SendRefInv, LookupRefInv, InvokeRefInv, OtherRefInv DEF Next
  <1> QED BY <1>1, <1>2, Inductive, PTL DEF Spec

InWire(r)  == \E m \in wire : m.req = r
InInbox(r) == \E m \in inbox : m.req = r

\* The cases of StatusOf exclude each other.
StatusOK ==
  \A r \in Req :
    /\ carried[r] = NoId => StatusOf(r) = "new"
    /\ InWire(r) => StatusOf(r) = "sent"
    /\ InInbox(r) \/ found.of = r => StatusOf(r) = "answered"
    /\ calls[r] = 1 => StatusOf(r) = "handled"
    /\ /\ carried[r] # NoId /\ ~InWire(r) /\ ~InInbox(r)
       /\ found.of # r /\ calls[r] = 0
       => StatusOf(r) = "closed"
    /\ calls[r] \in {0, 1}

LEMMA StatusFacts == IInv /\ RefInv => StatusOK
  <1> SUFFICES
        ASSUME IInv, RefInv, NEW r \in Req
        PROVE  /\ carried[r] = NoId => StatusOf(r) = "new"
               /\ InWire(r) => StatusOf(r) = "sent"
               /\ InInbox(r) \/ found.of = r => StatusOf(r) = "answered"
               /\ calls[r] = 1 => StatusOf(r) = "handled"
               /\ /\ carried[r] # NoId /\ ~InWire(r) /\ ~InInbox(r)
                  /\ found.of # r /\ calls[r] = 0
                  => StatusOf(r) = "closed"
               /\ calls[r] \in {0, 1}
    BY DEF StatusOK
  <1> USE ReqAssumption
  <1>1. carried[r] = NoId => ~InWire(r) /\ ~InInbox(r) /\ found.of # r /\ calls[r] = 0
    BY MessageFacts DEF InWire, InInbox, IInv, FoundOK, CallsOK
  <1>2. InWire(r) => ~InInbox(r) /\ found.of # r /\ calls[r] = 0
    BY MessageFacts DEF InWire, InInbox, RefInv, PlacesOK
  <1>3. InInbox(r) \/ found.of = r => calls[r] = 0
    BY DEF InInbox, RefInv, PlacesOK
  <1>4. calls[r] \in {0, 1}
    BY DEF IInv, CallsOK
  <1>5. StatusOf(r) = CASE carried[r] = NoId -> "new"
                        [] InWire(r) -> "sent"
                        [] InInbox(r) \/ found.of = r -> "answered"
                        [] calls[r] > 0 -> "handled"
                        [] OTHER -> "closed"
    BY DEF StatusOf, InWire, InInbox
  <1>6. CASE carried[r] = NoId
    <2>1. StatusOf(r) = "new"
      BY <1>6, <1>1, <1>5
    <2> QED BY <2>1, <1>6, <1>1, <1>4
  <1>7. CASE carried[r] # NoId
    BY <1>7, <1>2, <1>3, <1>4, <1>5
  <1> QED BY <1>6, <1>7

\* A request on which no step of the client bears keeps its status.
SameStatus(r) ==
  /\ carried'[r] = carried[r] /\ calls'[r] = calls[r]
  /\ InWire(r)' <=> InWire(r)
  /\ InInbox(r)' \/ found'.of = r <=> InInbox(r) \/ found.of = r

LEMMA SameStatusKeeps ==
  ASSUME StatusOK, StatusOK', NEW r \in Req, SameStatus(r)
  PROVE  StatusOf(r)' = StatusOf(r)
  BY DEF StatusOK, SameStatus

\* Sending issues the request: sent on a live link, closed on any other.
LEMMA SendRefines ==
  ASSUME NEW t \in Thread, NEW q \in Req, q = cur[t],
         IInv, RefInv, StatusOK, StatusOK', Send(t)
  PROVE  RC!Issue(q)
  <1> USE ReqAssumption DEF Send, client, locks, net
  <1>0. carried[q] = NoId /\ id # NoId
    BY IdAssumption DEF IInv, TypeOK, MutexOK, NoId, Ids
  <1>1. ASSUME NEW r \in Req, r # q
        PROVE  StatusOf(r)' = StatusOf(r)
    <2>1. SameStatus(r)
      BY <1>0, <1>1 DEF SameStatus, InWire, InInbox, IInv, TypeOK
    <2> QED BY <2>1, SameStatusKeeps
  <1>2. StatusOf(q) = "new" /\ carried'[q] # NoId
    BY <1>0 DEF StatusOK, IInv, TypeOK
  <1>3. ~InInbox(q)' /\ ~InWire(q) /\ found'.of # q /\ calls'[q] = 0
    BY <1>0, MessageFacts DEF InWire, InInbox, IInv, FoundOK, CallsOK
  <1>4. InWire(q)' <=> link = "up"
    <2>1. [req |-> cur[t], id |-> id].req = q
      OBVIOUS
    <2>2. CASE link = "up"
      <3>1. [req |-> cur[t], id |-> id] \in wire'
        BY <2>2
      <3> QED BY <2>1, <2>2, <3>1 DEF InWire
    <2>3. CASE link # "up"
      BY <1>3, <2>3 DEF InWire
    <2> QED BY <2>2, <2>3
  <1>5. StatusOf(q)' = IF link = "up" THEN "sent" ELSE "closed"
    BY <1>2, <1>3, <1>4 DEF StatusOK
  <1> QED BY <1>1, <1>2, <1>5 DEF RC!Issue

\* Moonraker's reply reaches the socket.
LEMMA ReplyRefines ==
  ASSUME NEW m \in wire, IInv, RefInv, StatusOK, StatusOK', Reply(m)
  PROVE  RC!Answer(m.req)
  <1> USE ReqAssumption DEF Reply, client, locks, net, thread
  <1>0. m.req \in Req /\ \A n \in wire \cup inbox : n.req = m.req => n = m
    BY MessageFacts
  <1>1. ASSUME NEW r \in Req, r # m.req
        PROVE  StatusOf(r)' = StatusOf(r)
    <2>1. SameStatus(r)
      BY <1>1 DEF SameStatus, InWire, InInbox
    <2> QED BY <2>1, SameStatusKeeps
  <1>2. StatusOf(m.req) = "sent"
    BY <1>0 DEF StatusOK, InWire
  <1>3. StatusOf(m.req)' = "answered"
    BY <1>0 DEF StatusOK, InInbox
  <1> QED BY <1>0, <1>1, <1>2, <1>3 DEF RC!Answer

\* Copying the entry out of the tables changes nothing for the caller yet.
LEMMA LookupRefines ==
  ASSUME NEW m \in inbox, IInv, RefInv, StatusOK, StatusOK', Lookup(m)
  PROVE  UNCHANGED RC!cvars
  <1> USE ReqAssumption DEF Lookup, client, locks, net, thread
  <1>0. m.req \in Req /\ \A n \in wire \cup inbox : n.req = m.req => n = m
    BY MessageFacts
  <1>1. found.of = NoReq /\ found'.of = m.req
    BY DEF IInv, FoundOK
  <1>2. ASSUME NEW r \in Req
        PROVE  StatusOf(r)' = StatusOf(r)
    <2>1. SameStatus(r)
      BY <1>0, <1>1 DEF SameStatus, InWire, InInbox
    <2> QED BY <2>1, SameStatusKeeps
  <1> QED BY <1>2 DEF RC!cvars

\* Invoking handles an awaited request, and discards the reply to another.
LEMMA InvokeRefines ==
  ASSUME IInv, RefInv, StatusOK, StatusOK', Invoke, NEW q \in Req, q = found.of
  PROVE  RC!Handle(q) \/ RC!Discard(q)
  <1> USE ReqAssumption DEF Invoke, client, locks, net
  <1>0. /\ found'.of = NoReq /\ StatusOf(q) = "answered" /\ carried'[q] # NoId
        /\ ~InWire(q)' /\ ~InInbox(q)' /\ calls[q] = 0
    BY DEF IInv, FoundOK, NoFound, StatusOK, RefInv, PlacesOK, InWire, InInbox
  <1>1. ASSUME NEW r \in Req, r # q
        PROVE  StatusOf(r)' = StatusOf(r)
    <2>1. r \notin {found.consumer, found.cb}
      BY <1>1 DEF IInv, FoundOK
    <2>2. SameStatus(r)
      BY <1>0, <1>1, <2>1 DEF SameStatus, InWire, InInbox
    <2> QED BY <2>2, SameStatusKeeps
  <1>2. q \in CbReq \cup ConsReq <=> q \in {found.consumer, found.cb}
    BY DEF RefInv, EntriesOK, IInv, FoundOK
  <1>3. CASE q \in CbReq \cup ConsReq
    <2>1. calls'[q] = 1
      BY <1>0, <1>2, <1>3
    <2>2. StatusOf(q)' = "handled"
      BY <2>1 DEF StatusOK
    <2> QED BY <1>0, <1>1, <1>3, <2>2 DEF RC!Handle
  <1>4. CASE q \notin CbReq \cup ConsReq
    <2>1. calls'[q] = 0
      BY <1>0, <1>2, <1>4
    <2>2. StatusOf(q)' = "closed"
      BY <2>1, <1>0 DEF StatusOK
    <2> QED BY <1>0, <1>1, <1>4, <2>2 DEF RC!Discard
  <1> QED BY <1>3, <1>4

\* A dying link closes what was not answered, and the replies it takes.
LEMMA LinkDropRefines ==
  ASSUME IInv, RefInv, StatusOK, StatusOK', LinkDrop
  PROVE  RC!Drop
  <1> USE ReqAssumption DEF LinkDrop, client, locks, net, thread
  <1> DEFINE lost == IF inbox' = inbox THEN {} ELSE {r \in Req : InInbox(r)}
  <1>1. lost \subseteq {r \in Req : StatusOf(r) = "answered"}
    BY DEF StatusOK
  <1>2. \A r \in Req : ~InWire(r)'
    BY DEF InWire
  <1>3. ASSUME NEW r \in Req
        PROVE  StatusOf(r)' = IF StatusOf(r) = "sent" \/ r \in lost
                              THEN "closed" ELSE StatusOf(r)
    <2>1. CASE InWire(r)
      <3>1. carried[r] # NoId /\ ~InInbox(r) /\ found.of # r /\ calls[r] = 0
        BY <2>1, MessageFacts DEF InWire, InInbox, RefInv, PlacesOK
      <3>2. ~InInbox(r)'
        BY <3>1 DEF InInbox
      <3> QED BY <2>1, <3>1, <3>2, <1>2 DEF StatusOK
    <2>2. CASE InInbox(r) /\ inbox' # inbox
      <3>1. carried[r] # NoId /\ found.of # r /\ calls[r] = 0
        BY <2>2, MessageFacts DEF InInbox, RefInv, PlacesOK
      <3>2. ~InInbox(r)' /\ r \in lost
        BY <2>2 DEF InInbox
      <3> QED BY <3>1, <3>2, <1>2 DEF StatusOK
    <2>3. CASE ~InWire(r) /\ ~(InInbox(r) /\ inbox' # inbox)
      <3>1. SameStatus(r)
        BY <2>3, <1>2 DEF SameStatus, InInbox
      <3>2. StatusOf(r) # "sent" /\ r \notin lost
        BY <2>3 DEF StatusOK
      <3> QED BY <3>1, <3>2, SameStatusKeeps
    <2> QED BY <2>1, <2>2, <2>3
  <1>4. /\ link = "up" /\ link' # "up"
        /\ [r \in Req |-> StatusOf(r)]'
             = [r \in Req |-> IF [s \in Req |-> StatusOf(s)][r] = "sent" \/ r \in lost
                              THEN "closed" ELSE [s \in Req |-> StatusOf(s)][r]]
    BY <1>3
  <1> QED BY <1>1, <1>4 DEF RC!Drop

\* The other steps are the thread's own business, or open the link.
LEMMA OtherRefines ==
  ASSUME StatusOK, StatusOK',
         \/ \E t \in Thread, r \in Req : Register(t, r)
         \/ UiLock \/ UiUnlock \/ WantLv \/ TakeLv \/ DropLv \/ Return
         \/ OnOpen \/ OnClose \/ UNCHANGED vars
  PROVE  RC!Open \/ UNCHANGED RC!cvars
  <1>1. UNCHANGED <<wire, inbox, carried, calls, found>>
    BY DEF Register, UiLock, UiUnlock, WantLv, TakeLv, DropLv, Return, OnOpen,
           OnClose, vars, client, locks, thread, net
  <1>2. \A r \in Req : StatusOf(r)' = StatusOf(r)
    BY <1>1, SameStatusKeeps DEF SameStatus, InWire, InInbox
  <1>3. (link # "up" /\ link' = "up") \/ ((link = "up") <=> (link' = "up"))
    BY DEF Register, UiLock, UiUnlock, WantLv, TakeLv, DropLv, Return, OnOpen,
           OnClose, vars, client, locks, thread, net
  <1> QED BY <1>2, <1>3 DEF RC!Open, RC!cvars

\* KWebSocketClient implements RpcContract: whatever the number of requests
\* and however the threads, the replies and the link interleave, a callback
\* runs at most once, for its own reply, and no reply to an awaited request is
\* dropped on a live link.
THEOREM Implementation == Spec => ImplementsContract
  <1>1. Init => RC!ContractInit
    BY ReqAssumption DEF Init, RC!ContractInit, StatusOf, NoFound
  <1>2. /\ IInv /\ RefInv /\ StatusOK /\ StatusOK' /\ [Next]_vars
        => [RC!ContractNext]_(RC!cvars)
    <2> SUFFICES ASSUME IInv, RefInv, StatusOK, StatusOK', [Next]_vars
                 PROVE  RC!ContractNext \/ UNCHANGED RC!cvars
      OBVIOUS
    <2>1. ASSUME NEW t \in Thread, Send(t) PROVE RC!ContractNext
      <3>1. cur[t] \in Req
        BY <2>1 DEF Send, IInv, TypeOK, MutexOK
      <3> QED BY <2>1, <3>1, SendRefines DEF RC!ContractNext
    <2>2. CASE Invoke
      <3>1. found.of \in Req
        BY <2>2 DEF Invoke, IInv, TypeOK, FoundOK
      <3> QED BY <2>2, <3>1, InvokeRefines DEF RC!ContractNext
    <2>3. ASSUME NEW m \in wire, Reply(m) PROVE RC!ContractNext
      <3>1. m.req \in Req
        BY MessageFacts
      <3> QED BY <2>3, <3>1, ReplyRefines DEF RC!ContractNext
    <2>4. CASE LinkDrop
      BY <2>4, LinkDropRefines DEF RC!ContractNext
    <2>5. ASSUME NEW m \in inbox, Lookup(m) PROVE UNCHANGED RC!cvars
      BY <2>5, LookupRefines
    <2>6. CASE \/ \E t \in Thread, r \in Req : Register(t, r)
               \/ UiLock \/ UiUnlock \/ WantLv \/ TakeLv \/ DropLv \/ Return
               \/ OnOpen \/ OnClose \/ UNCHANGED vars
      BY <2>6, OtherRefines DEF RC!ContractNext
    <2> QED BY <2>1, <2>2, <2>3, <2>4, <2>5, <2>6 DEF Next
  <1> QED BY <1>1, <1>2, Inductive, InductiveRef, StatusFacts, PTL
          DEF Spec, ImplementsContract, RC!Contract

=============================================================================
