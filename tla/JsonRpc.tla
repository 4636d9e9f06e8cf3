------------------------------ MODULE JsonRpc ------------------------------
(***************************************************************************)
(* KWebSocketClient (websocket_client.cpp): JSON-RPC requests made by two  *)
(* threads over one websocket, their reply tables, and the two mutexes     *)
(* the threads meet on.                                                    *)
(*                                                                         *)
(*   ui  GuppyScreen::loop: takes lv_lock, runs lv_timer_handler (tap      *)
(*       handlers send requests there), releases it.                       *)
(*   ws  the libhv event loop: onopen, onmessage, onclose; the reply       *)
(*       handlers it calls take lv_lock for UI work and send requests too. *)
(*                                                                         *)
(* rpc_mutex_ is recursive: the callback variants of send_jsonrpc hold it  *)
(* around the bare variant, so one acquisition spans register and send.    *)
(***************************************************************************)
EXTENDS Integers

CONSTANTS Req,        \* calls of send_jsonrpc, each made once
          CbReq,      \* the ones that pass a std::function callback
          ConsReq,    \* the ones that pass a NotifyConsumer
          NoReq,      \* no entry / no request
          IdSpan,     \* number of keys of the tables: 2^32 in the build
          MaxId       \* bound: requests made in one run of the program

ASSUME ReqAssumption ==
  /\ CbReq \subseteq Req /\ ConsReq \subseteq Req
  /\ CbReq \cap ConsReq = {}
  /\ NoReq \notin Req

\* The tables are keyed on uint32_t while id is a uint64: the run is bounded
\* to the requests made before the key wraps.
ASSUME IdAssumption ==
  /\ IdSpan \in Nat /\ MaxId \in Nat
  /\ MaxId <= IdSpan /\ IdSpan > 0

VARIABLES
  id,          \* the next request id
  callbacks,   \* reply table: key -> the request whose cb it holds
  consumers,   \* reply table of the NotifyConsumer variant
  rpc_mutex_,  \* holder of rpc_mutex_
  lv_lock,     \* holder of lv_lock
  pc,          \* where each thread is
  cur,         \* the request a thread is inside send_jsonrpc for
  ret,         \* where that call returns to
  found,       \* ws: the reply being dispatched and what was copied out
  link,        \* the websocket
  wire,        \* requests Moonraker holds: [req, id]
  inbox,       \* replies that reached the socket: [req, id]
  carried,     \* the id each request was sent with
  calls        \* how often each request's cb or consumer ran

client == <<id, callbacks, consumers>>
locks  == <<rpc_mutex_, lv_lock>>
thread == <<pc, cur, ret>>
net    == <<link, wire, inbox>>
vars   == <<client, locks, thread, found, net, carried, calls>>

Thread == {"ui", "ws"}
Free   == "none"
NoId   == -1
Key    == 0 .. IdSpan - 1
Ids    == 0 .. MaxId
Msg    == [req : Req, id : Ids]
Place  == {"idle", "tap", "reg", "invoke", "body", "want_lv", "body_lv"}
NoFound == [of |-> NoReq, consumer |-> NoReq, cb |-> NoReq]

\* callbacks, consumers: std::map<uint32_t, ...>
KeyOf(i) == i % IdSpan

TypeOK ==
  /\ id \in Ids
  /\ callbacks \in [Key -> Req \cup {NoReq}]
  /\ consumers \in [Key -> Req \cup {NoReq}]
  /\ rpc_mutex_ \in Thread \cup {Free}
  /\ lv_lock \in Thread \cup {Free}
  /\ pc \in [Thread -> Place]
  /\ cur \in [Thread -> Req \cup {NoReq}]
  /\ ret \in [Thread -> Place]
  /\ found \in [of : Req \cup {NoReq}, consumer : Req \cup {NoReq},
                cb : Req \cup {NoReq}]
  /\ link \in {"up", "dropped", "closed"}
  /\ wire \in SUBSET Msg
  /\ inbox \in SUBSET Msg
  /\ carried \in [Req -> Ids \cup {NoId}]
  /\ calls \in [Req -> Nat]

Init ==
  /\ id = 0
  /\ callbacks = [k \in Key |-> NoReq]
  /\ consumers = [k \in Key |-> NoReq]
  /\ rpc_mutex_ = Free
  /\ lv_lock = Free
  /\ pc = [t \in Thread |-> "idle"]
  /\ cur = [t \in Thread |-> NoReq]
  /\ ret = [t \in Thread |-> "idle"]
  /\ found = NoFound
  /\ link = "closed"
  /\ wire = {}
  /\ inbox = {}
  /\ carried = [r \in Req |-> NoId]
  /\ calls = [r \in Req |-> 0]

-----------------------------------------------------------------------------
\* Sending, from a tap handler (ui, under lv_lock) or a reply handler (ws).

MaySend(t) == pc[t] \in {"tap", "body", "body_lv"}
Fresh(r)   == carried[r] = NoId /\ \A t \in Thread : cur[t] # r

RegisterUnlocked(t, r) ==
  /\ MaySend(t) /\ Fresh(r) /\ id < MaxId
  /\ callbacks' = IF r \in CbReq
                  THEN [callbacks EXCEPT ![KeyOf(id)] = r] ELSE callbacks
  /\ consumers' = IF r \in ConsReq
                  THEN [consumers EXCEPT ![KeyOf(id)] = r] ELSE consumers
  /\ pc' = [pc EXCEPT ![t] = "reg"]
  /\ cur' = [cur EXCEPT ![t] = r]
  /\ ret' = [ret EXCEPT ![t] = pc[t]]
  /\ UNCHANGED <<id, rpc_mutex_, lv_lock, found, net, carried, calls>>

\* The callback and consumer variants: key the table on the current id and
\* go on, still holding rpc_mutex_, to the bare variant.
Register(t, r) ==
  /\ MaySend(t) /\ Fresh(r) /\ id < MaxId
  /\ rpc_mutex_ = Free
  /\ rpc_mutex_' = t
  /\ callbacks' = IF r \in CbReq
                  THEN [callbacks EXCEPT ![KeyOf(id)] = r] ELSE callbacks
  /\ consumers' = IF r \in ConsReq
                  THEN [consumers EXCEPT ![KeyOf(id)] = r] ELSE consumers
  /\ pc' = [pc EXCEPT ![t] = "reg"]
  /\ cur' = [cur EXCEPT ![t] = r]
  /\ ret' = [ret EXCEPT ![t] = pc[t]]
  /\ UNCHANGED <<id, lv_lock, found, net, carried, calls>>

SendDoubleIncrement(t) ==
  /\ pc[t] = "reg"
  /\ carried' = [carried EXCEPT ![cur[t]] = id]
  /\ id' = id + 2
  /\ wire' = IF link = "up"
             THEN wire \cup {[req |-> cur[t], id |-> id]} ELSE wire
  /\ rpc_mutex_' = Free
  /\ pc' = [pc EXCEPT ![t] = ret[t]]
  /\ cur' = [cur EXCEPT ![t] = NoReq]
  /\ UNCHANGED <<callbacks, consumers, lv_lock, ret, found, link, inbox, calls>>

\* The bare variant: stamp the rpc with id++, hand it to the socket. send()
\* fails on a link that is not up; no caller looks, no entry is taken back.
Send(t) ==
  /\ pc[t] = "reg"
  /\ carried' = [carried EXCEPT ![cur[t]] = id]
  /\ id' = id + 1
  /\ wire' = IF link = "up"
             THEN wire \cup {[req |-> cur[t], id |-> id]} ELSE wire
  /\ rpc_mutex_' = Free
  /\ pc' = [pc EXCEPT ![t] = ret[t]]
  /\ cur' = [cur EXCEPT ![t] = NoReq]
  /\ UNCHANGED <<callbacks, consumers, lv_lock, ret, found, link, inbox, calls>>

-----------------------------------------------------------------------------
\* The UI thread: one pass of GuppyScreen::loop.

UiLock ==
  /\ pc["ui"] = "idle" /\ lv_lock = Free
  /\ lv_lock' = "ui"
  /\ pc' = [pc EXCEPT !["ui"] = "tap"]
  /\ UNCHANGED <<client, rpc_mutex_, cur, ret, found, net, carried, calls>>

UiUnlock ==
  /\ pc["ui"] = "tap"
  /\ lv_lock' = Free
  /\ pc' = [pc EXCEPT !["ui"] = "idle"]
  /\ UNCHANGED <<client, rpc_mutex_, cur, ret, found, net, carried, calls>>

-----------------------------------------------------------------------------
\* The websocket thread.

Erase(table, k) == [table EXCEPT ![k] = NoReq]

\* onmessage, the "id" part: copy the entries out and erase them under
\* rpc_mutex_, then go on without it.
LookupKeepsEntry(m) ==
  LET rid == KeyOf(m.id) IN
  /\ pc["ws"] = "idle" /\ rpc_mutex_ = Free
  /\ inbox' = inbox \ {m}
  /\ found' = [of |-> m.req, consumer |-> consumers[rid], cb |-> callbacks[rid]]
  /\ pc' = [pc EXCEPT !["ws"] = "invoke"]
  /\ UNCHANGED <<client, locks, cur, ret, link, wire, carried, calls>>

LookupHoldsLock(m) ==
  LET rid == KeyOf(m.id) IN
  /\ pc["ws"] = "idle" /\ rpc_mutex_ = Free
  /\ rpc_mutex_' = "ws"
  /\ inbox' = inbox \ {m}
  /\ found' = [of |-> m.req, consumer |-> consumers[rid], cb |-> callbacks[rid]]
  /\ consumers' = Erase(consumers, rid)
  /\ callbacks' = Erase(callbacks, rid)
  /\ pc' = [pc EXCEPT !["ws"] = "invoke"]
  /\ UNCHANGED <<id, lv_lock, cur, ret, link, wire, carried, calls>>

Lookup(m) ==
  LET rid == KeyOf(m.id) IN
  /\ pc["ws"] = "idle" /\ rpc_mutex_ = Free
  /\ inbox' = inbox \ {m}
  /\ found' = [of |-> m.req, consumer |-> consumers[rid], cb |-> callbacks[rid]]
  /\ consumers' = Erase(consumers, rid)
  /\ callbacks' = Erase(callbacks, rid)
  /\ pc' = [pc EXCEPT !["ws"] = "invoke"]
  /\ UNCHANGED <<id, locks, cur, ret, link, wire, carried, calls>>

InvokeCbOnly ==
  /\ pc["ws"] = "invoke"
  /\ calls' = [r \in Req |-> IF r = found.cb THEN calls[r] + 1 ELSE calls[r]]
  /\ found' = NoFound
  /\ pc' = [pc EXCEPT !["ws"] = "body"]
  /\ UNCHANGED <<client, locks, cur, ret, net, carried>>

\* if (consumer) consumer->consume(j); if (cb) cb(j);
Invoke ==
  /\ pc["ws"] = "invoke"
  /\ calls' = [r \in Req |-> IF r \in {found.consumer, found.cb}
                             THEN calls[r] + 1 ELSE calls[r]]
  /\ found' = NoFound
  /\ pc' = [pc EXCEPT !["ws"] = "body"]
  /\ UNCHANGED <<client, locks, cur, ret, net, carried>>

\* A handler that touches LVGL asks for lv_lock, waits for it, gives it back.
WantLv ==
  /\ pc["ws"] = "body"
  /\ pc' = [pc EXCEPT !["ws"] = "want_lv"]
  /\ UNCHANGED <<client, locks, cur, ret, found, net, carried, calls>>

TakeLv ==
  /\ pc["ws"] = "want_lv" /\ lv_lock = Free
  /\ lv_lock' = "ws"
  /\ pc' = [pc EXCEPT !["ws"] = "body_lv"]
  /\ UNCHANGED <<client, rpc_mutex_, cur, ret, found, net, carried, calls>>

DropLv ==
  /\ pc["ws"] = "body_lv"
  /\ lv_lock' = Free
  /\ pc' = [pc EXCEPT !["ws"] = "body"]
  /\ UNCHANGED <<client, rpc_mutex_, cur, ret, found, net, carried, calls>>

\* The handler returns to the event loop.
Return ==
  /\ pc["ws"] = "body"
  /\ pc' = [pc EXCEPT !["ws"] = "idle"]
  /\ UNCHANGED <<client, locks, cur, ret, found, net, carried, calls>>

\* onopen and onclose run a handler (connected / disconnected) and leave the
\* reply tables as they are.
OnOpen ==
  /\ pc["ws"] = "idle" /\ link = "closed"
  /\ link' = "up"
  /\ pc' = [pc EXCEPT !["ws"] = "body"]
  /\ UNCHANGED <<client, locks, cur, ret, found, wire, inbox, carried, calls>>

OnClose ==
  /\ pc["ws"] = "idle" /\ link = "dropped" /\ inbox = {}
  /\ link' = "closed"
  /\ pc' = [pc EXCEPT !["ws"] = "body"]
  /\ UNCHANGED <<client, locks, cur, ret, found, wire, inbox, carried, calls>>

-----------------------------------------------------------------------------
\* Moonraker and the network (outside src/): replies come back in any order;
\* a dying link takes every unanswered request and possibly unread replies.

Reply(m) ==
  /\ link = "up"
  /\ wire' = wire \ {m}
  /\ inbox' = inbox \cup {m}
  /\ UNCHANGED <<client, locks, thread, found, link, carried, calls>>

LinkDrop ==
  /\ link = "up"
  /\ link' = "dropped"
  /\ wire' = {}
  /\ inbox' \in {inbox, {}}
  /\ UNCHANGED <<client, locks, thread, found, carried, calls>>

Next ==
  \/ \E t \in Thread, r \in Req : Register(t, r)
  \/ \E t \in Thread : Send(t)
  \/ UiLock \/ UiUnlock
  \/ \E m \in inbox : Lookup(m)
  \/ Invoke \/ WantLv \/ TakeLv \/ DropLv \/ Return
  \/ OnOpen \/ OnClose
  \/ \E m \in wire : Reply(m)
  \/ LinkDrop

Spec == Init /\ [][Next]_vars

\* Every thread keeps running. lv_lock is a plain std::mutex, which the UI
\* loop leaves free between two passes; a handler is straight-line code that
\* asks for the lock a bounded number of times and returns.
Fairness ==
  /\ \A t \in Thread : WF_vars(Send(t))
  /\ WF_vars(UiUnlock)
  /\ SF_vars(TakeLv) /\ WF_vars(DropLv) /\ SF_vars(Return)
  /\ WF_vars(Invoke)
  /\ SF_vars(\E m \in inbox : Lookup(m))

FairSpec == Spec /\ Fairness

-----------------------------------------------------------------------------
\* Properties.

\* A reply only ever runs the callback or consumer of the request it answers
\* (websocket_client.cpp:60-77 against the keying of 147-167).
RepliesGoHome ==
  pc["ws"] = "invoke" =>
    /\ found.cb \in {NoReq, found.of}
    /\ found.consumer \in {NoReq, found.of}

\* No entry of either table outlives its reply: an entry belongs to a request
\* still being sent, still unanswered, or lost with its link. Erasing before
\* invoking (websocket_client.cpp:61-64) is what keeps this true.
Outstanding(r) ==
  \/ \E t \in Thread : cur[t] = r
  \/ \E m \in wire \cup inbox : m.req = r
  \/ carried[r] # NoId /\ calls[r] = 0 /\ found.of # r

EntriesAreOutstanding ==
  \A k \in Key : \A r \in {callbacks[k], consumers[k]} \ {NoReq} : Outstanding(r)

\* The two locks are never waited for in a circle: the UI order is lv_lock
\* then rpc_mutex_, so the websocket thread must not sit on rpc_mutex_ while
\* it asks for lv_lock (websocket_client.h:58-64).
NoLockInversion ==
  ~(pc["ws"] = "want_lv" /\ rpc_mutex_ = "ws")

\* Every reply that reaches the socket is handled, or goes down with its
\* link: no interleaving of taps and handlers starves the dispatcher.
ReplyInInbox(r) == \E m \in inbox : m.req = r

RepliesAreHandled ==
  \A r \in CbReq \cup ConsReq :
    ReplyInInbox(r) ~> (calls[r] = 1 \/ link = "dropped")

-----------------------------------------------------------------------------
\* The contract, implemented.

StatusOf(r) ==
  CASE carried[r] = NoId -> "new"
    [] \E m \in wire : m.req = r -> "sent"
    [] (\E m \in inbox : m.req = r) \/ found.of = r -> "answered"
    [] calls[r] > 0 -> "handled"
    [] OTHER -> "closed"

RC == INSTANCE RpcContract WITH
        Awaited <- CbReq \cup ConsReq,
        up <- link = "up",
        status <- [r \in Req |-> StatusOf(r)]

\* KWebSocketClient implements the contract of RpcContract: each callback at
\* most once, for its own reply, and nothing awaited is dropped on a live link.
ImplementsContract == RC!Contract

=============================================================================
