---------------------------- MODULE WaylandProbe ----------------------------
(***************************************************************************)
(* scripts/waydroid/wltouch.py (modes "xdg" and "wl") and wlinfo.py (mode  *)
(* "info"): clients that speak the Wayland wire protocol with no library,  *)
(* and a compositor that holds them to it.  Both directions are streams.   *)
(***************************************************************************)
EXTENDS Integers, SequencesExt, FiniteSets

CONSTANTS
  Modes,         \* of {"xdg", "wl", "info"}
  MaxConfigures, \* bounds on what the compositor sends by itself
  MaxPings,
  MaxTouches

VARIABLES
  mode,
  step,      \* position in the steps of the mode
  nextid,    \* _next[0]
  await,     \* the callback a checkpoint waits for, or 0
  queue,     \* events that came while it waited
  configured,\* the main loop has attached the buffer
  handled,   \* numbers of the events the main loop has handled
  over,      \* "no", "error" (the compositor's) or "done"
  out, inn,  \* requests under way, events under way
  objects,   \* in the compositor: what each id is
  sent,      \* kinds of the events it has sent by itself
  acked,     \* a configure has been acknowledged
  mapped     \* the surface has a buffer

vars == <<mode, step, nextid, await, queue, configured, handled, over, out, inn,
          objects, sent, acked, mapped>>

\* A checkpoint is a sync whose callback is waited for.
Bound(bind) == <<bind, "checkpoint">>
Common(shell) ==
  <<"get_registry", "checkpoint">> \o Bound("bind_wl_compositor") \o Bound("bind_wl_shm")
  \o Bound("bind_wl_seat") \o Bound(shell)
  \o <<"get_touch", "checkpoint", "create_surface", "checkpoint", "create_pool",
       "checkpoint", "create_buffer", "checkpoint">>

\* Faulty variant: the buffer goes with the first commit.
XdgStepsEager ==
  Common("bind_xdg_wm_base")
  \o <<"get_xdg_surface", "checkpoint", "get_toplevel", "attach", "commit", "checkpoint", "loop">>

XdgSteps ==
  Common("bind_xdg_wm_base")
  \o <<"get_xdg_surface", "checkpoint", "get_toplevel", "commit", "checkpoint", "loop">>

WlSteps ==
  Common("bind_wl_shell")
  \o <<"get_shell_surface", "checkpoint", "attach", "commit", "checkpoint", "loop">>

\* wlinfo.py, with the ids it gives to what it makes.
InfoSteps == <<"get_registry", "checkpoint", "bind_wl_seat", "checkpoint", "loop">>
InfoIds == <<2, 3, 4, 4, 0>>

Steps == CASE mode = "xdg" -> XdgSteps [] mode = "wl" -> WlSteps [] mode = "info" -> InfoSteps

\* Requests that make an object; the registry has id 2 without next_id().
Makes(op) == op \notin {"attach", "commit", "ack", "pong"}

Init ==
  /\ mode \in Modes
  /\ step = 1
  /\ nextid = 1
  /\ await = 0 /\ queue = <<>>
  /\ configured = FALSE /\ handled = <<>> /\ over = "no"
  /\ out = <<>> /\ inn = <<>>
  /\ objects = <<"wl_display">>
  /\ sent = <<>>
  /\ acked = FALSE /\ mapped = FALSE

Op == Steps[step]
Running == over = "no" /\ await = 0
Looping == Running /\ Op = "loop"

NewId(op) == IF mode = "info" THEN InfoIds[step] ELSE IF Makes(op) THEN nextid + 1 ELSE 0

Request ==
  /\ Running /\ Op # "loop"
  /\ out' = Append(out, [op |-> Op, new |-> NewId(Op), serial |-> 0])
  /\ nextid' = IF Makes(Op) THEN nextid + 1 ELSE nextid
  /\ await' = IF Op = "checkpoint" THEN NewId(Op) ELSE 0
  /\ step' = step + 1
  /\ UNCHANGED <<mode, queue, configured, handled, over, inn, objects, sent, acked, mapped>>

Keep(e) == queue' = Append(queue, e)

\* wlinfo.py's second wait does not look at errors, and ends when the compositor
\* closes the connection behind one.
AfterError == IF mode = "info" /\ Op = "loop" THEN "done" ELSE "error"

\* checkpoint(): the callback, an error, or something for later.
Checkpoint ==
  /\ over = "no" /\ await # 0 /\ inn # <<>>
  /\ inn' = Tail(inn)
  /\ LET e == Head(inn) IN
       \/ e.kind = "done" /\ e.n = await /\ await' = 0 /\ UNCHANGED <<queue, over>>
       \/ e.kind = "error" /\ over' = AfterError /\ UNCHANGED <<await, queue>>
       \/ /\ e.kind # "error" /\ ~(e.kind = "done" /\ e.n = await)
          /\ Keep(e) /\ UNCHANGED <<await, over>>
  /\ UNCHANGED <<mode, step, nextid, configured, handled, out, objects, sent, acked, mapped>>

Reply(op, n) == [op |-> op, new |-> 0, serial |-> n]

\* One event of the main loop: pings are answered, every configure is
\* acknowledged, and the first one is followed by the buffer.
Handle(e) ==
  /\ handled' = IF e.kind = "error" THEN handled ELSE Append(handled, e.n)
  /\ over' = IF e.kind = "error" THEN "error" ELSE over
  /\ configured' = (configured \/ e.kind = "configure")
  /\ out' = out \o
       (CASE e.kind = "ping" -> <<Reply("pong", e.n)>>
          [] e.kind = "configure" /\ ~configured ->
               <<Reply("ack", e.n), Reply("attach", 0), Reply("commit", 0)>>
          [] e.kind = "configure" /\ configured -> <<Reply("ack", e.n)>>
          [] OTHER -> <<>>)

\* Faulty variant: the socket is read before the queue.
LoopFreshFirst ==
  /\ Looping
  /\ IF inn # <<>> THEN Handle(Head(inn)) /\ inn' = Tail(inn) /\ UNCHANGED queue
     ELSE queue # <<>> /\ Handle(Head(queue)) /\ queue' = Tail(queue) /\ UNCHANGED inn
  /\ UNCHANGED <<mode, step, nextid, await, objects, sent, acked, mapped>>

Loop ==
  /\ Looping
  /\ IF queue # <<>> THEN Handle(Head(queue)) /\ queue' = Tail(queue) /\ UNCHANGED inn
     ELSE inn # <<>> /\ Handle(Head(inn)) /\ inn' = Tail(inn) /\ UNCHANGED queue
  /\ UNCHANGED <<mode, step, nextid, await, objects, sent, acked, mapped>>

\* The seconds are over, or a checkpoint had no answer for four.
TimeUp ==
  /\ over = "no" /\ (Looping \/ await # 0)
  /\ over' = "done"
  /\ UNCHANGED <<mode, step, nextid, await, queue, configured, handled, out, inn, objects, sent, acked, mapped>>

\* The compositor.  A new id must be the next one or of an object that is
\* gone, a buffer needs an acknowledged configure, and an acknowledgement a
\* configure.
Illegal(r) ==
  \/ Makes(r.op) /\ r.new # Len(objects) + 1
  \/ r.op = "attach" /\ mode = "xdg" /\ ~acked
  \/ r.op = "ack" /\ ~(r.serial \in DOMAIN sent /\ sent[r.serial] = "configure")

Failed == \E i \in DOMAIN inn : inn[i].kind = "error"

Serve ==
  /\ out # <<>> /\ ~Failed
  /\ LET r == Head(out) IN
       /\ out' = Tail(out)
       /\ objects' = IF Makes(r.op) /\ ~Illegal(r) THEN Append(objects, r.op) ELSE objects
       /\ inn' = CASE Illegal(r) -> Append(inn, [kind |-> "error", n |-> 0])
                   [] r.op = "checkpoint" /\ ~Illegal(r) -> Append(inn, [kind |-> "done", n |-> r.new])
                   [] OTHER -> inn
       /\ acked' = (acked \/ (r.op = "ack" /\ ~Illegal(r)))
       /\ mapped' = (mapped \/ (r.op = "attach" /\ ~Illegal(r)))
  /\ UNCHANGED <<mode, step, nextid, await, queue, configured, handled, over, sent>>

Sends(kind, max) ==
  /\ ~Failed
  /\ Cardinality({i \in DOMAIN sent : sent[i] = kind}) < max
  /\ sent' = Append(sent, kind)
  /\ inn' = Append(inn, [kind |-> kind, n |-> Len(sent')])
  /\ UNCHANGED <<mode, step, nextid, await, queue, configured, handled, over, out, objects, acked, mapped>>

Configure == Contains(objects, "get_toplevel") /\ Sends("configure", MaxConfigures)

Ping ==
  /\ Contains(objects, "get_toplevel") \/ Contains(objects, "get_shell_surface")
  /\ Sends("ping", MaxPings)

Touch == mapped /\ Sends("touch", MaxTouches)

Next ==
  \/ Request
  \/ Checkpoint
  \/ Loop
  \/ TimeUp
  \/ Serve
  \/ Configure
  \/ Ping
  \/ Touch

Spec == Init /\ [][Next]_vars

\* The client runs on, and the compositor serves requests and configures a
\* toplevel it was asked for.
FairSpec ==
  Spec /\ WF_vars(Request) /\ WF_vars(Checkpoint) /\ WF_vars(Loop)
       /\ WF_vars(Serve) /\ WF_vars(Configure)

-----------------------------------------------------------------------------
TypeOK ==
  /\ mode \in Modes /\ step \in DOMAIN Steps
  /\ await \in 0 .. nextid
  /\ await # 0 => Steps[step - 1] = "checkpoint"
  /\ over \in {"no", "error", "done"}
  /\ ToSet(sent) \subseteq {"configure", "ping", "touch"}
  /\ configured => handled # <<>>
  /\ acked => Contains(objects, "get_toplevel")

\* The compositor never has to end the connection: every id is new and the
\* next one, and no buffer comes before its configure.
NoProtocolError == ~Failed /\ over # "error"

\* What the compositor sends by itself, and how many of it have left the socket.
IsOwn(e) == e.kind \notin {"done", "error"}
Taken == Len(handled) + Len(queue)

\* Nothing the compositor sends is dropped or overtaken: handled, queued and
\* still in the socket, in this order, are all its events as they were sent.
NothingIsLost ==
  /\ Taken <= Len(sent)
  /\ \A i \in DOMAIN handled : handled[i] = i
  /\ \A i \in DOMAIN queue : IsOwn(queue[i]) /\ queue[i].n = Len(handled) + i
  /\ \A n \in Taken + 1 .. Len(sent) : \E i \in DOMAIN inn : IsOwn(inn[i]) /\ inn[i].n = n
  /\ \A i, j \in DOMAIN inn : i < j /\ IsOwn(inn[i]) /\ IsOwn(inn[j]) => inn[i].n < inn[j].n
  /\ \A i \in DOMAIN inn : IsOwn(inn[i]) => inn[i].n \in Taken + 1 .. Len(sent)
  /\ \A i \in DOMAIN queue : queue[i].kind = sent[queue[i].n]
  /\ \A i \in DOMAIN inn : IsOwn(inn[i]) => inn[i].kind = sent[inn[i].n]

\* The surface gets its buffer although its configure comes while the client
\* waits for a callback.
EventuallyMaps == <>(mapped \/ over # "no")

-----------------------------------------------------------------------------
(* What is behind them.                                                    *)

Ops ==
  {"get_registry", "checkpoint", "bind_wl_compositor", "bind_wl_shm", "bind_wl_seat",
   "bind_xdg_wm_base", "bind_wl_shell", "get_touch", "create_surface", "create_pool",
   "create_buffer", "get_xdg_surface", "get_toplevel", "get_shell_surface", "commit",
   "attach", "loop", "ack", "pong"}
Requests == [op : Ops, new : Nat, serial : Nat]
Events == [kind : {"configure", "ping", "touch", "done", "error"}, n : Nat]
StreamsOK ==
  /\ mode \in Modes /\ step \in DOMAIN Steps /\ nextid \in Nat /\ await \in Nat
  /\ queue \in Seq(Events) /\ inn \in Seq(Events)
  /\ out \in Seq(Requests)
  /\ objects \in Seq(Ops \union {"wl_display"}) /\ handled \in Seq(Nat)
  /\ sent \in Seq({"configure", "ping", "touch"})
  /\ configured \in BOOLEAN /\ acked \in BOOLEAN /\ mapped \in BOOLEAN

\* One sync at a time, and nobody else gets its callback.
OneSync ==
  /\ \A i \in DOMAIN out : out[i].op = "checkpoint" => await # 0 /\ out[i].new = await
  /\ \A i \in DOMAIN inn : inn[i].kind = "done" => await # 0 /\ inn[i].n = await
  /\ \A i, j \in DOMAIN out : out[i].op = "checkpoint" /\ out[j].op = "checkpoint" => i = j
  /\ \A i, j \in DOMAIN inn : inn[i].kind = "done" /\ inn[j].kind = "done" => i = j
  /\ \A i \in DOMAIN out, j \in DOMAIN inn : ~(out[i].op = "checkpoint" /\ inn[j].kind = "done")

\* The ids under way are the next ones, in order.
IdsFollow ==
  /\ nextid >= Len(objects)
  /\ \A n \in Len(objects) + 1 .. nextid : \E i \in DOMAIN out : Makes(out[i].op) /\ out[i].new = n
  /\ \A i, j \in DOMAIN out : i < j /\ Makes(out[i].op) /\ Makes(out[j].op) => out[i].new < out[j].new
  /\ \A i \in DOMAIN out : Makes(out[i].op) => out[i].new \in Len(objects) + 1 .. nextid

\* An acknowledgement is of a configure, and goes before the buffer.
AcksGoFirst ==
  /\ \A i \in DOMAIN out : out[i].op = "ack" => out[i].serial \in DOMAIN sent /\ sent[out[i].serial] = "configure"
  /\ mode = "xdg" => \A i \in DOMAIN out : out[i].op = "attach" =>
       acked \/ \E j \in 1 .. i - 1 : out[j].op = "ack"

IInv ==
  /\ StreamsOK /\ OneSync /\ NothingIsLost
  /\ mode # "info" => IdsFollow /\ AcksGoFirst /\ NoProtocolError
=============================================================================
