------------------------------ MODULE LiveIngress ------------------------------
(***************************************************************************)
(* Shared acquisition of one feed (application/live_ingress.py): channels, *)
(* their polling threads and their subscribers, over the journal of        *)
(* LiveRetention and a provider that finalizes minutes late, out of order  *)
(* and, for Corrected minutes, once more with another content.             *)
(*                                                                         *)
(* A channel is a FeedChannel object and its thread is named after it.     *)
(* LiveIngress._feeds maps the one feed key to `feed`, and a channel's     *)
(* subscribers are the clients of `feed`, for a channel without            *)
(* subscribers leaves the map at once.  The limits of 20 clients and 2     *)
(* feeds are above the bounds of the model.                                *)
(***************************************************************************)
EXTENDS LiveRetention

CONSTANTS Clients,      \* subscription identities
          Starts,       \* minutes a subscription may begin at
          MaxChannels,  \* bound of the model on channels of one process
          PollWindow    \* minutes of one poll (60)

ASSUME IngressAssumption ==
    /\ MaxChannels \in Nat \ {0}
    /\ PollWindow \in Nat \ {0, 1} /\ Starts \subseteq Minutes

Channels == 1..MaxChannels
NoChannel == 0
NoStart == -1

VARIABLES offered,       \* what the provider answers for each minute (external)
          feed,          \* the current channel, or NoChannel
          created,       \* channels created by this process
          subscription,  \* start of each client's subscription, or NoStart
          start, watermark, status, stopped,  \* fields of each channel
          source,        \* channels holding an open provider client
          lock,          \* poll_lock: the thread holding it, or NoChannel
          pc,            \* where each channel's thread is
          target,        \* the channel it is polling, found under the feed key
          page,          \* bars of that poll
          left,          \* bars of it still to be retained
          until,         \* end of that poll's window
          told           \* listeners still to be called back

channelVars == <<start, watermark, status, stopped>>
clientVars == <<feed, created, subscription>>
threadVars == <<pc, target, page, left, until, told>>
ingressVars == <<offered, clientVars, channelVars, source, lock, threadVars>>

Statuses == {"connecting", "ok", "gap", "failed", "conflict"}
ThreadStates == {"none", "loop", "lookup", "connect", "retain", "notify", "done"}

IngressTypeOK ==
    /\ offered \in [Minutes -> Contents \cup {Absent}]
    /\ feed \in Channels \cup {NoChannel}
    /\ created \in 0..MaxChannels
    /\ subscription \in [Clients -> Starts \cup {NoStart}]
    /\ start \in [Channels -> Minutes] /\ watermark \in [Channels -> 0..Horizon]
    /\ status \in [Channels -> Statuses]
    /\ stopped \subseteq Channels /\ source \subseteq Channels
    /\ lock \in [Channels -> Channels \cup {NoChannel}]
    /\ pc \in [Channels -> ThreadStates]
    /\ target \in [Channels -> Channels \cup {NoChannel}]
    /\ page \in [Channels -> SUBSET (Minutes \X Contents)]
    /\ \A t \in Channels : left[t] \subseteq page[t]
    /\ until \in [Channels -> 0..Horizon]
    /\ told \in [Channels -> SUBSET Clients]
    /\ \A t \in Channels : pc[t] \in {"connect", "retain"} =>
                             target[t] # NoChannel /\ lock[target[t]] = t

\* A process without channels; the journal is what survives it.
Idle ==
    /\ feed' = NoChannel /\ created' = 0
    /\ subscription' = [c \in Clients |-> NoStart]
    /\ start' = [t \in Channels |-> 0] /\ watermark' = [t \in Channels |-> 0]
    /\ status' = [t \in Channels |-> "connecting"]
    /\ stopped' = {} /\ source' = {}
    /\ lock' = [t \in Channels |-> NoChannel]
    /\ pc' = [t \in Channels |-> "none"]
    /\ target' = [t \in Channels |-> NoChannel]
    /\ page' = [t \in Channels |-> {}] /\ left' = [t \in Channels |-> {}]
    /\ until' = [t \in Channels |-> 0]
    /\ told' = [t \in Channels |-> {}]

IngressInit ==
    /\ offered = [m \in Minutes |-> Absent]
    /\ feed = NoChannel /\ created = 0
    /\ subscription = [c \in Clients |-> NoStart]
    /\ start = [t \in Channels |-> 0] /\ watermark = [t \in Channels |-> 0]
    /\ status = [t \in Channels |-> "connecting"]
    /\ stopped = {} /\ source = {}
    /\ lock = [t \in Channels |-> NoChannel]
    /\ pc = [t \in Channels |-> "none"]
    /\ target = [t \in Channels |-> NoChannel]
    /\ page = [t \in Channels |-> {}] /\ left = [t \in Channels |-> {}]
    /\ until = [t \in Channels |-> 0]
    /\ told = [t \in Channels |-> {}]

-------------------------------------------------------------------------------
(* Clients.  Each operation holds LiveIngress._lock.                       *)

Subscribed == {c \in Clients : subscription[c] # NoStart}

\* Repeating a subscription changes nothing; replacing it raises.
Joinable(c, s) == subscription[c] = NoStart \/ subscription[c] = s

\* Mistake: an earlier start joins a channel that never acquired it.
AdmitsAnyStart(s) == feed = NoChannel => created < MaxChannels

Admits(s) == IF feed = NoChannel THEN created < MaxChannels ELSE s >= start[feed]

\* The first subscriber creates the channel and starts its thread.
Subscribe(c, s) ==
    /\ s <= now /\ Joinable(c, s) /\ Admits(s)
    /\ subscription' = [subscription EXCEPT ![c] = s]
    /\ IF feed # NoChannel
       THEN UNCHANGED <<feed, created, channelVars, pc>>
       ELSE LET t == created + 1 IN
            /\ feed' = t /\ created' = t
            /\ start' = [start EXCEPT ![t] = s]
            /\ watermark' = [watermark EXCEPT ![t] = s]
            /\ pc' = [pc EXCEPT ![t] = "loop"]
            /\ UNCHANGED <<status, stopped>>
    /\ UNCHANGED <<offered, source, lock, target, page, left, until, told>>

\* The last disconnect stops the thread, which closes its own source later.
Unsubscribe(c) ==
    /\ subscription' = [subscription EXCEPT ![c] = NoStart]
    /\ IF Subscribed = {c}
       THEN feed' = NoChannel /\ stopped' = stopped \cup {feed}
       ELSE UNCHANGED <<feed, stopped>>
    /\ UNCHANGED <<offered, created, start, watermark, status, source, lock, threadVars>>

-------------------------------------------------------------------------------
(* The polling thread t.                                                   *)

Goto(t, label) == pc' = [pc EXCEPT ![t] = label]

\* _run: until its own channel is stopped.
Loop(t) ==
    /\ pc[t] = "loop" /\ t \notin stopped
    /\ Goto(t, "lookup")
    /\ UNCHANGED <<offered, clientVars, channelVars, source, lock, target, page, left, until, told>>

\* Then it closes its channel's source; nobody reads the channel any more.
Exit(t) ==
    /\ pc[t] = "loop" /\ t \in stopped
    /\ Goto(t, "done")
    /\ source' = source \ {t}
    /\ start' = [start EXCEPT ![t] = 0] /\ watermark' = [watermark EXCEPT ![t] = 0]
    /\ status' = [status EXCEPT ![t] = "connecting"]
    /\ UNCHANGED <<offered, clientVars, stopped, lock, target, page, left, until, told>>

\* Mistake: a failed feed is frozen like a conflicting one.
EnterUnlessFailed(t) ==
    /\ pc[t] = "lookup"
    /\ IF feed = NoChannel THEN Goto(t, "loop") /\ UNCHANGED <<target, lock>>
       ELSE /\ lock[feed] = NoChannel
            /\ IF status[feed] \in {"conflict", "failed"} THEN Goto(t, "loop") /\ UNCHANGED <<target, lock>>
               ELSE /\ Goto(t, "connect")
                    /\ target' = [target EXCEPT ![t] = feed]
                    /\ lock' = [lock EXCEPT ![feed] = t]
    /\ UNCHANGED <<offered, clientVars, channelVars, source, page, left, until, told>>

\* poll(key) takes whatever channel has the key now, and waits for its lock.
\* A stopped or conflicting channel is not polled.
Enter(t) ==
    /\ pc[t] = "lookup"
    /\ IF feed = NoChannel THEN Goto(t, "loop") /\ UNCHANGED <<target, lock>>
       ELSE /\ lock[feed] = NoChannel
            /\ IF status[feed] = "conflict" THEN Goto(t, "loop") /\ UNCHANGED <<target, lock>>
               ELSE /\ Goto(t, "connect")
                    /\ target' = [target EXCEPT ![t] = feed]
                    /\ lock' = [lock EXCEPT ![feed] = t]
    /\ UNCHANGED <<offered, clientVars, channelVars, source, page, left, until, told>>

Latest(a, b) == IF a >= b THEN a ELSE b
Earliest(a, b) == IF a <= b THEN a ELSE b

\* The window repeats the last confirmed minute.
RequestStart(t) == Latest(start[target[t]], watermark[target[t]] - 1)
RequestEnd(t) == Earliest(now, RequestStart(t) + PollWindow)

Fetch(t) ==
    /\ pc[t] = "connect"
    /\ source' = source \cup {target[t]}
    /\ LET bars == {<<m, offered[m]>> :
                       m \in {n \in RequestStart(t)..(RequestEnd(t) - 1) : offered[n] # Absent}} IN
       /\ page' = [page EXCEPT ![t] = bars]
       /\ left' = [left EXCEPT ![t] = bars]
    /\ until' = [until EXCEPT ![t] = RequestEnd(t)]
    /\ Goto(t, "retain")
    /\ UNCHANGED <<offered, clientVars, channelVars, lock, target, told>>

\* Bars are retained in the order of their minutes.
NextBar(t, bar) == bar \in left[t] /\ \A other \in left[t] : bar[1] <= other[1]

\* Whatever ended the poll, its page is dropped and the listeners come next.
Finish(t, listeners) ==
    /\ Goto(t, IF listeners = {} THEN "loop" ELSE "notify")
    /\ lock' = [lock EXCEPT ![target[t]] = NoChannel]
    /\ page' = [page EXCEPT ![t] = {}] /\ left' = [left EXCEPT ![t] = {}]
    /\ until' = [until EXCEPT ![t] = 0]
    /\ target' = [target EXCEPT ![t] = NoChannel]
    /\ told' = [told EXCEPT ![t] = listeners]

\* One bar, one transaction, unless the channel was stopped meanwhile.
Retain(t) ==
    /\ pc[t] = "retain" /\ left[t] # {} /\ target[t] \notin stopped
    /\ \E bar \in left[t] : /\ NextBar(t, bar)
                            /\ RetainMinute(bar[1], bar[2])
                            /\ left' = [left EXCEPT ![t] = @ \ {bar}]
    /\ UNCHANGED <<offered, clientVars, channelVars, source, lock, pc, target, page, until, told>>

RetainStopped(t) ==
    /\ pc[t] = "retain" /\ left[t] # {} /\ target[t] \in stopped
    /\ Finish(t, {})
    /\ UNCHANGED <<journalVars, offered, clientVars, channelVars, source>>

RetainConflict(t, listeners) ==
    /\ pc[t] = "retain" /\ left[t] # {} /\ target[t] \notin stopped
    /\ \E bar \in left[t] : NextBar(t, bar) /\ Conflicts(bar[1], bar[2])
    /\ status' = [status EXCEPT ![target[t]] = "conflict"]
    /\ Finish(t, listeners)
    /\ UNCHANGED <<journalVars, offered, clientVars, start, watermark, stopped, source>>

\* Open minutes of the window, from the watermark on, that the page lacks.
Missing(t) ==
    {m \in Open : /\ watermark[target[t]] <= m /\ m < until[t]
                  /\ \A bar \in page[t] : bar[1] # m}

\* Mistake: the watermark is the end of what was asked for.
ConfirmedAll(t, m) == m = Latest(watermark[target[t]], until[t])

\* The new watermark: the first missing minute, or the end of the window.
Confirmed(t, m) ==
    \/ m \in Missing(t) /\ \A n \in Missing(t) : m <= n
    \/ Missing(t) = {} /\ m = Latest(watermark[target[t]], until[t])

\* All prices are committed before the watermark is published.
Publish(t, listeners) ==
    /\ pc[t] = "retain" /\ left[t] = {}
    /\ \E m \in 0..Horizon :
          /\ Confirmed(t, m)
          /\ watermark' = [watermark EXCEPT ![target[t]] = m]
          /\ status' = [status EXCEPT ![target[t]] = IF m < until[t] THEN "gap" ELSE "ok"]
    /\ Finish(t, listeners)
    /\ UNCHANGED <<offered, clientVars, start, stopped, source>>

\* The provider, its configuration or the database fails; the source is dropped.
PollFails(t, listeners) ==
    /\ pc[t] \in {"connect", "retain"}
    /\ status' = [status EXCEPT ![target[t]] = "failed"]
    /\ source' = source \ {target[t]}
    /\ Finish(t, listeners)
    /\ UNCHANGED <<journalVars, offered, clientVars, start, watermark, stopped>>

-------------------------------------------------------------------------------
(* The provider (external).                                                *)

Offer(m) ==
    /\ m \in Open /\ m < now /\ offered[m] = Absent
    /\ offered' = [offered EXCEPT ![m] = "first"]

Correct(m) ==
    /\ m \in Corrected /\ offered[m] = "first"
    /\ offered' = [offered EXCEPT ![m] = "corrected"]

===============================================================================
