------------------------------- MODULE Topic -------------------------------
(***************************************************************************)
(* Topics with callbacks (robot/orb/uORB.hpp, SubscriptionCallback.hpp),   *)
(* as the subscriptions of one module see them.  Message and generation    *)
(* are under the data lock, the callback list under a lock of its own that *)
(* a publisher holds while it notifies; the data lock is never kept over a *)
(* step, so it needs no variable.                                          *)
(*                                                                         *)
(* A subscription's generation is abstracted to whether it differs from    *)
(* that of the topic (unread).                                             *)
(***************************************************************************)

CONSTANTS Topics

VARIABLES
  advertised,   \* topics published at least once
  unread,       \* <<t, o>>: object o has not read the last message of t
  callbacks,    \* <<t, o>>: o is in the callback list of t
  publisher,    \* "idle", "stored" or "notify" (holds _callbackMutex), per topic
  todo          \* the callbacks of t a publisher has yet to call

topicVars == <<advertised, unread, callbacks, publisher, todo>>

TopicInit ==
  /\ advertised \in SUBSET Topics /\ unread = {} /\ callbacks = {}
  /\ publisher = [t \in Topics |-> "idle"] /\ todo = [t \in Topics |-> {}]

CallbackMutexFree(t) == publisher[t] # "notify"

PublisherAt(t, l) == publisher' = [publisher EXCEPT ![t] = l]

\* The subscriptions of a new object start at generation 0.
Subscribe(o) == unread' = unread \cup (advertised \X {o})

\* publish() up to the release of the data lock; objects: those with a
\* subscription.
Store(t, objects) ==
  /\ publisher[t] = "idle" /\ PublisherAt(t, "stored")
  /\ advertised' = advertised \cup {t}
  /\ unread' = unread \cup ({t} \X objects)
  /\ UNCHANGED <<callbacks, todo>>

\* The loop over the callback list begins.
NotifyBegin(t) ==
  /\ publisher[t] = "stored" /\ PublisherAt(t, "notify")
  /\ todo' = [todo EXCEPT ![t] = {p[2] : p \in {q \in callbacks : q[1] = t}}]
  /\ UNCHANGED <<advertised, unread, callbacks>>

\* One callback; what onTopicUpdate does is up to the module.
Notify(t, o) ==
  /\ publisher[t] = "notify" /\ o \in todo[t]
  /\ todo' = [todo EXCEPT ![t] = @ \ {o}]
  /\ UNCHANGED <<advertised, unread, callbacks, publisher>>

NotifyEnd(t) ==
  /\ publisher[t] = "notify" /\ todo[t] = {}
  /\ PublisherAt(t, "idle")
  /\ UNCHANGED <<advertised, unread, callbacks, todo>>

Register(t, o) ==
  /\ CallbackMutexFree(t)
  /\ callbacks' = callbacks \cup {<<t, o>>}
  /\ UNCHANGED <<advertised, unread, publisher, todo>>

Unregister_NoLock(t, o) ==
  /\ callbacks' = callbacks \ {<<t, o>>}
  /\ UNCHANGED <<advertised, unread, publisher, todo>>
Unregister(t, o) ==
  /\ CallbackMutexFree(t)
  /\ callbacks' = callbacks \ {<<t, o>>}
  /\ UNCHANGED <<advertised, unread, publisher, todo>>

\* Subscription::update.
Update(t, o) ==
  /\ unread' = unread \ {<<t, o>>}
  /\ UNCHANGED <<advertised, callbacks, publisher, todo>>
=============================================================================
