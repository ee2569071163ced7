---------------------------- MODULE WindowInput ----------------------------
(***************************************************************************)
(* The input of one server-owned window on its way to the application:     *)
(* the compositor's events are taken by the window's pump thread and key   *)
(* repeats made by its repeat thread (src/server/own_window.cpp), kept in  *)
(* a bounded queue (src/server/own_window_input.cpp), fetched by the       *)
(* client with PollWindowEvents (src/server/handlers_wsi.cpp) and posted   *)
(* to the application's window (src/client/wsi.cpp).                       *)
(*                                                                         *)
(* A queued event is a record [type, what, value, at]: for Motion, what is *)
(* the position; for Button and Key, the button or key and its state, 2    *)
(* being a repeat; `at', which the code has not, is where the pointer was  *)
(* and is there for the properties.  Focus and wheel events carry no state *)
(* that the two ends have to agree on and are left out.                    *)
(***************************************************************************)
EXTENDS Naturals, Sequences, FiniteSets, SequencesExt

CONSTANTS Keys, Buttons, Places,
          kMaxInputEvents,   \* 1024 in the code
          Batch,             \* 128 in the code: what one poll asks for
          Pollers            \* the client's threads that acquire and present

ASSUME QueueAssumption == kMaxInputEvents \in Nat \ {0} /\ Batch \in Nat \ {0}

VARIABLES
  focused, pointer_inside,   \* keyboard_focused_, pointer_inside_
  pressed_keys, pressed_pointer_buttons,
  repeating_key,             \* {} or the key
  input_events, input_overflowed,
  pump,     \* what is left of the event the pump thread is handling
  repeat    \* the repeat thread: [at, key]

\* The client, per surface: surface_windows, surface_mouse_*, surface_pressed_keys.
VARIABLES
  known, buttons, position, keys,
  polling   \* per thread: the reply it holds and has not yet posted

\* The compositor's pointer, and two things the properties have to know.
VARIABLES
  place,    \* where the pointer is
  late,     \* keys repeated after their release
  astray    \* an overflow has swallowed motions, and none was recorded since

server == <<focused, pointer_inside, pressed_keys, pressed_pointer_buttons>>
client == <<known, buttons, position, keys>>
vars == <<server, repeating_key, input_events, input_overflowed, pump, repeat, client,
          polling, place, late, astray>>

Event(type, what, value) ==
  [type |-> type, what |-> what, value |-> value,
   at |-> IF astray \/ type # "Button" THEN {} ELSE {place}]
Releases(type, set) == SetToSeq({Event(type, x, 0) : x \in set})

\* As if a motion replaced the last motion of the queue, whatever came after it.
RecordOverLastMotion(q, e) ==
  LET ms == {i \in DOMAIN q.events : q.events[i].type = "Motion"} IN
  IF e.type = "Motion" /\ ms # {}
  THEN [q EXCEPT !.events = [@ EXCEPT ![Max(ms)] = e]]
  ELSE IF Len(q.events) >= kMaxInputEvents
       THEN [events |-> <<e>>, overflowed |-> TRUE]
       ELSE [q EXCEPT !.events = Append(@, e)]

\* record_input, as a function of the queue and its flag.  A motion replaces the
\* motion before it; a full queue is dropped and the batch marked as unusable.
Record(q, e) ==
  IF e.type = "Motion" /\ q.events # <<>> /\ Last(q.events).type = "Motion"
  THEN [q EXCEPT !.events = Front(@) \o <<e>>]
  ELSE IF Len(q.events) >= kMaxInputEvents
       THEN [events |-> <<e>>, overflowed |-> TRUE]
       ELSE [q EXCEPT !.events = Append(@, e)]

RecordAll(es) ==
  LET q == FoldLeft(Record, [events |-> input_events, overflowed |-> input_overflowed], es) IN
  /\ input_events' = q.events
  /\ input_overflowed' = q.overflowed
  /\ astray' = (q.overflowed \/ (astray /\ \A i \in DOMAIN es : es[i].type # "Motion"))

Idle == [at |-> "idle", key |-> {}]
Init ==
  /\ focused = FALSE /\ pointer_inside = FALSE
  /\ pressed_keys = {} /\ pressed_pointer_buttons = {}
  /\ repeating_key = {} /\ input_events = <<>> /\ input_overflowed = FALSE
  /\ pump = Idle /\ repeat = [at |-> "wait", key |-> {}]
  /\ known = TRUE /\ buttons = {} /\ keys = {} /\ position \in Places /\ place = position
  /\ polling = [p \in Pollers |-> <<>>]
  /\ late = {} /\ astray = FALSE

------------------------------------------------------------------------------
(* The pump thread: one action per listener.  The keyboard's listeners     *)
(* record first and take repeat_mutex_ afterwards: `pump' is what is left. *)

PumpIdle == pump = Idle

\* keyboard_enter: the keys held when the focus arrives are pressed.
KeyboardEnter ==
  /\ PumpIdle /\ ~ focused
  /\ focused' = TRUE
  /\ \E held \in SUBSET Keys :
       /\ pressed_keys' = pressed_keys \cup held
       /\ RecordAll(SetToSeq({Event("Key", k, 1) : k \in held \ pressed_keys}))
       /\ late' = late \ held
  /\ UNCHANGED <<pointer_inside, pressed_pointer_buttons, repeating_key, pump, repeat, client,
                 polling, place>>

\* As if the keys were forgotten without being released.
KeyboardLeaveHolding ==
  /\ PumpIdle /\ focused
  /\ pressed_keys' = {} /\ focused' = FALSE
  /\ pump' = [at |-> "stop", key |-> {}]
  /\ UNCHANGED <<pointer_inside, pressed_pointer_buttons, repeating_key, input_events,
                 input_overflowed, repeat, client, polling, place, late, astray>>

\* keyboard_leave, and the keyboard's part of seat_capabilities and
\* registry_global_remove: every held key is released, the repeat stopped later.
KeyboardLeave ==
  /\ PumpIdle /\ focused
  /\ RecordAll(Releases("Key", pressed_keys))
  /\ pressed_keys' = {} /\ focused' = FALSE
  /\ pump' = [at |-> "stop", key |-> {}]
  /\ late' = late \ pressed_keys
  /\ UNCHANGED <<pointer_inside, pressed_pointer_buttons, repeating_key, repeat, client,
                 polling, place>>

\* keyboard_key; the keymap says which keys repeat.
KeyboardKey ==
  /\ PumpIdle /\ focused
  /\ \E k \in Keys :
       \/ /\ k \notin pressed_keys
          /\ pressed_keys' = pressed_keys \cup {k}
          /\ RecordAll(<<Event("Key", k, 1)>>)
          /\ \E repeats \in BOOLEAN : pump' = [at |-> IF repeats THEN "start" ELSE "idle",
                                               key |-> IF repeats THEN {k} ELSE {}]
          /\ late' = late \ {k}
       \/ /\ k \in pressed_keys
          /\ pressed_keys' = pressed_keys \ {k}
          /\ RecordAll(<<Event("Key", k, 0)>>)
          /\ pump' = [at |-> "end", key |-> {k}]
          /\ late' = late \ {k}
  /\ UNCHANGED <<focused, pointer_inside, pressed_pointer_buttons, repeating_key, repeat,
                 client, polling, place>>

\* The same listeners, under repeat_mutex_.
SetRepeating ==
  /\ ~ PumpIdle
  /\ repeating_key' = CASE pump.at = "stop"  -> {}
                        [] pump.at = "start" -> pump.key
                        [] pump.at = "end"   -> repeating_key \ pump.key
  /\ pump' = Idle
  /\ UNCHANGED <<server, input_events, input_overflowed, repeat, client, polling, place,
                 late, astray>>

\* pointer_enter.
PointerEnter ==
  /\ PumpIdle /\ ~ pointer_inside
  /\ pointer_inside' = TRUE
  /\ \E p \in Places : place' = p /\ RecordAll(<<Event("Motion", p, 0)>>)
  /\ UNCHANGED <<focused, pressed_keys, pressed_pointer_buttons, repeating_key, pump, repeat,
                 client, polling, late>>

\* pointer_leave, and the pointer's part of seat_capabilities and
\* registry_global_remove.
PointerLeave ==
  /\ PumpIdle /\ pointer_inside
  /\ RecordAll(Releases("Button", pressed_pointer_buttons))
  /\ pressed_pointer_buttons' = {} /\ pointer_inside' = FALSE
  /\ UNCHANGED <<focused, pressed_keys, repeating_key, pump, repeat, client, polling, place,
                 late>>

\* pointer_motion.
PointerMotion ==
  /\ PumpIdle /\ pointer_inside
  /\ \E p \in Places : place' = p /\ RecordAll(<<Event("Motion", p, 0)>>)
  /\ UNCHANGED <<server, repeating_key, pump, repeat, client, polling, late>>

\* pointer_button.
PointerButton ==
  /\ PumpIdle /\ pointer_inside
  /\ \E b \in Buttons : LET down == b \notin pressed_pointer_buttons IN
       /\ pressed_pointer_buttons' = IF down THEN pressed_pointer_buttons \cup {b}
                                     ELSE pressed_pointer_buttons \ {b}
       /\ RecordAll(<<Event("Button", b, IF down THEN 1 ELSE 0)>>)
  /\ UNCHANGED <<focused, pointer_inside, pressed_keys, repeating_key, pump, repeat, client,
                 polling, place, late>>

------------------------------------------------------------------------------
(* The repeat thread.  It holds repeat_mutex_ except while it waits and    *)
(* around record_input.                                                    *)

\* repeat_cv_.wait and, after the delay, wait_for: a key still repeating.
RepeatDue ==
  /\ repeat.at = "wait" /\ repeating_key # {}
  /\ repeat' = [at |-> "record", key |-> repeating_key]
  /\ UNCHANGED <<server, repeating_key, input_events, input_overflowed, pump, client, polling,
                 place, late, astray>>

\* record_input(Key, key, 2), with the mutex released.
RepeatRecord ==
  /\ repeat.at = "record"
  /\ RecordAll(SetToSeq({Event("Key", k, 2) : k \in repeat.key}))
  /\ late' = late \cup (repeat.key \ pressed_keys)
  /\ repeat' = [at |-> "wait", key |-> {}]
  /\ UNCHANGED <<server, repeating_key, pump, client, polling, place>>

------------------------------------------------------------------------------
(* The client: poll_window_events, after an acquire or a present. *)

\* The round trip: handle_PollWindowEvents and take_input_events.
Poll(p) ==
  /\ known /\ polling[p] = <<>>
  /\ LET n == IF Len(input_events) < Batch THEN Len(input_events) ELSE Batch IN
     IF input_overflowed
     THEN /\ polling' = [polling EXCEPT ![p] = <<[overflowed |-> TRUE, events |-> <<>>]>>]
          /\ input_events' = <<>> /\ input_overflowed' = FALSE
     ELSE /\ input_events # <<>>
          /\ polling' = [polling EXCEPT ![p] =
                           <<[overflowed |-> FALSE, events |-> SubSeq(input_events, 1, n)]>>]
          /\ input_events' = SubSeq(input_events, n + 1, Len(input_events))
          /\ UNCHANGED input_overflowed
  /\ UNCHANGED <<server, repeating_key, pump, repeat, client, place, late, astray>>

\* post_window_event, as a function of the client's state.
Post(c, e) ==
  CASE e.type = "Motion" -> [c EXCEPT !.position = e.what]
    [] e.type = "Button" -> [c EXCEPT !.buttons = IF e.value = 0 THEN @ \ {e.what} ELSE @ \cup {e.what}]
    [] e.type = "Key"    -> [c EXCEPT !.keys = IF e.value = 0 THEN @ \ {e.what} ELSE @ \cup {e.what}]

\* As if an overflow only lost the batch.
ApplyWithoutRelease(c, reply) == FoldLeft(Post, c, reply.events)

\* A reply: after an overflow everything held is released first.
Apply(c, reply) ==
  FoldLeft(Post, IF reply.overflowed THEN [c EXCEPT !.buttons = {}, !.keys = {}] ELSE c,
           reply.events)

Client == [buttons |-> buttons, position |-> position, keys |-> keys]

\* Under surface_input_mutex again; a surface destroyed meanwhile drops the reply.
Deliver(p) ==
  /\ polling[p] # <<>>
  /\ polling' = [polling EXCEPT ![p] = <<>>]
  /\ LET c == IF known THEN Apply(Client, Head(polling[p])) ELSE Client IN
     buttons' = c.buttons /\ position' = c.position /\ keys' = c.keys
  /\ UNCHANGED <<server, repeating_key, input_events, input_overflowed, pump, repeat, known,
                 place, late, astray>>

\* DestroySurfaceKHR: the client forgets the surface's input state.
DestroySurface ==
  /\ known /\ known' = FALSE
  /\ buttons' = {} /\ keys' = {} /\ UNCHANGED position
  /\ UNCHANGED <<server, repeating_key, input_events, input_overflowed, pump, repeat, polling,
                 place, late, astray>>

Pump == \/ KeyboardEnter \/ KeyboardLeave \/ KeyboardKey \/ SetRepeating
        \/ PointerEnter \/ PointerLeave \/ PointerMotion \/ PointerButton
Repeat == RepeatDue \/ RepeatRecord
Next == \/ Pump \/ Repeat
        \/ \E p \in Pollers : Poll(p) \/ Deliver(p)
        \/ DestroySurface

\* The pump thread finishes what it began and the client posts what it fetched; an
\* application that goes on presenting goes on polling.
Fairness == /\ WF_vars(SetRepeating)
            /\ \A p \in Pollers : WF_vars(Poll(p)) /\ WF_vars(Deliver(p))

Spec == Init /\ [][Next]_vars /\ Fairness
------------------------------------------------------------------------------
(* Properties. *)

\* The queue never holds more than kMaxInputEvents; the rest says what the
\* variables hold.
TypeOK ==
  /\ focused \in BOOLEAN /\ pointer_inside \in BOOLEAN /\ known \in BOOLEAN
  /\ pressed_keys \cup repeating_key \cup keys \cup late \subseteq Keys
  /\ pressed_pointer_buttons \cup buttons \subseteq Buttons
  /\ Len(input_events) <= kMaxInputEvents
  /\ pump.at \in {"idle", "stop", "start", "end"} /\ repeat.at \in {"wait", "record"}
  /\ position \in Places /\ place \in Places

\* What has left the server and what has not, in the order of the sequence numbers.
InFlight ==
  FlattenSeq(SetToSeq({polling[p] : p \in Pollers}))
    \o <<[overflowed |-> input_overflowed,
         events |-> IF input_overflowed THEN <<>> ELSE input_events]>>

\* The application's picture of the input once all of that has been posted.
Settled == FoldLeft(Apply, Client, InFlight)

\* own_window_input.cpp and client/wsi.cpp: whatever the queue had to drop, the
\* application will not be left believing that a key or a button is down which the
\* user has let go.  A key repeated by the repeat thread after its release is the
\* exception: nothing will ever release it again.
NothingStuck ==
  known => /\ Settled.keys \subseteq pressed_keys \cup late
           /\ Settled.buttons \subseteq pressed_pointer_buttons

\* Coalescing motions never moves one past a button: at each press and release the
\* application has the pointer where it was, unless an overflow took the motion away.
ClickWhereItHappened ==
  known =>
    LET all == FlattenSeq([i \in DOMAIN InFlight |-> InFlight[i].events])
        before(i) == FoldLeft(Post, Client, SubSeq(all, 1, i - 1)).position IN
    \A i \in DOMAIN all : all[i].type = "Button" => all[i].at \subseteq {before(i)}

\* And when all has been posted the two agree on where the pointer is.
PositionAgrees == known /\ ~ astray => Settled.position = place

\* A key the user has let go is let go in the application, if the application goes
\* on presenting and the key is not pressed again.
KeysComeUp ==
  \A k \in Keys : (k \notin pressed_keys)
                     ~> (k \notin keys \/ k \in pressed_keys \cup late \/ ~ known)

\* The same without the exception: does not hold (README, section 6).
NothingStuckAtAll == known => Settled.keys \subseteq pressed_keys

\* Within the bounded queue, clicks and the pointer are where the user put them.
PointerAgrees == TypeOK /\ ClickWhereItHappened /\ PositionAgrees
=============================================================================
