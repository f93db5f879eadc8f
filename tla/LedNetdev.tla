----------------------------- MODULE LedNetdev ------------------------------
(***************************************************************************)
(* The netdev LED trigger, ledtrig-netdev.c: its sysfs attributes, its     *)
(* netdevice notifier and its timer, over the state that one rwlock is to  *)
(* protect. On the one CPU of these routers that lock is empty and the     *)
(* stores and the notifier, which never sleep, exclude each other; the     *)
(* timer is a softirq and gets in between any two of their assignments.    *)
(*                                                                         *)
(* The network stack is external: a device is registered and unregistered, *)
(* goes up and down and gains and loses its carrier; after unregister it   *)
(* stays until the last reference is put.                                  *)
(***************************************************************************)
EXTENDS Naturals, Sequences

CONSTANTS
  Devs,    \* names of network devices
  NoDev,   \* no device; as a name, the empty one
  MaxRefs  \* references a device may be given (bound)

ASSUME LedAssumption == NoDev \notin Devs /\ MaxRefs \in Nat \ {0}

Modes == SUBSET {"link", "activity"}    \* MODE_LINK; MODE_TX and MODE_RX

VARIABLES
  trigger,      \* "off", "on", or in between: "stopping"
  device_name, net_dev, mode, link_up,   \* struct led_netdev_data
  pending,      \* the timer is queued
  news,         \* packets were counted since last_activity
  lit,          \* the LED
  todo,         \* what the writer under way still has to do
  device,       \* per name: "none", "there" or, unregistered, "going"
  up, carrier,  \* per name: the interface is up, its link is
  refs          \* per name: references the trigger holds

dataVars   == <<device_name, net_dev, mode, link_up>>
deviceVars == <<device, up, carrier, refs>>
ledVars == <<trigger, dataVars, pending, news, lit, todo, deviceVars>>

LedInit ==
  /\ trigger = "off"
  /\ device_name = NoDev /\ net_dev = NoDev /\ mode = {} /\ link_up = FALSE
  /\ pending = FALSE /\ news = FALSE /\ lit = FALSE /\ todo = <<>>
  /\ device = [n \in Devs |-> "none"]
  /\ up = [n \in Devs |-> FALSE] /\ carrier = [n \in Devs |-> FALSE]
  /\ refs = [n \in Devs |-> 0]

(* Nobody is inside a store or the notifier.                               *)
Idle == todo = <<>>

Baseline == <<"led", "timer">>          \* set_baseline_state

Put(r, n)  == IF n \in Devs THEN [r EXCEPT ![n] = @ - 1] ELSE r
Hold(r, n) == [r EXCEPT ![n] = @ + 1]

-----------------------------------------------------------------------------
(* netdev_trig_activate: everything zero, the notifier registered last.    *)
Activate ==
  /\ trigger = "off"
  /\ trigger' = "on"
  /\ device_name' = NoDev /\ net_dev' = NoDev
  /\ mode' = {} /\ link_up' = FALSE /\ news' = FALSE
  /\ UNCHANGED <<pending, lit, todo, deviceVars>>

(* netdev_trig_deactivate up to its unlock: no notifications and no stores *)
(* from here on, the reference is put.                                     *)
Deactivate ==
  /\ trigger = "on" /\ Idle
  /\ trigger' = "stopping"
  /\ refs' = Put(refs, net_dev)
  /\ net_dev' = NoDev
  /\ UNCHANGED <<device_name, mode, link_up, pending, news, lit, todo,
                 device, up, carrier>>

\* Mutant of Deactivated: the timer is left as it is.
DeactivatedNoDel ==
  /\ trigger = "stopping"
  /\ trigger' = "off"
  /\ UNCHANGED <<dataVars, pending, news, lit, todo, deviceVars>>

(* del_timer_sync, kfree.                                                  *)
Deactivated ==
  /\ trigger = "stopping"
  /\ trigger' = "off"
  /\ pending' = FALSE
  /\ UNCHANGED <<dataVars, news, lit, todo, deviceVars>>

-----------------------------------------------------------------------------
(* led_device_name_store: the name is taken, and the device of that name   *)
(* with a reference. A device it had is not put. An empty name changes     *)
(* nothing else.                                                           *)
StoreName(n) ==
  LET found == n # NoDev /\ device[n] = "there" IN
  /\ trigger = "on" /\ Idle
  /\ device_name' = n
  /\ IF n = NoDev
     THEN UNCHANGED <<net_dev, refs, todo>>
     ELSE /\ net_dev' = IF found THEN n ELSE NoDev
          /\ found => refs[n] < MaxRefs
          /\ refs' = IF found THEN Hold(refs, n) ELSE refs
          /\ todo' = IF found THEN <<"flags">> \o Baseline ELSE Baseline
  /\ UNCHANGED <<trigger, mode, link_up, pending, news, lit, device, up,
                 carrier>>

(* led_mode_store; led_interval_store when the mode stays what it is.      *)
StoreMode(m) ==
  /\ trigger = "on" /\ Idle
  /\ mode' = m
  /\ todo' = Baseline
  /\ UNCHANGED <<trigger, device_name, net_dev, link_up, pending, news, lit,
                 deviceVars>>

(* link_up from dev_get_flags(net_dev) & IFF_LOWER_UP.                     *)
ReadFlags ==
  /\ todo # <<>> /\ Head(todo) = "flags"
  /\ link_up' = (up[net_dev] /\ carrier[net_dev])
  /\ todo' = Tail(todo)
  /\ UNCHANGED <<trigger, device_name, net_dev, mode, pending, news, lit,
                 deviceVars>>

(* The two halves of set_baseline_state: the LED, then the timer.          *)
SetLed ==
  /\ todo # <<>> /\ Head(todo) = "led"
  /\ lit' = ("link" \in mode /\ link_up)
  /\ todo' = Tail(todo)
  /\ UNCHANGED <<trigger, dataVars, pending, news, deviceVars>>

\* Mutant of SetTimer: a timer already queued is taken off, not moved.
SetTimerToggles ==
  /\ todo # <<>> /\ Head(todo) = "timer"
  /\ pending' = ("activity" \in mode /\ link_up /\ ~pending)
  /\ todo' = Tail(todo)
  /\ UNCHANGED <<trigger, dataVars, news, lit, deviceVars>>

SetTimer ==
  /\ todo # <<>> /\ Head(todo) = "timer"
  /\ pending' = ("activity" \in mode /\ link_up)
  /\ todo' = Tail(todo)
  /\ UNCHANGED <<trigger, dataVars, news, lit, deviceVars>>

-----------------------------------------------------------------------------
(* netdev_trig_notify for a device of the trigger's name.                  *)
Notified(n) == trigger = "on" /\ device_name = n

(* UP, DOWN and CHANGE.                                                    *)
LinkEvent(n, linked) ==
  /\ link_up' = IF Notified(n) THEN linked ELSE link_up
  /\ todo' = IF Notified(n) THEN Baseline ELSE todo
  /\ UNCHANGED <<trigger, device_name, net_dev, mode, pending, news, lit,
                 device, refs>>

(* A device appears; NETDEV_REGISTER gives the trigger a reference to it   *)
(* and puts the one to the device it had.                                  *)
Register(n) ==
  /\ Idle /\ device[n] = "none"
  /\ device' = [device EXCEPT ![n] = "there"]
  /\ IF Notified(n)
     THEN /\ refs' = Hold(Put(refs, net_dev), n)
          /\ net_dev' = n /\ link_up' = FALSE
     ELSE UNCHANGED <<refs, net_dev, link_up>>
  /\ up' = [up EXCEPT ![n] = FALSE]
  /\ UNCHANGED <<trigger, device_name, mode, pending, news, lit, todo,
                 carrier>>

\* Mutant of Unregister: the reference is put, the pointer kept.
UnregisterKeeps(n) ==
  /\ Idle /\ device[n] = "there" /\ ~up[n]
  /\ device' = [device EXCEPT ![n] = "going"]
  /\ refs' = IF Notified(n) THEN Put(refs, net_dev) ELSE refs
  /\ UNCHANGED <<trigger, dataVars, pending, news, lit, todo, up, carrier>>

(* unregister_netdevice of an interface that has been taken down:          *)
(* NETDEV_UNREGISTER puts the device; without one it is treated as a       *)
(* change of the link.                                                     *)
Unregister(n) ==
  /\ Idle /\ device[n] = "there" /\ ~up[n]
  /\ device' = [device EXCEPT ![n] = "going"]
  /\ IF Notified(n) /\ net_dev # NoDev
     THEN refs' = Put(refs, net_dev) /\ net_dev' = NoDev
     ELSE UNCHANGED <<refs, net_dev>>
  /\ IF Notified(n) /\ net_dev = NoDev
     THEN link_up' = carrier[n] /\ todo' = Baseline
     ELSE UNCHANGED <<link_up, todo>>
  /\ UNCHANGED <<trigger, device_name, mode, pending, news, lit, up, carrier>>

(* netdev_wait_allrefs is over.                                            *)
Freed(n) ==
  /\ device[n] = "going" /\ refs[n] = 0
  /\ device' = [device EXCEPT ![n] = "none"]
  /\ UNCHANGED <<trigger, dataVars, pending, news, lit, todo, up, carrier,
                 refs>>

(* NETDEV_UP, NETDEV_DOWN, and NETDEV_CHANGE of an interface that is up.    *)
IfUp(n) ==
  /\ Idle /\ device[n] = "there" /\ ~up[n]
  /\ up' = [up EXCEPT ![n] = TRUE]
  /\ LinkEvent(n, carrier[n])
  /\ UNCHANGED carrier

IfDown(n) ==
  /\ Idle /\ device[n] = "there" /\ up[n]
  /\ up' = [up EXCEPT ![n] = FALSE]
  /\ LinkEvent(n, FALSE)
  /\ UNCHANGED carrier

Carrier(n) ==
  /\ Idle /\ device[n] = "there"
  /\ carrier' = [carrier EXCEPT ![n] = ~@]
  /\ IF up[n]
     THEN LinkEvent(n, ~carrier[n])
     ELSE UNCHANGED <<trigger, dataVars, pending, news, lit, todo, device, refs>>
  /\ UNCHANGED up

-----------------------------------------------------------------------------
(* Packets pass.                                                           *)
Traffic ==
  /\ net_dev # NoDev /\ ~news
  /\ news' = TRUE
  /\ UNCHANGED <<trigger, dataVars, pending, lit, todo, deviceVars>>

(* netdev_trig_timer: nothing to watch, the LED shows the link and the     *)
(* timer is not restarted; otherwise the LED leaves its base state, ON     *)
(* with MODE_LINK, for one interval when packets were counted.             *)
Timer ==
  LET base == "link" \in mode IN
  /\ pending
  /\ IF ~link_up \/ net_dev = NoDev \/ "activity" \notin mode
     THEN lit' = (base /\ link_up) /\ pending' = FALSE /\ UNCHANGED news
     ELSE /\ lit' = IF lit # base THEN base ELSE IF news THEN ~lit ELSE lit
          /\ news' = FALSE
          /\ UNCHANGED pending
  /\ UNCHANGED <<trigger, dataVars, todo, deviceVars>>

LedNext ==
  \/ Activate \/ Deactivate \/ Deactivated
  \/ \E n \in Devs \cup {NoDev} : StoreName(n)
  \/ \E m \in Modes : StoreMode(m)
  \/ ReadFlags \/ SetLed \/ SetTimer
  \/ \E n \in Devs : \/ Register(n) \/ Unregister(n) \/ Freed(n)
                     \/ IfUp(n) \/ IfDown(n) \/ Carrier(n)
  \/ Traffic \/ Timer

LedSpec == LedInit /\ [][LedNext]_ledVars

-----------------------------------------------------------------------------
(* The timer asks net_dev for its counters whenever it finds one: the      *)
(* device exists as long, because the trigger holds a reference to it      *)
(* through every store, notification and rename of the trigger's device.   *)
NetDevHeld == net_dev # NoDev => refs[net_dev] > 0 /\ device[net_dev] # "none"

(* While there is a link to watch and nobody is writing, the timer is      *)
(* queued: it is what makes the LED blink, and only it requeues itself,    *)
(* so one lost mod_timer leaves the LED still until somebody writes again. *)
BlinkArmed ==
  trigger = "on" /\ Idle /\ link_up /\ net_dev # NoDev /\ "activity" \in mode
    => pending

(* The data is freed with no timer queued that would use it, no reference  *)
(* to the device and nobody inside.                                        *)
FreedQuiet == trigger = "off" => ~pending /\ net_dev = NoDev /\ Idle
=============================================================================
