----------------------------- MODULE MCMonitoring -----------------------------
(* Small instances of Monitoring. *)
EXTENDS Monitoring

CONSTANTS fw, web, k1, k2

\* Two contacts with a new device; rules beside one contact; a rule on two devices.
Tale(devs, later, ks, ev, kind, dur, rep, n) ==
    [devices |-> devs, later |-> later, contacts |-> ks, evaluates |-> ev, kind |-> kind,
     duration |-> dur, repeat |-> rep, events |-> n]
MCStories ==
    {Tale({fw}, {web}, {k1, k2}, FALSE, "offline", 0, 0, 2),
     Tale({fw}, {}, {k1}, TRUE, "offline", 1, 1, 2),
     Tale({fw}, {}, {k1}, TRUE, "metric", 0, 0, 2),
     Tale({fw, web}, {}, {}, TRUE, "license", 1, 1, 3)}
===============================================================================
