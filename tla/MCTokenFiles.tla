---- MODULE MCTokenFiles ----
(* Instances of TokenFiles for the model checker.                          *)
EXTENDS TokenFiles, TLC

CONSTANTS t1, t2, c1, c2, c3

Host      == <<"h">>
HostPort  == <<"h", ":", "p">>
HostUnder == <<"h", "_", "p">>   \* shares HostPort's directory

AllDomains == {Host, HostPort, HostUnder}

\* What HandleChallenge does to the store, after a lookup found nothing.
Buy(name, t) ==
  <<Get(name), Remove(name), Put(name, Pending(t)), Put(name, Paid(t))>>

\* The same, when the payment fails.
Attempt(name, t) == <<Get(name), Remove(name), Put(name, Pending(t))>>

Roles(a, b, c) == c1 :> a @@ c2 :> b @@ c3 :> c

\* One writer per directory, with readers and removers around it.
OneWriter ==
  { Roles(Buy(HostPort, t1), <<Get(HostPort)>>,   <<Remove(HostPort)>>),
    Roles(Buy(HostPort, t1), <<Get(HostPort)>>,   <<AllTokens>>),
    Roles(Buy(HostPort, t1), Buy(Host, t2),       <<AllTokens>>),
    Roles(Buy(HostPort, t1), <<Remove(HostPort)>>, <<AllTokens>>),
    Roles(Buy(HostPort, t1), Attempt(Host, t2),   <<ClearTokens>>) }

\* Two processes, or two domains, that buy into the same directory.
TwoWriters ==
  { Roles(Buy(HostPort, t1), Buy(HostPort, t2),  <<Get(HostPort)>>),
    Roles(Buy(HostPort, t1), Buy(HostUnder, t2), <<AllTokens>>) }

EveryScenario == OneWriter \cup TwoWriters
====
