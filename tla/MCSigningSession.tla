-------------------------- MODULE MCSigningSession --------------------------
(***************************************************************************)
(* Sessions of every transaction version with every kind of owner.  The    *)
(* lengths of the arbitrary data are those around which encodings change   *)
(* the width of a length, and around the limit of the chain; the clock     *)
(* starts at the smallest time lock that is a time.                        *)
(***************************************************************************)
EXTENDS SigningSession

CONSTANTS k1, k2, k3

Owner(kind, keys, min, lock) == [kind |-> kind, keys |-> keys, min |-> min, lock |-> lock]
Nobody == Owner("nobody", <<>>, 0, 0)
One == Owner("key", <<k1>>, 1, 0)
TwoOfThree == Owner("multi", <<k1, k2, k3>>, 2, 0)
TwoOfTwoLocked == Owner("multi", <<k1, k2>>, 2, 2)
ListedTwice == Owner("multi", <<k1, k1, k2>>, 2, 0)
OneLockedByTime == Owner("key", <<k1>>, 1, ClockStart + 2)
Swaps == {Owner(kind, keys, 1, ClockStart + 1) : kind \in {"swap", "oldswap"}, keys \in {<<k1, k2>>, <<k2, k1>>}}

Session(version, o, spends, length) == [version |-> version, owner |-> o, spends |-> spends, length |-> length]
MCSessions ==
    {Session(0, One, spends, 5) : spends \in {<<"own">>, <<"own", "other">>}}
      \cup {Session(1, o, spends, 5) : o \in {Nobody, One, TwoOfThree, TwoOfTwoLocked, ListedTwice, OneLockedByTime},
                                       spends \in {<<"own">>, <<"own", "other">>, <<"stake">>}}
      \cup {Session(v, o, <<"own">>, 5) : v \in {1, 130}, o \in Swaps}
      \cup {Session(130, Nobody, <<"own">>, 5)}
      \cup {Session(v, o, <<"own">>, 5) : v \in {128, 129, 130, 176, 177},
                                          o \in {One, TwoOfThree, ListedTwice, OneLockedByTime}}
      \cup {Session(v, One, <<"own">>, length) : v \in {1, 128, 129, 130, 177},
                                                 length \in {0, 127, 128, 16383, 16384, 16385}}
MCWallets == {{k1}, {k2}, {k1, k3}}
MCNewOwner == Owner("multi", <<k2, k3>>, 1, 0)

=============================================================================
