----------------------------- MODULE MCPlatform -----------------------------
(* Bags for TLC. *)
EXTENDS Platform

CONSTANTS f, g, t, u   \* Elm functions: two that subscribe, two that are mapped

Bag == INSTANCE EffectBag WITH Ports <- {"out"}

MCValues == 0..(2 * MaxUpdates + 1) \union {f, g, t, u}
MCEffects(cmdBag, subBag) == Bag!EffectsOf(cmdBag, subBag)
MCSubscriptions(bag, home) == Bag!SubscriptionsOf(bag, home)

\* No command, one for the port under a map, or two for the port and one that
\* comes back in nested batches.
MCCmdBags(n) ==
    {Bag!batch(<<>>),
     Bag!map(t, Bag!leaf("out", 2 * n)),
     Bag!batch(<<Bag!leaf("out", 2 * n),
                 Bag!batch(<<Bag!map(t, Bag!map(u, Bag!leaf("fx", n))), Bag!leaf("out", 2 * n + 1)>>)>>)}

\* Always one subscription of the port, under different functions.
MCSubBags ==
    {Bag!leaf("in", f),
     Bag!map(t, Bag!batch(<<Bag!leaf("fx", g), Bag!map(u, Bag!leaf("in", f))>>))}

\* Its programs are of those for which the port's order is proved.
ASSUME ListenerAssumption == OneListener

=============================================================================
