-------------------------- MODULE MC_RollingMemory --------------------------
EXTENDS RollingMemory

CONSTANTS s1, s2, h1, h2

MCSessions == {s1, s2}
MCSessionOrder == <<s1, s2>>
MCHandlers == {h1, h2}
MCOneHandler == {h1}
=============================================================================
