----------------------------- MODULE MCOnroad ------------------------------
EXTENDS Onroad

Budget(c, s, t, d) == [changes |-> c, settings |-> s, stalls |-> t, deaths |-> d]
Drives == {Budget(3, 0, 0, 0), Budget(2, 0, 1, 0), Budget(2, 0, 0, 1), Budget(1, 2, 0, 0)}
=============================================================================
