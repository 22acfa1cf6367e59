----------------------------- MODULE MCFakeQueue -----------------------------
EXTENDS FakeQueue
=============================================================================
