------------------------------ MODULE MCLLMCalls ------------------------------
(* Two threads.  A quota of two calls and a window of two ticks: the quota can
   be used up before the first call leaves the window, and both threads can meet
   over the last stale entry.  A breaker that trips on two hits within two ticks
   and cools off for two, so that hits are still in the window when the breaker
   recovers, and three attempts per complete(). *)
EXTENDS LLMCalls

CONSTANTS t1, t2

MCThreads == {t1, t2}
=============================================================================
