------------------------ MODULE MCRateLimiterThreads ------------------------
EXTENDS RateLimiterThreads, TLC

\* One token a second, no burst.
OnePerSecond == <<1, 0>>

=============================================================================
