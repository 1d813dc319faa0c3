---------------------------- MODULE MCFeedService -----------------------------
\* FeedService with an output queue of at most OutBound items plus its sentinels.
EXTENDS FeedService
==============================================================================
