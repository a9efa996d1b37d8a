------------------------------- MODULE MCStReplies -------------------------------
EXTENDS StReplies
=============================================================================
