---------------------------- MODULE MCSseStream ----------------------------
\* A small instance of SseStream: two values and every body of a few bytes.
EXTENDS SseStream

CONSTANTS p1, p2

MCPayloads == {p1, p2}
=============================================================================
