------------------------ MODULE MCNotificationOutbox ------------------------
\* Model checking instance: a payment invite, and the acknowledgment of its
\* retraction on a channel without idempotency, the harder case.
EXTENDS NotificationOutbox

CONSTANTS invite, ack, w1, w2

MCJobs == {invite, ack}
MCSms == {ack}
MCInvites == {invite}
MCAcks == {ack}
MCWorkers == {w1, w2}
=============================================================================
