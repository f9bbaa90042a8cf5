-------------------------- MODULE MCStripePayments --------------------------
\* Model checking instance: a link of an invoice that is due one unit above
\* its net to pay; none where only the subscription matters.
EXTENDS StripePayments

CONSTANTS link, h1, h2

MCLinks == {link}
MCNone == {}
MCHandlers == {h1, h2}
=============================================================================
