------------------------- MODULE MCDocumentArchive -------------------------
\* Model checking instance: an invoice with its XML and a signed quote, and
\* two ticks that overlap.
EXTENDS DocumentArchive

CONSTANTS invoice, quote, w1, w2

MCInvoices == {invoice}
MCQuotes == {quote}
MCWorkers == {w1, w2}
=============================================================================
