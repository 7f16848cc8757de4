--------------------------- MODULE MCAnomalyEvents ---------------------------
EXTENDS AnomalyEvents
=============================================================================
