---------------------------- MODULE MCAggregator ----------------------------
EXTENDS Aggregator

CONSTANTS n1, n2, n3
=============================================================================
