---- MODULE MCSnapshots ----
EXTENDS SnapshotRefinement
====
