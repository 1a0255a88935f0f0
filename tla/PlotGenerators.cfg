SPECIFICATION Spec
CONSTANTS
  NUM_BUCKETS = 2
  Plots <- MCPlots
  Uninitialised = Uninitialised
  Hole = Hole
  MaxShort = 1
  NUM_THREADS = 2
  SHRT_MAX = 3
INVARIANTS TypeOK Accounting PlotMatchesArrivals WhatFitsIsWritten ShortWritesLeaveHoles EndsInTime MappedInPlace
PROPERTY SortKeepsBuckets
