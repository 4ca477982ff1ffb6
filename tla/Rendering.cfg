SPECIFICATION MCSpec
CONSTANTS
  Circle = 8
  Calls <- MCCalls
  Objects <- MCObjects
  HullCalls <- MCHullCalls
  Listeners = {"A", "B"}
  Lost = "lost"
  ObjectLists <- MCObjectLists
  MaxSpatial = 8
  Buffers <- MCBuffers
  Alphas <- MCAlphas
  MaxHistory = 16
INVARIANTS HullSound PlaneSound PannersSound BoundaryPoseFresh AdapterSound
CHECK_DEADLOCK FALSE
