SPECIFICATION TlSpec
CONSTANTS
  Requests <- MCRequests
  MaxEvents = 2
  QueueCap = 2
  RowGroup = 3
  Faults = {"write"}
PROPERTY
  WhatWasWrittenStaysReadable
