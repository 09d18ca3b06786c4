CONSTANTS
  k1 = k1
  k2 = k2
  k3 = k3
  k4 = k4
  k5 = k5
  Keys = {k1, k2, k3, k4, k5}
  Values = {1, 2}
  Hash <- MCHash
  FirstCap = 4
  MaxCap = 8
  NoKey = NoKey
  plainKey = plainKey
  shiftKey = shiftKey
  KeyCodes = {plainKey, shiftKey}
  Shift = shiftKey
  Bindings <- MCBindings
  Window = 2
  Hold = 2
  QueueCapacity = 1
  MaxTime = 4
  MaxPushes = 3
  MaxRacing = 2
  Listeners = {x, y}
  Windows = {w1, w2}
  Broadcast = w0
  FirstSlots = 1
  FirstRows = 1
  MaxChanges = 3
  Buttons = {1}
  Masks = {0, 15}
  Points <- MCPoints
  Floats <- MCFloats
  Contacts = {9}
  ClickWindow = 2
  PointerCapacity = 2
  PointerTime = 3
  MaxEvents = 4
  Frame = 2
  Scales = {1, 2, 4}
  MaxMono = 10
  MaxSettings = 2
  SizeValues = 8
  BodyCap = 3
  ServerCap = 2
  Answers <- MCAnswers
  Lengths = {0, 2, 3}
  MaxClients = 2

SPECIFICATION PartsSpec

INVARIANTS
  InputIsHeard
  GesturesAreCounted
  RegistrationsAreCalled
  ExchangesAreWhole
  TimeIsCounted

PROPERTIES
  ImplementsDictionary
  WhatBeginsEnds

CHECK_DEADLOCK FALSE
