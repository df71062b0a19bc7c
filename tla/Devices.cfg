SPECIFICATION MCSpec
INVARIANTS PortsAreSound ListsAreSound AnswersAreWhole CardsDoAsTold
PROPERTIES RingIsServed DriversFinish
