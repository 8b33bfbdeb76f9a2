SPECIFICATION Spec
CONSTANTS
  ali = ali
  alican = alican
  can = can
  Names = {ali, alican, can}
  Typed = {"NA", "AA", "XX"}
  Asked <- SomePages
  Begins <- ThreeBegins
  Holds <- ThreeHolds
  Rank <- ThreeRank
  NoEntry = noentry
  NoGrade = nograde
  MaxAdds = 4
INVARIANT TypeOK
INVARIANT OneGradeEach
INVARIANT LogAccounts
INVARIANT PageAsAsked
INVARIANT SortedListings
PROPERTY ImplementsBook
