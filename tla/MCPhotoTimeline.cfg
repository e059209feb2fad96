SPECIFICATION MCSpec
CONSTANTS
  photoArray <- MCphotoArray
  monthYearDate <- MCmonthYearDate
  SearchTexts <- MCSearchTexts
  withHash <- MCwithHash
  contained <- MCcontained
  Nothing = Nothing
  MaxLength = 5
INVARIANT TypeOK
INVARIANT RowsInBounds
INVARIANT FilteredOnce
INVARIANT OpenedBelongs
INVARIANT DivideGroupsByMonth
INVARIANT SortedGroupsByMonth
