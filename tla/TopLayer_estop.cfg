SPECIFICATION Spec
INVARIANT
  EstopQuestionKept
